---------------------------- MODULE SizesProofs ----------------------------
(***************************************************************************)
(* Proofs about Sizes, for every length of a body, of a blob and of the    *)
(* body a blob claims.                                                     *)
(***************************************************************************)
EXTENDS Sizes, TLAPS

(***************************************************************************)
(* The inductive invariant: why the loop of padded_blob_len stops in range *)
(* and at the smallest bucket, and where the reader stands at each field.  *)
(***************************************************************************)
Buckets == {512, 1024, 2048, 4096, 8192, 16384, 32768, 65536, 131072, 262144,
            524288, 1048576, 2097152}

\* The loop has not gone past a bucket that would have done.
Sealing ==
  /\ pc \in {"bucket", "serialize", "sealed"} =>
       /\ body <= MAX_BODY_LEN
       /\ bucket \in Buckets
       /\ bucket = MIN_BLOB_LEN \/ bucket < 2 * Required
  /\ pc \in {"serialize", "sealed"} => Required <= bucket
  /\ pc = "refused" => body > MAX_BODY_LEN

\* What `seal` leaves in the blob.
OwnBlob ==
  /\ pc \in {"idle", "bucket", "serialize", "refused"} => ~blob.own
  /\ pc = "sealed" => blob.own
  /\ blob.own => /\ blob.len \in Buckets
                 /\ blob.claim = body
                 /\ body <= MAX_BODY_LEN
                 /\ blob.padding = blob.len - OUTER_OVERHEAD - INTERNAL_FIXED_LEN - body
                 /\ pc # "rejected"

\* The offset before each field up to the body.
Start(i) == IF i <= 2 THEN i - 1 ELSE IF i <= 7 THEN 2 + 32 * (i - 3) ELSE 134

Parsing ==
  /\ pc \in {"parse", "opened"} =>
       /\ ValidBlobLen(blob.len)
       /\ Input >= INTERNAL_FIXED_LEN
       /\ Len(read) = field - 1
       /\ field <= BodyField => offset = Start(field)
       /\ field > BodyField =>
            /\ blob.claim <= MAX_BODY_LEN
            /\ blob.claim <= Input - INTERNAL_FIXED_LEN
            /\ read[BodyField] = [at |-> 134, len |-> blob.claim]
       /\ field = 9 => offset = 134 + blob.claim
       /\ field >= 10 => read[9] = [at |-> 134 + blob.claim, len |-> SIGNATURE_LEN]
       /\ field = 10 => offset = INTERNAL_FIXED_LEN + blob.claim
       /\ field = 11 => /\ offset = Input
                        /\ read[10] = [at  |-> INTERNAL_FIXED_LEN + blob.claim,
                                       len |-> Input - INTERNAL_FIXED_LEN - blob.claim]
  /\ pc = "opened" => field = 11
  /\ pc = "rejected" => field <= BodyField

IInv == TypeOK /\ Sealing /\ OwnBlob /\ Parsing

-----------------------------------------------------------------------------
\* The lengths that the layout fixes.
LEMMA Layout == OUTER_OVERHEAD = 72 /\ INTERNAL_FIXED_LEN = 198 /\ SIGNATURE_LEN = 64
  BY SMT DEF OUTER_OVERHEAD, INTERNAL_FIXED_LEN, SIGNATURE_LEN

\* Every bucket is a length a blob may have.
LEMMA BucketsAreValid == \A n \in Buckets : n \in Nat /\ 512 <= n /\ ValidBlobLen(n)
  BY SMT DEF Buckets, ValidBlobLen, Powers, MIN_BLOB_LEN, MAX_BLOB_LEN

\* What a blob of valid length holds is longer than the fixed fields.
LEMMA ValidLens == \A n : ValidBlobLen(n) => n \in Nat /\ 512 <= n
  BY SMT DEF ValidBlobLen, Powers, MIN_BLOB_LEN

\* Nothing is in the program's hands at first.
LEMMA InitIInv == Init => IInv
  BY DEF Init, NoBlob, IInv, TypeOK, Pcs, Fields, Sealing, OwnBlob, Parsing, BodyField

\* The steps of `seal`.
LEMMA SealStep ==
  ASSUME IInv, (\E n \in BodyLens : BeginSeal(n)) \/ Double \/ Chosen
  PROVE  IInv'
<1> USE LenAssumption
    DEF IInv, TypeOK, Pcs, Sealing, OwnBlob, Parsing, MAX_BODY_LEN, MIN_BLOB_LEN, MAX_BLOB_LEN
<1>1. CASE \E n \in BodyLens : BeginSeal(n)
  BY <1>1 DEF BeginSeal, Buckets
<1>2. CASE Double
  <2>1. /\ pc = "bucket" /\ pc' = "bucket" /\ bucket' = bucket * 2 /\ bucket < Required
        /\ UNCHANGED <<body, blob, field, offset, read>> /\ Required' = Required
        /\ Required \in Nat
    BY <1>2 DEF Double, Fits, Required, INTERNAL_FIXED_LEN, OUTER_OVERHEAD, SIGNATURE_LEN
  <2>2. Required <= 1048576 + 270
    BY <2>1 DEF Required, INTERNAL_FIXED_LEN, OUTER_OVERHEAD, SIGNATURE_LEN
  <2>3. bucket' \in Buckets /\ bucket' \in Nat
    BY <2>1, <2>2 DEF Buckets
  <2>4. bucket' < 2 * Required'
    BY <2>1
  <2> HIDE DEF MIN_BLOB_LEN
  <2>. QED BY <2>1, <2>3, <2>4
<1>3. CASE Chosen
  <2>1. /\ pc = "bucket" /\ bucket >= Required
        /\ UNCHANGED <<body, bucket, blob, field, offset, read>> /\ Required' = Required
        /\ Required \in Nat
    BY <1>3 DEF Chosen, Fits, Required, INTERNAL_FIXED_LEN, OUTER_OVERHEAD, SIGNATURE_LEN
  <2>2. bucket <= MAX_BLOB_LEN
    BY <2>1 DEF Buckets
  <2>3. pc' = "serialize"
    BY <1>3, <2>2 DEF Chosen
  <2>. QED BY <2>1, <2>3
<1>. QED BY <1>1, <1>2, <1>3

\* The blob has the length that was calculated.
LEMMA SerializeStep ==
  ASSUME IInv, Serialize
  PROVE  IInv'
<1>1. /\ pc = "serialize" /\ UNCHANGED <<body, bucket, field, offset, read>>
      /\ Required' = Required /\ Required <= bucket
      /\ body \in Nat /\ bucket \in Nat /\ bucket \in Buckets
  BY DEF Serialize, Required, IInv, TypeOK, Sealing
<1>2. /\ PaddingLen = bucket - 72 - 198 - body /\ PaddingLen \in Nat
      /\ PlaintextLen = bucket - 72
      /\ 198 + body + PaddingLen = PlaintextLen
      /\ 32 + 24 + ((198 + body + PaddingLen) + 16) = bucket
  BY SMT, <1>1, Layout DEF PaddingLen, PlaintextLen, Required
<1>3. /\ pc' = "sealed"
      /\ blob' = [len |-> bucket, claim |-> body, padding |-> PaddingLen, own |-> TRUE]
  BY SMT, <1>1, <1>2, Layout DEF Serialize
<1>4. body <= MAX_BODY_LEN
  BY <1>1 DEF IInv, Sealing
<1>5. TypeOK'
  BY SMT, <1>1, <1>2, <1>3 DEF IInv, TypeOK, Pcs, Fields
<1>6. Sealing'
  BY SMT, <1>1, <1>3 DEF IInv, Sealing
<1>7. OwnBlob'
  BY SMT, <1>1, <1>2, <1>3, <1>4, Layout DEF OwnBlob
<1>8. Parsing'
  BY <1>3 DEF Parsing
<1>. QED BY <1>5, <1>6, <1>7, <1>8 DEF IInv

\* The steps of `open` up to the first byte of the plaintext.
LEMMA DecryptStep ==
  ASSUME IInv, OpenOwn \/ (\E n \in BlobLens, c \in Claims : OpenForeign(n, c)) \/ Decrypt \/ Again
  PROVE  IInv'
<1> USE LenAssumption
    DEF IInv, TypeOK, Pcs, Sealing, OwnBlob, Parsing, MAX_BODY_LEN, MIN_BLOB_LEN, Required
<1>1. CASE OpenOwn
  BY <1>1 DEF OpenOwn
<1>2. CASE \E n \in BlobLens, c \in Claims : OpenForeign(n, c)
  BY <1>2 DEF OpenForeign
<1>3. CASE Again
  BY <1>3 DEF Again, NoBlob, Fields, BodyField
<1>4. CASE Decrypt
  <2>1. /\ pc = "open" /\ field' = 1 /\ offset' = 0 /\ read' = <<>>
        /\ UNCHANGED <<body, bucket, blob>> /\ Input' = Input
    BY <1>4 DEF Decrypt, Input
  <2>2. CASE ValidBlobLen(blob.len) /\ Input >= INTERNAL_FIXED_LEN /\ pc' = "parse"
    BY <2>1, <2>2 DEF Start, ValidBlobLen, BodyField, Fields
  <2>3. CASE pc' = "rejected" /\ ~blob.own
    BY <2>1, <2>3 DEF BodyField, Fields
  <2>4. blob.own => /\ ValidBlobLen(blob.len) /\ blob.len >= OUTER_OVERHEAD
                    /\ Input >= INTERNAL_FIXED_LEN
    <3> SUFFICES ASSUME blob.own PROVE ValidBlobLen(blob.len) /\ blob.len >= 72 /\ Input >= 198
      BY Layout
    <3>1. blob.len \in Buckets
      OBVIOUS
    <3> HIDE DEF IInv, TypeOK, Sealing, OwnBlob, Parsing, MAX_BODY_LEN, MIN_BLOB_LEN
    <3>2. blob.len \in Nat /\ 512 <= blob.len /\ ValidBlobLen(blob.len)
      BY <3>1, BucketsAreValid
    <3>. QED BY SMT, <3>2, Layout DEF Input
  <2>. QED BY <1>4, <2>2, <2>3, <2>4 DEF Decrypt
<1>. QED BY <1>1, <1>2, <1>3, <1>4

\* The length of a field, where it is the reader's turn.
LEMMA FieldLens ==
  /\ FieldLen(1) = 1 /\ FieldLen(2) = 1 /\ FieldLen(3) = 32 /\ FieldLen(4) = 32
  /\ FieldLen(5) = 32 /\ FieldLen(6) = 32 /\ FieldLen(7) = 4
  /\ FieldLen(8) = blob.claim /\ FieldLen(9) = 64 /\ FieldLen(10) = Remaining
  BY SMT DEF FieldLen, BodyField, SIGNATURE_LEN

\* The fields before the body follow one another.
LEMMA Starts ==
  /\ Start(1) = 0 /\ Start(2) = 1 /\ Start(3) = 2 /\ Start(4) = 34 /\ Start(5) = 66
  /\ Start(6) = 98 /\ Start(7) = 130 /\ Start(8) = 134
  BY SMT DEF Start

\* One field is read, and the offset is where the next one starts.
LEMMA TakeStep ==
  ASSUME IInv, Take
  PROVE  IInv'
<1> DEFINE n == FieldLen(field)
<1>1. /\ pc = "parse" /\ field \in 1 .. 10 /\ UNCHANGED <<body, bucket, blob>>
      /\ Input' = Input /\ Required' = Required
      /\ offset \in Nat /\ blob.claim \in Nat /\ read \in Seq([at : Nat, len : Nat])
      /\ ValidBlobLen(blob.len)
  BY DEF Take, Input, Required, IInv, TypeOK, Parsing, Fields
<1>2. /\ Input \in Nat /\ Input >= 198 /\ Len(read) = field - 1
      /\ field <= 8 => offset = Start(field)
      /\ field > 8 => /\ blob.claim <= MAX_BODY_LEN
                      /\ blob.claim <= Input - 198
                      /\ read[8] = [at |-> 134, len |-> blob.claim]
      /\ field = 9 => offset = 134 + blob.claim
      /\ field = 10 => offset = 198 + blob.claim /\ read[9] = [at |-> 134 + blob.claim, len |-> 64]
  <2>1. /\ Input >= 198 /\ Len(read) = field - 1
        /\ field <= 8 => offset = Start(field)
        /\ field > 8 => /\ blob.claim <= MAX_BODY_LEN
                        /\ blob.claim <= Input - 198
                        /\ read[8] = [at |-> 134, len |-> blob.claim]
        /\ field = 9 => offset = 134 + blob.claim
        /\ field >= 10 => read[9] = [at |-> 134 + blob.claim, len |-> 64]
        /\ field = 10 => offset = 198 + blob.claim
    BY <1>1, Layout DEF IInv, Parsing, BodyField
  <2>2. Input \in Nat
    BY SMT, <1>1, <2>1, ValidLens, Layout DEF Input
  <2>. QED BY SMT, <1>1, <2>1, <2>2
<1>3. field = 8 => blob.claim <= MAX_BODY_LEN /\ blob.claim <= Input - 198
  <2> SUFFICES ASSUME field = 8 PROVE blob.claim <= MAX_BODY_LEN /\ blob.claim <= Input - 198
    OBVIOUS
  <2>1. ClaimFits /\ offset = 134
    BY <1>1, <1>2, Starts DEF Take, BodyField
  <2>. QED BY SMT, <1>1, <1>2, <2>1, Layout DEF ClaimFits, Remaining
<1>4. /\ n \in Nat /\ offset + n <= Input
      /\ field <= 7 => offset + n = Start(field + 1)
      /\ field = 8 => n = blob.claim /\ offset + n = 134 + blob.claim
      /\ field = 9 => n = 64 /\ offset + n = 198 + blob.claim
      /\ field = 10 => n = Input - 198 - blob.claim /\ offset + n = Input
  <2>1. CASE field = 8
    <3>1. n = blob.claim
      BY <2>1, FieldLens
    <3>. QED BY SMT, <1>1, <1>2, <1>3, <2>1, <3>1, Starts
  <2>2. CASE field = 9
    <3>1. n = 64
      BY <2>2, FieldLens
    <3> HIDE DEF n
    <3>. QED BY SMT, <1>1, <1>2, <2>2, <3>1
  <2>3. CASE field = 10
    <3>1. n = Remaining
      BY <2>3, FieldLens
    <3> HIDE DEF n
    <3>. QED BY SMT, <1>1, <1>2, <2>3, <3>1 DEF Remaining
  <2>4. CASE field \in 1 .. 7
    <3>1. n \in Nat /\ Start(field) + n = Start(field + 1) /\ Start(field + 1) <= 134
      <4>1. CASE field \in 1 .. 2
        BY SMT, <4>1, FieldLens, Starts
      <4>2. CASE field \in 3 .. 6
        BY SMT, <4>2, FieldLens, Starts
      <4>3. CASE field = 7
        BY SMT, <4>3, FieldLens, Starts
      <4>. QED BY SMT, <2>4, <4>1, <4>2, <4>3
    <3> HIDE DEF n
    <3>. QED BY SMT, <1>1, <1>2, <2>4, <3>1
  <2>. QED BY SMT, <1>1, <2>1, <2>2, <2>3, <2>4
<1> HIDE DEF n
<1>5. /\ pc' = "parse" /\ offset' = offset + n /\ field' = field + 1
      /\ read' = Append(read, [at |-> offset, len |-> n])
  <2>1. ~(offset + FieldLen(field) > Input)
    BY SMT, <1>1, <1>2, <1>4 DEF n
  <2>. QED BY Zenon, <1>1, <2>1 DEF Take, n
<1>6. /\ offset' \in Nat /\ field' \in 1 .. 11
      /\ read' \in Seq([at : Nat, len : Nat]) /\ Len(read') = field
      /\ read'[field] = [at |-> offset, len |-> n]
      /\ \A i \in 1 .. field - 1 : read'[i] = read[i]
  <2> DEFINE R == [at : Nat, len : Nat]
             r == [at |-> offset, len |-> n]
  <2>1. r \in R
    BY <1>1, <1>4
  <2>2. read \in Seq(R) /\ read' = Append(read, r)
    BY <1>1, <1>5
  <2>3. offset' \in Nat /\ field' \in 1 .. 11 /\ field \in Nat /\ Len(read) = field - 1
    BY SMT, <1>1, <1>2, <1>4, <1>5
  <2> HIDE DEF R, r
  <2>4. /\ read' \in Seq(R) /\ Len(read') = field /\ read'[field] = r
        /\ \A i \in 1 .. field - 1 : read'[i] = read[i]
    BY SMT, <2>1, <2>2, <2>3
  <2>. QED BY <2>3, <2>4 DEF R, r
<1>7. Parsing'
  <2>1. ValidBlobLen(blob'.len) /\ Input' >= 198 /\ Len(read') = field' - 1
    BY SMT, <1>1, <1>2, <1>5, <1>6
  <2>2. field' <= 8 => offset' = Start(field')
    BY SMT, <1>1, <1>4, <1>5
  <2>3. field' > 8 =>
          /\ blob'.claim <= MAX_BODY_LEN /\ blob'.claim <= Input' - 198
          /\ read'[8] = [at |-> 134, len |-> blob'.claim]
    <3>1. CASE field = 8
      <4>1. offset = 134 /\ n = blob.claim
        BY SMT, <1>2, <1>4, <3>1, Starts
      <4>. QED BY <1>1, <1>3, <1>6, <3>1, <4>1
    <3>2. CASE field > 8
      <4>1. 8 \in 1 .. field - 1
        BY SMT, <1>1, <3>2
      <4>2. read'[8] = read[8]
        BY <1>6, <4>1
      <4>. QED BY <1>1, <1>2, <3>2, <4>2
    <3>3. field' > 8 => field = 8 \/ field > 8
      BY SMT, <1>1, <1>5
    <3>. QED BY <3>1, <3>2, <3>3
  <2>4. /\ field' = 9 => offset' = 134 + blob'.claim
        /\ field' = 10 => offset' = 198 + blob'.claim
        /\ field' = 11 => offset' = Input'
    BY SMT, <1>1, <1>4, <1>5
  <2>5. field' >= 10 => read'[9] = [at |-> 134 + blob'.claim, len |-> 64]
    <3>1. CASE field = 9
      BY SMT, <1>1, <1>2, <1>4, <1>6, <3>1
    <3>2. CASE field = 10
      <4>1. 9 \in 1 .. field - 1
        BY SMT, <3>2
      <4>2. read'[9] = read[9]
        BY <1>6, <4>1
      <4>. QED BY <1>1, <1>2, <3>2, <4>2
    <3>3. field' >= 10 => field = 9 \/ field = 10
      BY SMT, <1>1, <1>5
    <3>. QED BY <3>1, <3>2, <3>3
  <2>6. field' = 11 => read'[10] = [at |-> 198 + blob'.claim, len |-> Input' - 198 - blob'.claim]
    BY SMT, <1>1, <1>2, <1>4, <1>5, <1>6
  <2>. QED BY <1>5, <2>1, <2>2, <2>3, <2>4, <2>5, <2>6, Layout DEF Parsing, BodyField
<1>8. TypeOK'
  BY <1>1, <1>5, <1>6 DEF IInv, TypeOK, Pcs, Fields
<1>9. Sealing' /\ OwnBlob'
  BY <1>1, <1>5 DEF IInv, Sealing, OwnBlob
<1>. QED BY <1>7, <1>8, <1>9 DEF IInv

\* What is rejected while it is parsed was not made by `seal`.
LEMMA RejectStep ==
  ASSUME IInv, Reject \/ Parsed
  PROVE  IInv'
<1> USE DEF IInv, TypeOK, Pcs, Sealing, OwnBlob, Parsing, BodyField, Fields
<1>1. CASE Reject
  <2>1. /\ pc = "parse" /\ pc' = "rejected" /\ field <= 8
        /\ UNCHANGED <<body, bucket, blob, field, offset, read>>
    BY <1>1 DEF Reject
  <2>2. ~blob.own
    <3> SUFFICES ASSUME blob.own PROVE FALSE
      OBVIOUS
    <3>1. field = 8 /\ offset = 134 /\ ~ClaimFits
      BY <1>1 DEF Reject, Start
    <3>2. blob.claim <= MAX_BODY_LEN /\ blob.claim <= Remaining - 64
      BY <3>1 DEF Remaining, Input, OUTER_OVERHEAD, INTERNAL_FIXED_LEN, SIGNATURE_LEN
    <3>3. Remaining \in Int
      BY DEF Remaining, Input, OUTER_OVERHEAD
    <3>. QED BY <3>1, <3>2, <3>3 DEF ClaimFits, SIGNATURE_LEN
  <2>. QED BY <2>1, <2>2
<1>2. CASE Parsed
  <2> HIDE DEF IInv, TypeOK, Sealing, OwnBlob, Parsing
  <2>1. /\ pc = "parse" /\ pc' = "opened" /\ field = 11
        /\ UNCHANGED <<body, bucket, blob, field, offset, read>>
    <3>1. field \in 1 .. 11 /\ field > 10
      BY <1>2 DEF IInv, TypeOK, Parsed
    <3>2. field = 11
      BY SMT, <3>1
    <3>. QED BY <1>2, <3>2 DEF Parsed
  <2>2. TypeOK'
    BY <2>1 DEF IInv, TypeOK
  <2>3. Sealing' /\ OwnBlob'
    BY <2>1 DEF IInv, Sealing, OwnBlob
  <2>4. Parsing'
    BY <2>1 DEF IInv, Parsing, Input
  <2>. QED BY <2>2, <2>3, <2>4 DEF IInv
<1>. QED BY <1>1, <1>2

\* No step of sealing or opening breaks the invariant.
LEMMA NextIInv == IInv /\ [Next]_vars => IInv'
<1> SUFFICES ASSUME IInv, [Next]_vars PROVE IInv'
  OBVIOUS
<1>1. CASE UNCHANGED vars
  BY <1>1 DEF vars, IInv, TypeOK, Sealing, OwnBlob, Parsing, Required, Input
<1>2. CASE Next
  BY <1>2, SealStep, SerializeStep, DecryptStep, TakeStep, RejectStep DEF Next, Step
<1>. QED BY <1>1, <1>2

\* The invariant holds for every letter.
THEOREM Invariant == Spec => []IInv
  BY InitIInv, NextIInv, PTL DEF Spec

-----------------------------------------------------------------------------
\* No length that seal or open computes is negative, for any input.
THEOREM NoUnderflow == Spec => []TypeOK
  BY Invariant, PTL DEF IInv

\* padded_blob_len finds the smallest bucket for every body within the limit,
\* and refuses no such body.
THEOREM SmallestBucketChosen == Spec => []SmallestBucket
<1>1. IInv => SmallestBucket
  <2> SUFFICES ASSUME IInv PROVE SmallestBucket
    OBVIOUS
  <2> USE DEF IInv, TypeOK, Sealing
  <2>1. ASSUME pc \in {"serialize", "sealed"}
        PROVE  /\ ValidBlobLen(bucket) /\ Required <= bucket
               /\ \A n \in Powers : ValidBlobLen(n) /\ Required <= n => bucket <= n
    <3>1. Required \in Nat
      BY DEF Required, INTERNAL_FIXED_LEN, OUTER_OVERHEAD, SIGNATURE_LEN
    <3>2. ValidBlobLen(bucket)
      BY <2>1, BucketsAreValid
    <3>3. ASSUME NEW n \in Powers, ValidBlobLen(n), Required <= n PROVE bucket <= n
      <4>1. n >= 512 /\ (bucket = 512 \/ bucket < 2 * n)
        BY <2>1, <3>1, <3>3 DEF ValidBlobLen, MIN_BLOB_LEN, Powers
      <4>. QED BY <2>1, <4>1 DEF Buckets, Powers
    <3>. QED BY <2>1, <3>2, <3>3
  <2>. QED BY <2>1 DEF SmallestBucket
<1>. QED BY <1>1, Invariant, PTL

\* Every letter sealed is opened, with the body where it was put.
THEOREM RoundTrip == Spec => []SealedLetterOpens
<1>1. IInv => SealedLetterOpens
  <2> SUFFICES ASSUME IInv, blob.own, pc = "opened"
               PROVE  /\ read[BodyField] = [at |-> 1 + 1 + 4 * 32 + 4, len |-> body]
                      /\ read[Fields].len = blob.padding
    BY DEF IInv, OwnBlob, SealedLetterOpens
  <2>1. /\ field = 11 /\ blob.claim = body
        /\ read[8] = [at |-> 134, len |-> blob.claim]
        /\ read[10].len = Input - INTERNAL_FIXED_LEN - blob.claim
        /\ blob.padding = Input - INTERNAL_FIXED_LEN - body
    BY DEF IInv, Parsing, OwnBlob, BodyField, Input
  <2>. QED BY <2>1 DEF BodyField, Fields
<1>. QED BY <1>1, Invariant, PTL

\* The reader stays inside the plaintext whatever length a blob claims.
THEOREM ReaderStaysInside == Spec => []ReaderContained
<1>1. IInv => ReaderContained
  <2> SUFFICES ASSUME IInv PROVE ReaderContained
    OBVIOUS
  <2>1. blob.claim \in Nat /\ offset \in Nat /\ field \in 1 .. 11 /\ blob.len \in Nat
    BY DEF IInv, TypeOK, Fields
  <2>2. ASSUME pc \in {"parse", "opened"} PROVE offset <= Input
    <3>1. /\ Input >= 198
          /\ field <= 8 => offset = Start(field)
          /\ field > 8 => blob.claim <= Input - 198
          /\ field = 9 => offset = 134 + blob.claim
          /\ field = 10 => offset = 198 + blob.claim
          /\ field = 11 => offset = Input
      BY <2>2, Layout DEF IInv, Parsing, BodyField
    <3>2. Input \in Int
      BY <2>1, Layout DEF Input
    <3>. QED BY SMT, <2>1, <3>1, <3>2, Starts
  <2>3. ASSUME pc = "opened"
        PROVE  /\ offset = Input
               /\ read[BodyField].len <= MAX_BODY_LEN
               /\ read[9] = [at |-> read[BodyField].at + read[BodyField].len, len |-> SIGNATURE_LEN]
               /\ read[Fields].at + read[Fields].len = Input
    <3>1. /\ field = 11 /\ offset = Input
          /\ blob.claim <= MAX_BODY_LEN
          /\ read[8] = [at |-> 134, len |-> blob.claim]
          /\ read[9] = [at |-> 134 + blob.claim, len |-> 64]
          /\ read[10] = [at |-> 198 + blob.claim, len |-> Input - 198 - blob.claim]
      BY <2>3, Layout DEF IInv, Parsing, BodyField
    <3>2. Input \in Int
      BY <2>1, Layout DEF Input
    <3>3. (198 + blob.claim) + (Input - 198 - blob.claim) = Input
      BY SMT, <2>1, <3>2
    <3>. QED BY <3>1, <3>3, Layout DEF BodyField, Fields
  <2>. QED BY <2>2, <2>3 DEF ReaderContained
<1>. QED BY <1>1, Invariant, PTL

\* A letter is rejected before its body is read or not at all.
THEOREM ClaimsAreCheckedFirst == Spec => []ClaimIsCheckedFirst
<1>1. IInv => ClaimIsCheckedFirst
  BY DEF IInv, Parsing, ClaimIsCheckedFirst
<1>. QED BY <1>1, Invariant, PTL
=============================================================================
