------------------------------- MODULE Sizes -------------------------------
(***************************************************************************)
(* The lengths of a letter: message::seal pads it to a bucket              *)
(* (src/src/protocol.rs), serialize_internal and parse_internal lay it out *)
(* and read it back (src/src/message.rs) through a Reader                  *)
(* (src/src/format.rs).  Only lengths and offsets are kept; what the bytes *)
(* say is the business of Letters.                                         *)
(*                                                                         *)
(* Arithmetic is over the integers, so that a subtraction that would leave *)
(* the range of usize shows as a negative number.                          *)
(***************************************************************************)
EXTENDS Integers, Sequences

CONSTANTS
  BodyLens,   \* lengths of the bodies that callers pass to `seal`
  BlobLens,   \* lengths of the blobs that other programs make
  Claims      \* body lengths that other programs write into their blobs

ASSUME LenAssumption == BodyLens \subseteq Nat /\ BlobLens \subseteq Nat /\ Claims \subseteq Nat

OUTER_OVERHEAD     == 32 + 24 + 16                        \* ephemeral key, nonce, tag
SIGNATURE_LEN      == 64
INTERNAL_FIXED_LEN == 1 + 1 + 32 + 32 + 32 + 32 + 4 + SIGNATURE_LEN
MIN_BLOB_LEN       == 512
MAX_BODY_LEN       == 1048576
MAX_BLOB_LEN       == 2097152

\* The powers of two that blob lengths are compared with, and one more on
\* either side of the range.
Powers == {256, 512, 1024, 2048, 4096, 8192, 16384, 32768, 65536, 131072,
           262144, 524288, 1048576, 2097152, 4194304}

VARIABLES
  pc,      \* what seal or open is about to do; "idle" before and after
  body,    \* seal: the length of the body
  bucket,  \* seal: the bucket tried by padded_blob_len
  blob,    \* the blob at hand: its length, the body length it claims, the
           \* length of its padding and whether `seal` of this program made it
  field,   \* open: the field of the plaintext to be read next
  offset,  \* open: Reader::offset
  read     \* open: read[i] is where field i was found

vars == <<pc, body, bucket, blob, field, offset, read>>

Pcs == {"idle", "bucket", "serialize", "sealed", "refused",
        "open", "parse", "opened", "rejected"}

-----------------------------------------------------------------------------
(***************************************************************************)
(* seal                                                                    *)
(***************************************************************************)
\* A slip of Required: the outer layer is forgotten.
RequiredInside == INTERNAL_FIXED_LEN + body

Required == INTERNAL_FIXED_LEN + body + OUTER_OVERHEAD

\* A new body: over the limit it is refused, else a bucket is looked for.
BeginSeal(n) ==
  /\ pc = "idle"
  /\ body' = n
  /\ IF n > MAX_BODY_LEN
       THEN pc' = "refused" /\ UNCHANGED bucket
       ELSE pc' = "bucket" /\ bucket' = MIN_BLOB_LEN
  /\ UNCHANGED <<blob, field, offset, read>>

\* A slip of Fits: a body that fills the bucket is given the next one.
FitsLoosely == bucket > Required

\* padded_blob_len: the loop ends at the first bucket that holds everything.
Fits == bucket >= Required

Double ==
  /\ pc = "bucket"
  /\ ~Fits
  /\ bucket' = bucket * 2
  /\ UNCHANGED <<pc, body, blob, field, offset, read>>

Chosen ==
  /\ pc = "bucket"
  /\ Fits
  /\ pc' = IF bucket <= MAX_BLOB_LEN THEN "serialize" ELSE "refused"
  /\ UNCHANGED <<body, bucket, blob, field, offset, read>>

PlaintextLen == bucket - OUTER_OVERHEAD

PaddingLen == PlaintextLen - INTERNAL_FIXED_LEN - body

\* serialize_internal and the outer layer; the two lengths are compared again
\* with what was calculated.
Serialize ==
  /\ pc = "serialize"
  /\ LET internal == INTERNAL_FIXED_LEN + body + PaddingLen
         made     == 32 + 24 + (internal + 16)
     IN  IF internal = PlaintextLen /\ made = bucket
           THEN /\ pc' = "sealed"
                /\ blob' = [len |-> made, claim |-> body, padding |-> PaddingLen, own |-> TRUE]
           ELSE pc' = "refused" /\ UNCHANGED blob
  /\ UNCHANGED <<body, bucket, field, offset, read>>

-----------------------------------------------------------------------------
(***************************************************************************)
(* open                                                                    *)
(***************************************************************************)

\* The recipient opens what was sealed ...
OpenOwn ==
  /\ pc = "sealed"
  /\ pc' = "open"
  /\ UNCHANGED <<body, bucket, blob, field, offset, read>>

\* ... or a blob some other program has encrypted for it.
OpenForeign(n, c) ==
  /\ pc = "idle"
  /\ pc' = "open"
  /\ blob' = [len |-> n, claim |-> c, padding |-> 0, own |-> FALSE]
  /\ UNCHANGED <<body, bucket, field, offset, read>>

ValidBlobLen(n) == n \in Powers /\ MIN_BLOB_LEN <= n /\ n <= MAX_BLOB_LEN

Input == blob.len - OUTER_OVERHEAD

\* The checks before the first byte is looked at, and decryption.
Decrypt ==
  /\ pc = "open"
  /\ IF ValidBlobLen(blob.len) /\ blob.len >= OUTER_OVERHEAD /\ Input >= INTERNAL_FIXED_LEN
       THEN pc' = "parse"
       ELSE pc' = "rejected"
  /\ field' = 1
  /\ offset' = 0
  /\ read' = <<>>
  /\ UNCHANGED <<body, bucket, blob>>

Remaining == Input - offset

\* The fields of the plaintext: version, suite, two keys, fingerprint, message
\* id, body length, body, signature, padding.
BodyField == 8
Fields    == 10

FieldLen(i) == IF i <= 7 THEN <<1, 1, 32, 32, 32, 32, 4>>[i]
               ELSE IF i = BodyField THEN blob.claim
               ELSE IF i = 9 THEN SIGNATURE_LEN
               ELSE Remaining

\* Three slips of ClaimFits: no room is kept for the signature, a body that
\* leaves no padding is refused, the limit on bodies is left to the blob's.
ClaimFitsUnsigned == blob.claim <= MAX_BODY_LEN /\ blob.claim <= Remaining

ClaimFitsWithin == blob.claim <= MAX_BODY_LEN /\ blob.claim < Remaining - SIGNATURE_LEN

ClaimFitsAnyLen == blob.claim <= Remaining - SIGNATURE_LEN

\* The claimed body length against what is left behind it; saturating_sub
\* stops at zero.
ClaimFits ==
  /\ blob.claim <= MAX_BODY_LEN
  /\ blob.claim <= IF Remaining >= SIGNATURE_LEN THEN Remaining - SIGNATURE_LEN ELSE 0

\* Reader::take: an end beyond the input is an error.
Take ==
  /\ pc = "parse"
  /\ field <= Fields
  /\ field = BodyField => ClaimFits
  /\ LET end == offset + FieldLen(field)
     IN  IF end > Input
           THEN pc' = "rejected" /\ UNCHANGED <<field, offset, read>>
           ELSE /\ offset' = end
                /\ read' = Append(read, [at |-> offset, len |-> FieldLen(field)])
                /\ field' = field + 1
                /\ UNCHANGED pc
  /\ UNCHANGED <<body, bucket, blob>>

\* An impossible body length, or a version or suite this program never writes.
Reject ==
  /\ pc = "parse"
  /\ \/ field = BodyField /\ ~ClaimFits
     \/ field \in {2, 3} /\ ~blob.own
  /\ pc' = "rejected"
  /\ UNCHANGED <<body, bucket, blob, field, offset, read>>

Parsed ==
  /\ pc = "parse"
  /\ field > Fields
  /\ pc' = "opened"
  /\ UNCHANGED <<body, bucket, blob, field, offset, read>>

-----------------------------------------------------------------------------
NoBlob == [len |-> 0, claim |-> 0, padding |-> 0, own |-> FALSE]

Init ==
  /\ pc = "idle"
  /\ body = 0
  /\ bucket = 0
  /\ blob = NoBlob
  /\ field = 1
  /\ offset = 0
  /\ read = <<>>

\* The next letter.
Again ==
  /\ pc \in {"refused", "opened", "rejected"}
  /\ pc' = "idle" /\ body' = 0 /\ bucket' = 0 /\ blob' = NoBlob
  /\ field' = 1 /\ offset' = 0 /\ read' = <<>>

Step == Double \/ Chosen \/ Serialize \/ OpenOwn \/ Decrypt \/ Take \/ Reject \/ Parsed

Next ==
  \/ \E n \in BodyLens : BeginSeal(n)
  \/ \E n \in BlobLens, c \in Claims : OpenForeign(n, c)
  \/ Step
  \/ Again

Spec == Init /\ [][Next]_vars

-----------------------------------------------------------------------------
(***************************************************************************)
(* Properties.                                                             *)
(***************************************************************************)

\* Every variable has its type.  In particular no length or offset leaves the
\* range of usize on the low side, and read records the fields in their order.
TypeOK ==
  /\ pc \in Pcs
  /\ body \in Nat /\ bucket \in Nat
  /\ blob \in [len : Nat, claim : Nat, padding : Nat, own : BOOLEAN]
  /\ field \in 1 .. Fields + 1
  /\ offset \in Nat
  /\ read \in Seq([at : Nat, len : Nat])

\* What is sealed has the smallest valid length that holds it, and every body
\* within the limit is sealed: padding neither fails nor hides a letter in a
\* larger bucket than it needs, at either side of every boundary
\* (protocol.rs:45-61; "smallest power of two", docs/PROTOCOL.md:128).
SmallestBucket ==
  /\ pc \in {"serialize", "sealed"} =>
       /\ ValidBlobLen(bucket)
       /\ Required <= bucket
       /\ \A n \in Powers : ValidBlobLen(n) /\ Required <= n => bucket <= n
  /\ pc = "refused" => body > MAX_BODY_LEN

\* A letter comes back as it went in: what `seal` made is never rejected, and
\* the body is found where it was written, the signature right behind it and
\* the padding to the last byte (message.rs:205-214 against 222-241).
SealedLetterOpens ==
  blob.own =>
    /\ pc # "rejected"
    /\ pc = "opened" =>
         /\ read[BodyField] = [at |-> 1 + 1 + 4 * 32 + 4, len |-> body]
         /\ read[Fields].len = blob.padding

\* Whatever a blob claims, the reader never passes the end of the plaintext,
\* and a letter that opens is accounted for to the last byte, with a whole
\* signature after the body (message.rs:236, format.rs:60-75).
ReaderContained ==
  /\ pc \in {"parse", "opened"} => offset <= Input
  /\ pc = "opened" =>
       /\ offset = Input
       /\ read[BodyField].len <= MAX_BODY_LEN
       /\ read[9] = [at |-> read[BodyField].at + read[BodyField].len, len |-> SIGNATURE_LEN]
       /\ read[Fields].at + read[Fields].len = Input

\* No claim makes a read fail: what cannot be right is refused by the check of
\* the claimed length, before any byte of the body is taken (docs/PROTOCOL.md:4).
ClaimIsCheckedFirst ==
  pc = "rejected" => field <= BodyField
=============================================================================
