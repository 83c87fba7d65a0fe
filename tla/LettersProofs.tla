---------------------------- MODULE LettersProofs ----------------------------
(***************************************************************************)
(* Proofs about Letters, for any number of homes, processes, contacts,     *)
(* letters and paths, and without the bound on foreign blobs.              *)
(***************************************************************************)
EXTENDS Letters, WellFoundedInduction, TLAPS

(***************************************************************************)
(* The inductive invariant.  Every signature anywhere, whoever copied the  *)
(* blob it is in, was made by seal on the statement it is on; and what an  *)
(* open has concluded follows from the contacts and the blob it has read.  *)
(*                                                                         *)
(* What holds of the local variables r of a process depends on the pins,   *)
(* on the statements sealed and on those shown; all three only ever grow.  *)
(***************************************************************************)

\* What a program counter says about the local variables.
LocalsOK(r) ==
  /\ r.pc # "idle" => r.home \in Homes
  /\ r.pc \in {"create", "write", "settle", "print"} =>
       r.blob \in Blobs /\ r.verdict = NoVerdict
  /\ r.pc \in {"create", "write", "list", "read", "show", "consume"} => r.place \in Places
  /\ r.pc \in {"list", "read"} => r.verdict = NoVerdict
  /\ r.pc \in {"show", "consume"} => r.verdict # NoVerdict
  /\ r.pc = "consume" => ~r.keep

\* What a command has listed is pinned, and holds what was pinned when it began.
ViewOK(r, pinned) ==
  /\ r.home \in Homes =>
       \A a \in Aliases : r.view[a] # NoPin => pinned[r.home][a] = r.view[a]
  /\ \A a \in Aliases : r.known[a] # NoPin => r.view[a] = r.known[a]

\* The signature of b was made by seal.
Genuine(b, signed) == b.sig.on \in signed /\ b.sig.by = b.sig.on.sender.identity

\* A verdict follows from what the command has read.
VerdictOK(r) ==
  r.verdict # NoVerdict =>
    /\ r.home \in Homes
    /\ r.blob \in Blobs
    /\ Opens(r.home, r.blob)
    /\ r.verdict = SenderTrust(r.view, r.blob.claim.sender)

RecordOK(r, pinned, signed, seen) ==
  /\ LocalsOK(r)
  /\ ViewOK(r, pinned)
  /\ r.blob \in Blobs => Genuine(r.blob, signed)
  /\ VerdictOK(r)
  /\ r.pc = "consume" => <<r.home, r.blob.claim>> \in seen

\* The blobs there are, with the transport and in files.
Around == wire \cup foreign \cup {file[x] : x \in Places}

IInv == /\ TypeOK
        /\ \A p \in Procs : RecordOK(proc[p], pins, sealed, shown)
        /\ \A b \in Around : b \in Blobs => Genuine(b, sealed)

-----------------------------------------------------------------------------
(***************************************************************************)
(* Trust in a sender.                                                      *)
(***************************************************************************)

\* The first of some aliases is one of them.
LEMMA FirstIn ==
  ASSUME NEW some, some \subseteq Aliases, some # {}
  PROVE  First(some) \in some
<1> DEFINE less == {ss \in Nat \X Nat : ss[1] < ss[2]}
<1>1. IsWellFoundedOn(less, Nat)
  BY NatLessThanWellFounded DEF OpToRel
<1>2. some \subseteq Nat
  BY NameAssumption
<1>3. \E a \in some : \A b \in some : <<b, a>> \notin less
  <2> HIDE DEF less
  <2> QED
    BY <1>1, <1>2, WFMin
<1>4. \E a \in some : \A b \in some : a <= b
  <2>1. PICK a \in some : \A b \in some : <<b, a>> \notin less
    BY <1>3
  <2>2. \A b \in some : ~ (b < a)
    BY <1>2, <2>1
  <2> QED
    BY <1>2, <2>2
<1> QED
  BY <1>4 DEF First

\* What each verdict says about the contacts in view.
LEMMA TrustMeans ==
  ASSUME NEW view \in Views, NEW s \in Profiles
  PROVE  /\ SenderTrust(view, s) \in Verdicts \ {NoVerdict}
         /\ SenderTrust(view, s).kind \in {"unknown", "mismatch", "pinned"}
         /\ SenderTrust(view, s).kind = "pinned" =>
              /\ SenderTrust(view, s).who \in Aliases
              /\ view[SenderTrust(view, s).who] = s
         /\ SenderTrust(view, s).kind = "pinned" <=> \E a \in Aliases : view[a] = s
         /\ SenderTrust(view, s).kind = "mismatch" =>
              /\ SenderTrust(view, s).who \in Aliases
              /\ view[SenderTrust(view, s).who] \notin {NoPin, s}
              /\ SharesKey(view[SenderTrust(view, s).who], s)
         /\ SenderTrust(view, s).kind = "unknown" <=>
              ~ \E a \in Aliases : view[a] # NoPin /\ SharesKey(view[a], s)
<1> DEFINE same  == {a \in Aliases : view[a] = s}
           close == {a \in Aliases : view[a] # NoPin /\ SharesKey(view[a], s)}
<1>1. SenderTrust(view, s) = IF same # {} THEN Verdict("pinned", First(same))
                             ELSE IF close # {} THEN Verdict("mismatch", First(close))
                             ELSE Verdict("unknown", NoPin)
  BY DEF SenderTrust
<1>2. same # {} => First(same) \in same
  BY FirstIn
<1>3. close # {} => First(close) \in close
  BY FirstIn
<1>4. same \subseteq close
  BY NameAssumption DEF SharesKey
<1> HIDE DEF same, close
<1>5. same \subseteq Aliases /\ close \subseteq Aliases
  BY DEF same, close
<1>6. SenderTrust(view, s) \in Verdicts \ {NoVerdict}
  BY <1>1, <1>2, <1>3, <1>5 DEF Verdict, Verdicts, NoVerdict, Kinds
<1>7. SenderTrust(view, s).kind \in {"unknown", "mismatch", "pinned"}
  BY <1>1 DEF Verdict
<1>8. SenderTrust(view, s).kind = "pinned" <=> same # {}
  BY <1>1 DEF Verdict
<1>9. SenderTrust(view, s).kind = "unknown" <=> close = {}
  BY <1>1, <1>4 DEF Verdict
<1>10. SenderTrust(view, s).kind = "pinned" => SenderTrust(view, s).who \in same
  BY <1>1, <1>2, <1>8 DEF Verdict
<1>11. SenderTrust(view, s).kind = "mismatch" =>
         same = {} /\ SenderTrust(view, s).who \in close
  BY <1>1, <1>3 DEF Verdict
<1> QED
  BY <1>6, <1>7, <1>8, <1>9, <1>10, <1>11 DEF same, close

-----------------------------------------------------------------------------
(***************************************************************************)
(* Steps of a process.                                                     *)
(***************************************************************************)

\* A process that has returned has nothing to be wrong about.
LEMMA IdleOK ==
  /\ Idle \in Commands
  /\ \A pinned, signed, seen : RecordOK(Idle, pinned, signed, seen)
<1> USE FileAssumption, NameAssumption
<1>1. NoContacts \in Views
  BY DEF NoContacts, Views
<1>2. NoVerdict \in Verdicts
  BY DEF NoVerdict, Verdict, Verdicts, Kinds
<1>3. Idle \in Commands
  BY <1>1, <1>2 DEF Idle, Commands, Pcs
<1>4. /\ Idle.pc = "idle" /\ Idle.blob = Absent /\ Idle.verdict = NoVerdict
      /\ Idle.view = NoContacts /\ Idle.known = NoContacts
  BY DEF Idle
<1>5. \A a \in Aliases : NoContacts[a] = NoPin
  BY DEF NoContacts
<1> QED
  BY <1>3, <1>4, <1>5 DEF RecordOK, LocalsOK, ViewOK, VerdictOK

\* What is known of a command stays true when pins, signed statements and shown
\* letters are added.
LEMMA RecordGrows ==
  ASSUME NEW r, NEW pinned, NEW signed, NEW seen, NEW pinned2, NEW signed2, NEW seen2,
         RecordOK(r, pinned, signed, seen),
         \A h \in Homes, a \in Aliases :
           pinned[h][a] # NoPin => pinned2[h][a] = pinned[h][a],
         signed \subseteq signed2, seen \subseteq seen2
  PROVE  RecordOK(r, pinned2, signed2, seen2)
<1>1. ViewOK(r, pinned2)
  BY DEF RecordOK, ViewOK
<1> QED
  BY <1>1 DEF RecordOK, Genuine

\* It is enough to look at the process that takes the step.
LEMMA OneStep ==
  ASSUME IInv, NEW p \in Procs, NEW r \in Commands,
         proc' = [proc EXCEPT ![p] = r],
         pins' = pins, sealed \subseteq sealed', shown \subseteq shown',
         RecordOK(r, pins, sealed', shown')
  PROVE  /\ proc' \in [Procs -> Commands]
         /\ \A q \in Procs : RecordOK(proc'[q], pins', sealed', shown')
<1>1. proc \in [Procs -> Commands]
  BY DEF IInv, TypeOK
<1>2. proc' \in [Procs -> Commands]
  BY <1>1
<1>3. ASSUME NEW q \in Procs PROVE RecordOK(proc'[q], pins', sealed', shown')
  <2>1. CASE q = p
    BY <2>1, <1>1
  <2>2. CASE q # p
    <3>1. proc'[q] = proc[q]
      BY <2>2, <1>1
    <3>2. RecordOK(proc[q], pins, sealed, shown)
      BY DEF IInv
    <3> QED
      BY <3>1, <3>2, RecordGrows
  <2> QED
    BY <2>1, <2>2
<1> QED
  BY <1>2, <1>3

\* Going on to another program counter changes nothing else of the record.
LEMMA GotoRecord ==
  ASSUME TypeOK, NEW p \in Procs, NEW pc \in Pcs, Goto(p, pc)
  PROVE  \E r \in Commands :
           /\ proc' = [proc EXCEPT ![p] = r]
           /\ r.pc = pc /\ r.home = proc[p].home /\ r.place = proc[p].place
           /\ r.blob = proc[p].blob /\ r.keep = proc[p].keep
           /\ r.known = proc[p].known /\ r.view = proc[p].view
           /\ r.verdict = proc[p].verdict
<1>1. proc[p] \in Commands /\ proc \in [Procs -> Commands]
  BY DEF TypeOK
<1> DEFINE r == [proc[p] EXCEPT !.pc = pc]
<1>2. proc' = [proc EXCEPT ![p] = r]
  BY <1>1 DEF Goto
<1>3. r \in Commands
  BY <1>1 DEF Commands
<1>4. /\ r.pc = pc /\ r.home = proc[p].home /\ r.place = proc[p].place
      /\ r.blob = proc[p].blob /\ r.keep = proc[p].keep
      /\ r.known = proc[p].known /\ r.view = proc[p].view
      /\ r.verdict = proc[p].verdict
  BY <1>1 DEF Commands
<1> HIDE DEF r
<1> QED
  BY <1>2, <1>3, <1>4

-----------------------------------------------------------------------------
\* Homes without pins and an empty transport satisfy the invariant.
LEMMA InitIInv == Init => IInv
<1> SUFFICES ASSUME Init PROVE IInv
  OBVIOUS
<1>1. TypeOK
  <2>1. NoContacts \in Views
    BY DEF NoContacts, Views
  <2> QED
    BY <2>1, IdleOK DEF Init, TypeOK
<1>2. \A p \in Procs : proc[p] = Idle
  BY DEF Init
<1>3. \A b \in Around : b = Absent
  BY DEF Init, Around
<1> QED
  BY <1>1, <1>2, <1>3, IdleOK, FileAssumption DEF IInv

-----------------------------------------------------------------------------
(***************************************************************************)
(* Every action keeps the invariant.                                       *)
(***************************************************************************)

\* What the invariant says of one process.
LEMMA Unpack ==
  ASSUME IInv, NEW p \in Procs
  PROVE  /\ proc[p] \in Commands
         /\ RecordOK(proc[p], pins, sealed, shown)
BY DEF IInv, TypeOK

\* `sealed trust` adds a pin and keeps the others.
LEMMA TrustKeeps ==
  ASSUME IInv, NEW h \in Homes, NEW a \in Aliases, NEW k \in Offered[h], Trust(h, a, k)
  PROVE  IInv'
<1>1. k \in Profiles
  BY KeyAssumption
<1>2. pins \in [Homes -> Views]
  BY DEF IInv, TypeOK
<1>3. pins' \in [Homes -> Views]
  <2>1. [pins[h] EXCEPT ![a] = k] \in Views
    BY <1>1, <1>2 DEF Views
  <2>2. pins' = [pins EXCEPT ![h] = [pins[h] EXCEPT ![a] = k]]
    BY <1>2 DEF Trust
  <2> QED
    BY <2>1, <2>2, <1>2
<1>4. ASSUME NEW g \in Homes, NEW c \in Aliases, pins[g][c] # NoPin
      PROVE  pins'[g][c] = pins[g][c]
  BY <1>2, <1>4 DEF Trust, Views
<1>5. TypeOK'
  BY <1>3 DEF IInv, TypeOK, Trust
<1>6. ASSUME NEW q \in Procs PROVE RecordOK(proc'[q], pins', sealed', shown')
  <2>1. proc' = proc /\ sealed' = sealed /\ shown' = shown
    BY DEF Trust
  <2>2. RecordOK(proc[q], pins, sealed, shown)
    BY Unpack
  <2>3. RecordOK(proc[q], pins', sealed, shown)
    BY <1>4, <2>2, RecordGrows
  <2> QED
    BY <2>1, <2>3
<1>7. \A b \in Around' : b \in Blobs => Genuine(b, sealed')
  BY DEF IInv, Around, Trust
<1> QED
  BY <1>5, <1>6, <1>7 DEF IInv

\* What seal returns carries a signature by its sender on its own statement.
LEMMA SealedBlobOK ==
  ASSUME NEW h \in Homes, NEW to \in Profiles, NEW l \in Letters
  PROVE  /\ SealedBlob(h, to, l) \in Blobs
         /\ SealedBlob(h, to, l).claim \in Statements
         /\ Genuine(SealedBlob(h, to, l), {SealedBlob(h, to, l).claim})
<1>1. Own[h] \in Profiles
  BY KeyAssumption
<1> DEFINE s == [sender |-> Own[h], bound |-> to, letter |-> l]
<1>2. s \in Statements
  BY <1>1 DEF Statements
<1>3. /\ Own[h].identity \in Keys /\ to.agreement \in Keys
  BY <1>1 DEF Profiles
<1>4. SealedBlob(h, to, l) =
        [for |-> to.agreement, claim |-> s, sig |-> [by |-> Own[h].identity, on |-> s]]
  BY DEF SealedBlob
<1>5. s.sender = Own[h]
  OBVIOUS
<1> HIDE DEF s
<1> QED
  BY <1>2, <1>3, <1>4, <1>5 DEF Blobs, Genuine

\* Sealing signs a statement and then holds a genuine blob.
LEMMA BeginSealKeeps ==
  ASSUME IInv, NEW p \in Procs, NEW h \in Homes, NEW a \in Aliases, NEW l \in Letters,
         NEW x \in Places \cup {Stdout}, BeginSeal(p, h, a, l, x)
  PROVE  IInv'
<1> DEFINE b == SealedBlob(h, pins[h][a], l)
           r == [Idle EXCEPT !.pc = IF x = Stdout THEN "print" ELSE "create",
                             !.home = h, !.place = x, !.blob = b]
<1>1. pins[h][a] \in Profiles
  BY DEF IInv, TypeOK, Views, BeginSeal
<1>2. b \in Blobs /\ b.claim \in Statements /\ Genuine(b, {b.claim})
  BY <1>1, SealedBlobOK
<1>3. sealed' = sealed \cup {b.claim} /\ proc' = [proc EXCEPT ![p] = r]
  BY DEF BeginSeal
<1> HIDE DEF b
<1>4. r \in Commands
  BY <1>2, IdleOK DEF Commands, Pcs
<1>5. /\ r.pc \in {"print", "create"} /\ r.home = h /\ r.place = x /\ r.blob = b
      /\ r.view = NoContacts /\ r.known = NoContacts /\ r.verdict = NoVerdict
      /\ r.pc = "create" => x \in Places
  BY DEF Idle
<1> HIDE DEF r
<1>6. RecordOK(r, pins, sealed', shown')
  <2>1. LocalsOK(r)
    BY <1>2, <1>5 DEF LocalsOK
  <2>2. ViewOK(r, pins)
    BY <1>5 DEF ViewOK, NoContacts
  <2>3. Genuine(b, sealed')
    BY <1>2, <1>3 DEF Genuine
  <2> QED
    BY <2>1, <2>2, <2>3, <1>5 DEF RecordOK, VerdictOK
<1>7. /\ proc' \in [Procs -> Commands]
      /\ \A q \in Procs : RecordOK(proc'[q], pins', sealed', shown')
  BY <1>3, <1>4, <1>6, OneStep DEF BeginSeal
<1>8. TypeOK'
  BY <1>2, <1>3, <1>7 DEF IInv, TypeOK, BeginSeal
<1>9. \A c \in Around' : c \in Blobs => Genuine(c, sealed')
  BY <1>3 DEF IInv, Around, BeginSeal, Genuine
<1> QED
  BY <1>7, <1>8, <1>9 DEF IInv

\* A process that only moves on keeps what is known of it, but where it is.
LEMMA MovedOK ==
  ASSUME NEW r, NEW r2, NEW pinned, NEW signed, NEW seen, NEW seen2,
         RecordOK(r, pinned, signed, seen), seen \subseteq seen2,
         /\ r2.home = r.home /\ r2.place = r.place /\ r2.blob = r.blob
         /\ r2.known = r.known /\ r2.view = r.view /\ r2.verdict = r.verdict,
         LocalsOK(r2),
         r2.pc = "consume" => <<r2.home, r2.blob.claim>> \in seen2
  PROVE  RecordOK(r2, pinned, signed, seen2)
BY DEF RecordOK, ViewOK, VerdictOK

\* A step to another place in the program that changes no shared state but files.
LEMMA MoveKeeps ==
  ASSUME IInv, NEW p \in Procs, NEW pc \in Pcs, Goto(p, pc),
         UNCHANGED <<pins, wire, foreign, sealed>>,
         shown \subseteq shown', shown' \subseteq Homes \X Statements,
         file' \in [Places -> Blobs \cup {Absent, Damaged}],
         \A x \in Places :
           file'[x] = file[x] \/ file'[x] \notin Blobs \/ file'[x] = proc[p].blob,
         \A r \in Commands :
           r.pc = pc /\ r.home = proc[p].home /\ r.place = proc[p].place
             /\ r.blob = proc[p].blob /\ r.keep = proc[p].keep
             /\ r.verdict = proc[p].verdict => LocalsOK(r),
         pc = "consume" => <<proc[p].home, proc[p].blob.claim>> \in shown'
  PROVE  IInv'
<1>1. PICK r \in Commands :
           /\ proc' = [proc EXCEPT ![p] = r]
           /\ r.pc = pc /\ r.home = proc[p].home /\ r.place = proc[p].place
           /\ r.blob = proc[p].blob /\ r.keep = proc[p].keep
           /\ r.known = proc[p].known /\ r.view = proc[p].view
           /\ r.verdict = proc[p].verdict
  BY GotoRecord DEF IInv
<1>2. RecordOK(r, pins, sealed', shown')
  BY <1>1, Unpack, MovedOK
<1>3. /\ proc' \in [Procs -> Commands]
      /\ \A q \in Procs : RecordOK(proc'[q], pins', sealed', shown')
  BY <1>1, <1>2, OneStep
<1>4. TypeOK'
  BY <1>3 DEF IInv, TypeOK
<1>5. ASSUME NEW c \in Around', c \in Blobs PROVE Genuine(c, sealed')
  <2>1. c \in Around \/ c = proc[p].blob
    BY <1>5 DEF Around
  <2>2. CASE c \in Around
    BY <1>5, <2>2 DEF IInv
  <2>3. CASE c = proc[p].blob
    BY <1>5, <2>3, Unpack DEF RecordOK
  <2> QED
    BY <2>1, <2>2, <2>3
<1> QED
  BY <1>3, <1>4, <1>5 DEF IInv

\* A command that ends.
LEMMA ReturnKeeps ==
  ASSUME IInv, NEW p \in Procs, Return(p),
         UNCHANGED <<pins, file, foreign, sealed, shown>>,
         wire' \subseteq wire \cup ({proc[p].blob} \cap Blobs)
  PROVE  IInv'
<1>1. /\ proc' \in [Procs -> Commands]
      /\ \A q \in Procs : RecordOK(proc'[q], pins', sealed', shown')
  BY IdleOK, OneStep DEF Return
<1>2. TypeOK'
  BY <1>1 DEF IInv, TypeOK
<1>3. ASSUME NEW c \in Around', c \in Blobs PROVE Genuine(c, sealed')
  <2>1. c \in Around \/ c = proc[p].blob
    BY <1>3 DEF Around
  <2>2. CASE c \in Around
    BY <1>3, <2>2 DEF IInv
  <2>3. CASE c = proc[p].blob
    BY <1>3, <2>3, Unpack DEF RecordOK
  <2> QED
    BY <2>1, <2>2, <2>3
<1> QED
  BY <1>1, <1>2, <1>3 DEF IInv

\* Creating a letter file puts a torn one there, which is no blob.
LEMMA CreateNewKeeps ==
  ASSUME IInv, NEW p \in Procs, CreateNew(p)
  PROVE  IInv'
<1>1. CASE file[proc[p].place] = Absent
  <2>1. LocalsOK(proc[p]) /\ proc[p].place \in Places
    BY Unpack DEF CreateNew, RecordOK, LocalsOK
  <2>2. \A r \in Commands :
          r.pc = "write" /\ r.home = proc[p].home /\ r.place = proc[p].place
            /\ r.blob = proc[p].blob /\ r.keep = proc[p].keep
             /\ r.verdict = proc[p].verdict => LocalsOK(r)
    BY <2>1 DEF CreateNew, LocalsOK
  <2>3. file' = [file EXCEPT ![proc[p].place] = Damaged] /\ Goto(p, "write")
    BY <1>1 DEF CreateNew
  <2>4. /\ file' \in [Places -> Blobs \cup {Absent, Damaged}]
        /\ \A x \in Places :
             file'[x] = file[x] \/ file'[x] \notin Blobs \/ file'[x] = proc[p].blob
    BY <2>3, FileAssumption DEF IInv, TypeOK
  <2>5. "write" \in Pcs /\ shown' \subseteq Homes \X Statements
    BY DEF Pcs, CreateNew, IInv, TypeOK
  <2>6. shown \subseteq shown' /\ UNCHANGED <<pins, wire, foreign, sealed>>
    BY DEF CreateNew
  <2> QED
    BY <2>2, <2>3, <2>4, <2>5, <2>6, MoveKeeps
<1>2. CASE file[proc[p].place] # Absent
  BY <1>2, ReturnKeeps DEF CreateNew
<1> QED
  BY <1>1, <1>2

\* Writing a letter file puts the genuine blob there.
LEMMA WriteAllKeeps ==
  ASSUME IInv, NEW p \in Procs, WriteAll(p)
  PROVE  IInv'
<1>1. LocalsOK(proc[p]) /\ proc[p].place \in Places /\ proc[p].blob \in Blobs
  BY Unpack DEF WriteAll, RecordOK, LocalsOK
<1>2. \A r \in Commands :
        r.pc = "settle" /\ r.home = proc[p].home /\ r.place = proc[p].place
          /\ r.blob = proc[p].blob /\ r.keep = proc[p].keep
             /\ r.verdict = proc[p].verdict => LocalsOK(r)
  BY <1>1 DEF WriteAll, LocalsOK
<1>3. /\ file' \in [Places -> Blobs \cup {Absent, Damaged}]
      /\ \A x \in Places :
           file'[x] = file[x] \/ file'[x] \notin Blobs \/ file'[x] = proc[p].blob
  BY <1>1 DEF WriteAll, IInv, TypeOK
<1>4. "settle" \in Pcs /\ Goto(p, "settle")
  BY DEF Pcs, WriteAll
<1>5. /\ shown \subseteq shown' /\ shown' \subseteq Homes \X Statements
      /\ UNCHANGED <<pins, wire, foreign, sealed>>
  BY DEF WriteAll, IInv, TypeOK
<1> QED
  BY <1>2, <1>3, <1>4, <1>5, MoveKeeps

\* Standard output gets the genuine blob.
LEMMA PrintBlobKeeps ==
  ASSUME IInv, NEW p \in Procs, PrintBlob(p)
  PROVE  IInv'
<1>1. proc[p].blob \in Blobs
  BY Unpack DEF PrintBlob, RecordOK, LocalsOK
<1> QED
  BY <1>1, ReturnKeeps DEF PrintBlob

\* An open begins with the contacts that are pinned now.
LEMMA BeginOpenKeeps ==
  ASSUME IInv, NEW p \in Procs, NEW h \in Homes, NEW x \in Places, NEW keep \in BOOLEAN,
         BeginOpen(p, h, x, keep)
  PROVE  IInv'
<1> DEFINE r == [Idle EXCEPT !.pc = "list", !.home = h, !.place = x, !.keep = keep,
                             !.known = pins[h], !.view = pins[h]]
<1>1. proc' = [proc EXCEPT ![p] = r]
  BY DEF BeginOpen
<1>2. pins[h] \in Views
  BY DEF IInv, TypeOK
<1>3. r \in Commands
  BY <1>2, IdleOK DEF Commands, Pcs
<1>4. /\ r.pc = "list" /\ r.home = h /\ r.place = x /\ r.blob = Absent
      /\ r.known = pins[h] /\ r.view = pins[h] /\ r.verdict = NoVerdict
  BY DEF Idle
<1> HIDE DEF r
<1>5. RecordOK(r, pins, sealed', shown')
  BY <1>4, FileAssumption DEF RecordOK, LocalsOK, ViewOK, VerdictOK
<1>6. /\ proc' \in [Procs -> Commands]
      /\ \A q \in Procs : RecordOK(proc'[q], pins', sealed', shown')
  BY <1>1, <1>3, <1>5, OneStep DEF BeginOpen
<1>7. TypeOK'
  BY <1>6 DEF IInv, TypeOK, BeginOpen
<1>8. \A c \in Around' : c \in Blobs => Genuine(c, sealed')
  BY DEF IInv, Around, BeginOpen
<1> QED
  BY <1>6, <1>7, <1>8 DEF IInv

\* The contacts listed are pinned ones, and those pinned at the start are in.
LEMMA ListContactsKeeps ==
  ASSUME IInv, NEW p \in Procs, ListContacts(p)
  PROVE  IInv'
<1>1. PICK some \in SUBSET Aliases :
        proc' = [proc EXCEPT
          ![p].view = [a \in Aliases |-> IF a \in some THEN pins[proc[p].home][a] ELSE @[a]],
          ![p].pc = "read"]
  BY DEF ListContacts
<1> DEFINE view == [a \in Aliases |-> IF a \in some THEN pins[proc[p].home][a]
                                                    ELSE proc[p].view[a]]
           r == [proc[p] EXCEPT !.view = view, !.pc = "read"]
<1>2. proc[p] \in Commands /\ RecordOK(proc[p], pins, sealed, shown) /\ proc \in [Procs -> Commands]
  BY Unpack DEF IInv, TypeOK
<1>3. proc' = [proc EXCEPT ![p] = r]
  BY <1>1, <1>2
<1>4. proc[p].home \in Homes /\ proc[p].place \in Places /\ proc[p].verdict = NoVerdict
  BY <1>2 DEF ListContacts, RecordOK, LocalsOK
<1>5. view \in Views
  BY <1>2, <1>4 DEF IInv, TypeOK, Views, Commands
<1>6. /\ \A a \in Aliases : view[a] # NoPin => pins[proc[p].home][a] = view[a]
      /\ \A a \in Aliases : proc[p].known[a] # NoPin => view[a] = proc[p].known[a]
  BY <1>2, <1>4 DEF RecordOK, ViewOK
<1> HIDE DEF view
<1>7. r \in Commands
  BY <1>2, <1>5 DEF Commands, Pcs
<1>8. /\ r.pc = "read" /\ r.home = proc[p].home /\ r.place = proc[p].place
      /\ r.blob = proc[p].blob /\ r.known = proc[p].known /\ r.view = view
      /\ r.verdict = NoVerdict
  BY <1>2, <1>4 DEF Commands
<1> HIDE DEF r
<1>9. RecordOK(r, pins, sealed', shown')
  BY <1>2, <1>4, <1>6, <1>8 DEF RecordOK, LocalsOK, ViewOK, VerdictOK, ListContacts
<1>10. /\ proc' \in [Procs -> Commands]
       /\ \A q \in Procs : RecordOK(proc'[q], pins', sealed', shown')
  BY <1>3, <1>7, <1>9, OneStep DEF ListContacts
<1>11. TypeOK'
  BY <1>10 DEF IInv, TypeOK, ListContacts
<1>12. \A c \in Around' : c \in Blobs => Genuine(c, sealed')
  BY DEF IInv, Around, ListContacts
<1> QED
  BY <1>10, <1>11, <1>12 DEF IInv

\* A blob that opens is genuine, and the verdict is formed on the contacts listed.
LEMMA ReadBlobKeeps ==
  ASSUME IInv, NEW p \in Procs, ReadBlob(p)
  PROVE  IInv'
<1> DEFINE content == file[proc[p].place]
<1>1. CASE ~Opens(proc[p].home, content)
  BY <1>1, ReturnKeeps DEF ReadBlob
<1>2. CASE Opens(proc[p].home, content)
  <2> DEFINE trust == SenderTrust(proc[p].view, content.claim.sender)
             r == [proc[p] EXCEPT !.pc = "show", !.blob = content, !.verdict = trust]
  <2>1. /\ proc[p] \in Commands /\ RecordOK(proc[p], pins, sealed, shown)
        /\ proc \in [Procs -> Commands]
    BY Unpack DEF IInv, TypeOK
  <2>2. proc' = [proc EXCEPT ![p] = r]
    BY <1>2, <2>1 DEF ReadBlob
  <2>3. proc[p].home \in Homes /\ proc[p].place \in Places
    BY <2>1 DEF ReadBlob, RecordOK, LocalsOK
  <2>4. content \in Blobs
    BY <1>2 DEF Opens
  <2>5. content.claim.sender \in Profiles
    BY <2>4 DEF Blobs, Statements
  <2>6. trust \in Verdicts \ {NoVerdict}
    BY <2>1, <2>5, TrustMeans DEF Commands
  <2>7. Genuine(content, sealed)
    BY <2>3, <2>4 DEF IInv, Around
  <2> HIDE DEF content, trust
  <2>8. r \in Commands
    BY <2>1, <2>4, <2>6 DEF Commands, Pcs
  <2>9. /\ r.pc = "show" /\ r.home = proc[p].home /\ r.place = proc[p].place
        /\ r.blob = content /\ r.known = proc[p].known /\ r.view = proc[p].view
        /\ r.verdict = trust
    BY <2>1 DEF Commands
  <2> HIDE DEF r
  <2>10. VerdictOK(r)
    BY <1>2, <2>3, <2>4, <2>9 DEF VerdictOK, trust
  <2>11. RecordOK(r, pins, sealed, shown)
    BY <2>1, <2>3, <2>4, <2>6, <2>7, <2>9, <2>10 DEF RecordOK, LocalsOK, ViewOK
  <2>12. /\ pins' = pins /\ file' = file /\ wire' = wire /\ foreign' = foreign
         /\ sealed' = sealed /\ shown' = shown
    BY DEF ReadBlob
  <2>13. /\ proc' \in [Procs -> Commands]
         /\ \A q \in Procs : RecordOK(proc'[q], pins', sealed', shown')
    BY <2>2, <2>8, <2>11, <2>12, OneStep
  <2>14. TypeOK'
    BY <2>12, <2>13 DEF IInv, TypeOK
  <2>15. \A c \in Around' : c \in Blobs => Genuine(c, sealed')
    BY <2>12 DEF IInv, Around
  <2> QED
    BY <2>13, <2>14, <2>15 DEF IInv
<1> QED
  BY <1>1, <1>2

\* A letter is put out before its file may be deleted.
LEMMA ShowKeeps ==
  ASSUME IInv, NEW p \in Procs, Show(p)
  PROVE  IInv'
<1>1. /\ LocalsOK(proc[p]) /\ proc[p].pc = "show" /\ proc[p].verdict # NoVerdict
      /\ proc[p].home \in Homes /\ proc[p].blob \in Blobs
  BY Unpack DEF Show, RecordOK, LocalsOK, VerdictOK
<1>2. PICK pc \in {"idle", "consume"} : Goto(p, pc) /\ (pc = "consume" => ~proc[p].keep)
  BY DEF Show
<1>3. pc \in Pcs
  BY DEF Pcs
<1>4. \A r \in Commands :
        r.pc = pc /\ r.home = proc[p].home /\ r.place = proc[p].place
          /\ r.blob = proc[p].blob /\ r.keep = proc[p].keep
             /\ r.verdict = proc[p].verdict => LocalsOK(r)
  BY <1>1, <1>2 DEF LocalsOK
<1>5. /\ shown' = shown \cup {<<proc[p].home, proc[p].blob.claim>>}
      /\ UNCHANGED <<pins, file, wire, foreign, sealed>>
  BY DEF Show
<1>6. shown \subseteq shown' /\ shown' \subseteq Homes \X Statements
  BY <1>1, <1>5 DEF IInv, TypeOK, Blobs
<1>7. file' \in [Places -> Blobs \cup {Absent, Damaged}]
  BY <1>5 DEF IInv, TypeOK
<1> QED
  BY <1>2, <1>3, <1>4, <1>5, <1>6, <1>7, MoveKeeps

\* Deleting a letter file adds no blob.
LEMMA ConsumeKeeps ==
  ASSUME IInv, NEW p \in Procs, Consume(p)
  PROVE  IInv'
<1>1. LocalsOK(proc[p]) /\ proc[p].pc = "consume"
  BY Unpack DEF Consume, RecordOK
<1>2. "idle" \in Pcs /\ Goto(p, "idle")
  BY DEF Pcs, Consume
<1>3. \A r \in Commands :
        r.pc = "idle" /\ r.home = proc[p].home /\ r.place = proc[p].place
          /\ r.blob = proc[p].blob /\ r.keep = proc[p].keep
             /\ r.verdict = proc[p].verdict => LocalsOK(r)
  BY <1>1 DEF LocalsOK
<1>4. /\ file' = [file EXCEPT ![proc[p].place] = Absent]
      /\ UNCHANGED <<pins, wire, foreign, sealed, shown>>
  BY DEF Consume
<1>5. /\ file' \in [Places -> Blobs \cup {Absent, Damaged}]
      /\ \A x \in Places :
           file'[x] = file[x] \/ file'[x] \notin Blobs \/ file'[x] = proc[p].blob
  BY <1>4, FileAssumption DEF IInv, TypeOK
<1>6. shown \subseteq shown' /\ shown' \subseteq Homes \X Statements
  BY <1>4 DEF IInv, TypeOK
<1> QED
  BY <1>2, <1>3, <1>4, <1>5, <1>6, MoveKeeps

\* The transport and other programs only ever copy signatures.
LEMMA TransportKeeps ==
  ASSUME IInv, Transport
  PROVE  IInv'
<1>1. pins' = pins /\ proc' = proc /\ sealed' = sealed /\ shown' = shown
  BY DEF Transport, Take, Deliver, Reencrypt
<1> DEFINE Kept == /\ file' \in [Places -> Blobs \cup {Absent, Damaged}]
                   /\ wire' \subseteq Blobs /\ foreign' \subseteq Blobs
                   /\ \A c \in Around' : c \in Blobs => Genuine(c, sealed)
<1>2. Kept
  <2>1. ASSUME NEW x \in Places, Take(x) PROVE Kept
    BY <2>1 DEF IInv, TypeOK, Take, Around
  <2>2. ASSUME NEW x \in Places, Deliver(x) PROVE Kept
    BY <2>2, FileAssumption DEF IInv, TypeOK, Deliver, Around
  <2>3. ASSUME NEW b \in wire \cup foreign, NEW h \in Homes, NEW s \in Claims, Reencrypt(b, h, s)
        PROVE Kept
    <3> DEFINE c == [b EXCEPT !.for = Own[h].agreement, !.claim = s]
    <3>1. b \in Blobs /\ Genuine(b, sealed)
      BY DEF IInv, TypeOK, Around
    <3>2. Own[h].agreement \in Keys /\ s \in Statements
      BY KeyAssumption DEF Profiles
    <3>3. c \in Blobs /\ c.sig = b.sig
      BY <3>1, <3>2 DEF Blobs
    <3>4. foreign' = foreign \cup {c} /\ file' = file /\ wire' = wire
      BY <2>3 DEF Reencrypt
    <3> HIDE DEF c
    <3>5. Genuine(c, sealed)
      BY <3>1, <3>3 DEF Genuine
    <3> QED
      BY <3>3, <3>4, <3>5 DEF IInv, TypeOK, Around
  <2> QED
    BY <2>1, <2>2, <2>3 DEF Transport
<1> QED
  BY <1>1, <1>2 DEF IInv, TypeOK

\* No step of a command, of the user or of the transport breaks the invariant.
LEMMA NextKeepsIInv == IInv /\ [Next]_vars => IInv'
<1> SUFFICES ASSUME IInv, [Next]_vars PROVE IInv'
  OBVIOUS
<1>1. ASSUME NEW h \in Homes, NEW a \in Aliases, NEW k \in Offered[h], Trust(h, a, k)
      PROVE  IInv'
  BY <1>1, TrustKeeps
<1>2. ASSUME NEW p \in Procs, Seal(p) PROVE IInv'
  <2>1. ASSUME NEW h \in Homes, NEW a \in Aliases, NEW l \in Letters,
               NEW x \in Places \cup {Stdout}, BeginSeal(p, h, a, l, x)
        PROVE  IInv'
    BY <2>1, BeginSealKeeps
  <2>2. CASE CreateNew(p)
    BY <2>2, CreateNewKeeps
  <2>3. CASE WriteAll(p)
    BY <2>3, WriteAllKeeps
  <2>4. CASE Settle(p)
    BY <2>4, ReturnKeeps DEF Settle
  <2>5. CASE PrintBlob(p)
    BY <2>5, PrintBlobKeeps
  <2> QED
    BY <1>2, <2>1, <2>2, <2>3, <2>4, <2>5 DEF Seal
<1>3. ASSUME NEW p \in Procs, Open(p) PROVE IInv'
  <2>1. ASSUME NEW h \in Homes, NEW x \in Places, NEW keep \in BOOLEAN, BeginOpen(p, h, x, keep)
        PROVE  IInv'
    BY <2>1, BeginOpenKeeps
  <2>2. CASE ListContacts(p)
    BY <2>2, ListContactsKeeps
  <2>3. CASE ReadBlob(p)
    BY <2>3, ReadBlobKeeps
  <2>4. CASE Show(p)
    BY <2>4, ShowKeeps
  <2>5. CASE Consume(p)
    BY <2>5, ConsumeKeeps
  <2> QED
    BY <1>3, <2>1, <2>2, <2>3, <2>4, <2>5 DEF Open
<1>4. ASSUME NEW p \in Procs, Fault(p) PROVE IInv'
  BY <1>4, ReturnKeeps DEF Fault
<1>5. CASE Transport
  BY <1>5, TransportKeeps
<1>6. CASE UNCHANGED vars
  <2>1. /\ pins' = pins /\ file' = file /\ wire' = wire /\ foreign' = foreign
        /\ proc' = proc /\ sealed' = sealed /\ shown' = shown
    BY <1>6 DEF vars
  <2> QED
    BY <2>1 DEF IInv, TypeOK, Around
<1> QED
  BY <1>1, <1>2, <1>3, <1>4, <1>5, <1>6 DEF Next

(***************************************************************************)
(* The theorems.                                                           *)
(***************************************************************************)

\* Signatures are made by seal alone, wherever blobs and what is made of them
\* travel; what an open concludes follows from what it has read.
THEOREM Invariant == Spec => []IInv
BY InitIInv, NextKeepsIInv, PTL DEF Spec

\* Every variable keeps its type.
THEOREM TypeCorrect == Spec => []TypeOK
<1>1. IInv => TypeOK
  BY DEF IInv
<1> QED
  BY Invariant, <1>1, PTL

\* What an open of p reports.
LEMMA ReportMeans ==
  ASSUME IInv, NEW p \in Procs, Reporting(p)
  PROVE  /\ proc[p].home \in Homes
         /\ proc[p].view \in Views
         /\ proc[p].blob.claim.sender \in Profiles
         /\ proc[p].blob.claim.bound = Own[proc[p].home]
         /\ proc[p].blob.claim \in sealed
         /\ proc[p].verdict = SenderTrust(proc[p].view, proc[p].blob.claim.sender)
         /\ \A a \in Aliases :
              proc[p].view[a] # NoPin => pins[proc[p].home][a] = proc[p].view[a]
         /\ proc[p].known \in Views
         /\ \A a \in Aliases :
              proc[p].known[a] # NoPin => proc[p].view[a] = proc[p].known[a]
<1>1. RecordOK(proc[p], pins, sealed, shown) /\ proc[p] \in Commands
  BY Unpack
<1>2. /\ proc[p].home \in Homes /\ proc[p].blob \in Blobs
      /\ Opens(proc[p].home, proc[p].blob)
      /\ Genuine(proc[p].blob, sealed)
      /\ proc[p].verdict = SenderTrust(proc[p].view, proc[p].blob.claim.sender)
  BY <1>1 DEF RecordOK, VerdictOK, Reporting
<1>3. proc[p].blob.sig.on = proc[p].blob.claim
  BY <1>2 DEF Opens, Verifies
<1>4. proc[p].blob.claim \in sealed
  BY <1>2, <1>3 DEF Genuine
<1>5. /\ proc[p].view \in Views /\ proc[p].known \in Views
      /\ proc[p].blob.claim.sender \in Profiles
  BY <1>1, <1>2 DEF Commands, Blobs, Statements
<1>6. proc[p].blob.claim.bound = Own[proc[p].home]
  BY <1>2 DEF Opens
<1> QED
  BY <1>1, <1>2, <1>4, <1>5, <1>6 DEF RecordOK, ViewOK

\* A letter reported as from a pinned contact was sealed for this home by the
\* holder of the pinned profile.
THEOREM PinnedGenuine == Spec => []PinnedIsGenuine
<1>1. IInv => PinnedIsGenuine
  <2> SUFFICES ASSUME IInv, NEW p \in Procs, Reporting(p), proc[p].verdict.kind = "pinned"
               PROVE  \E s \in sealed :
                        /\ s = proc[p].blob.claim
                        /\ s.bound = Own[proc[p].home]
                        /\ s.sender = pins[proc[p].home][proc[p].verdict.who]
    BY DEF PinnedIsGenuine
  <2> DEFINE s == proc[p].blob.claim
             a == proc[p].verdict.who
  <2>1. s \in sealed /\ s.bound = Own[proc[p].home]
    BY ReportMeans
  <2>2. a \in Aliases /\ proc[p].view[a] = s.sender
    BY ReportMeans, TrustMeans
  <2>3. s.sender # NoPin
    BY ReportMeans, NameAssumption
  <2>4. pins[proc[p].home][a] = s.sender
    BY <2>2, <2>3, ReportMeans
  <2> QED
    BY <2>1, <2>4
<1> QED
  BY Invariant, <1>1, PTL

\* Whatever is imported during an open, a sender pinned before is shown as
\* pinned, the alarm is about a contact that shares a key with the sender, and a
\* sender that shares a key with a contact pinned before is never just unknown.
THEOREM VerdictsAreWarranted == Spec => []VerdictIsWarranted
<1>1. IInv => VerdictIsWarranted
  <2> SUFFICES ASSUME IInv, NEW p \in Procs, Reporting(p),
                      NEW sender, sender = proc[p].blob.claim.sender,
                      NEW known, known = proc[p].known,
                      NEW verdict, verdict = proc[p].verdict,
                      NEW now, now = pins[proc[p].home]
               PROVE  /\ (\E a \in Aliases : known[a] = sender) => verdict.kind = "pinned"
                      /\ verdict.kind = "mismatch" =>
                           /\ now[verdict.who] \notin {NoPin, sender}
                           /\ SharesKey(now[verdict.who], sender)
                      /\ verdict.kind = "unknown" =>
                           \A a \in Aliases \ {b \in Aliases : known[b] = NoPin} :
                             /\ known[a].identity # sender.identity
                             /\ known[a].agreement # sender.agreement
    BY DEF VerdictIsWarranted
  <2> DEFINE view == proc[p].view
  <2>1. /\ sender \in Profiles /\ sender # NoPin /\ view \in Views
        /\ verdict = SenderTrust(view, sender)
        /\ \A a \in Aliases : view[a] # NoPin => now[a] = view[a]
        /\ \A a \in Aliases : known[a] # NoPin => view[a] = known[a]
    BY ReportMeans, NameAssumption
  <2> HIDE DEF view
  <2>2. (\E a \in Aliases : known[a] = sender) => verdict.kind = "pinned"
    BY <2>1, TrustMeans
  <2>3. ASSUME verdict.kind = "mismatch"
        PROVE  now[verdict.who] \notin {NoPin, sender} /\ SharesKey(now[verdict.who], sender)
    BY <2>1, <2>3, TrustMeans
  <2>4. ASSUME verdict.kind = "unknown", NEW a \in Aliases, known[a] # NoPin
        PROVE  known[a].identity # sender.identity /\ known[a].agreement # sender.agreement
    <3>1. ~SharesKey(view[a], sender)
      BY <2>1, <2>4, TrustMeans
    <3> QED
      BY <2>1, <2>4, <3>1 DEF SharesKey
  <2> QED
    BY <2>2, <2>3, <2>4
<1> QED
  BY Invariant, <1>1, PTL

\* A step of a process changes no other process.
LEMMA Changed ==
  ASSUME TypeOK, NEW q \in Procs, Seal(q) \/ Open(q) \/ Fault(q)
  PROVE  \E r : proc' = [proc EXCEPT ![q] = r]
<1>1. proc \in [Procs -> Commands] /\ proc[q] \in Commands
  BY DEF TypeOK
<1>2. ASSUME NEW pc, Goto(q, pc) PROVE proc' = [proc EXCEPT ![q] = [proc[q] EXCEPT !.pc = pc]]
  BY <1>1, <1>2 DEF Goto
<1>3. ASSUME Seal(q) PROVE \E r : proc' = [proc EXCEPT ![q] = r]
  BY <1>2, <1>3 DEF Seal, BeginSeal, CreateNew, WriteAll, Settle, PrintBlob, Return
<1>4. ASSUME ListContacts(q) PROVE \E r : proc' = [proc EXCEPT ![q] = r]
  BY <1>1, <1>4 DEF ListContacts
<1>5. ASSUME ReadBlob(q) PROVE \E r : proc' = [proc EXCEPT ![q] = r]
  BY <1>1, <1>5 DEF ReadBlob, Return
<1> QED
  BY <1>2, <1>3, <1>4, <1>5 DEF Open, BeginOpen, Show, Consume, Fault, Return

\* Letter files are deleted only at the end of an open that has put its letter
\* out and was not told to keep it, and a file that is there is not written to.
THEOREM FilesAreRespected == Spec => FilesRespected
<1> DEFINE Respect ==
      /\ \A x \in Places :
           file[x] \in Blobs /\ file'[x] # file[x] /\ proc' # proc =>
             \E p \in Procs :
               /\ proc[p].pc = "consume" /\ proc[p].place = x /\ ~proc[p].keep
               /\ <<proc[p].home, proc[p].blob.claim>> \in shown
      /\ \A p \in Procs :
           proc[p].pc = "create" /\ proc'[p].pc = "write" => file[proc[p].place] = Absent
<1>1. IInv /\ [Next]_vars => [Respect]_vars
  <2> SUFFICES ASSUME IInv, Next PROVE Respect
    OBVIOUS
  <2>1. ASSUME NEW x \in Places, file[x] \in Blobs, file'[x] # file[x], proc' # proc
        PROVE  \E p \in Procs : /\ proc[p].pc = "consume" /\ proc[p].place = x /\ ~proc[p].keep
                                /\ <<proc[p].home, proc[p].blob.claim>> \in shown
    <3>1. PICK p \in Procs : CreateNew(p) \/ WriteAll(p) \/ Consume(p)
      BY <2>1 DEF Next, Trust, Seal, BeginSeal, Settle, PrintBlob, Open, BeginOpen,
             ListContacts, ReadBlob, Show, Fault, Transport, Take, Deliver, Reencrypt
    <3>2. file \in [Places -> Blobs \cup {Absent, Damaged}]
      BY DEF IInv, TypeOK
    <3>3. ~CreateNew(p) /\ ~WriteAll(p)
      BY <2>1, <3>2, FileAssumption DEF CreateNew, WriteAll
    <3>4. proc[p].pc = "consume" /\ proc[p].place = x
      BY <2>1, <3>1, <3>2, <3>3 DEF Consume
    <3> QED
      BY <3>4, Unpack DEF RecordOK, LocalsOK
  <2>2. ASSUME NEW p \in Procs, proc[p].pc = "create", proc'[p].pc = "write"
        PROVE  file[proc[p].place] = Absent
    <3>1. proc \in [Procs -> Commands] /\ Idle.pc = "idle"
      BY DEF IInv, TypeOK, Idle
    <3>2. PICK q \in Procs : Seal(q) \/ Open(q) \/ Fault(q)
      BY <2>2 DEF Next, Trust, Transport, Take, Deliver, Reencrypt
    <3>3. q = p
      <4>1. \E r : proc' = [proc EXCEPT ![q] = r]
        BY <3>2, Changed DEF IInv
      <4> QED
        BY <2>2, <3>1, <4>1
    <3>4. CreateNew(p) \/ Fault(p)
      BY <2>2, <3>2, <3>3 DEF Seal, BeginSeal, WriteAll, Settle, PrintBlob, Open, BeginOpen,
             ListContacts, ReadBlob, Show, Consume
    <3> QED
      BY <2>2, <3>1, <3>4 DEF CreateNew, Fault, Return
  <2> QED
    BY <2>1, <2>2
<1>2. Spec => [][Respect]_vars
  BY Invariant, <1>1, PTL DEF Spec
<1> QED
  BY <1>2 DEF FilesRespected

\* Sealing and opening, over any transport, implement the abstract post.
THEOREM PostImplemented == Spec => ImplementsPost
<1>1. Init => Mail!Init
  BY DEF Init, Mail!Init
<1>2. IInv /\ [Next]_vars => [Mail!Next]_(Mail!vars)
  <2> SUFFICES ASSUME IInv, [Next]_vars PROVE Mail!Next \/ UNCHANGED Mail!vars
    OBVIOUS
  <2>1. ASSUME NEW p \in Procs, NEW h \in Homes, NEW a \in Aliases, NEW l \in Letters,
               NEW x \in Places \cup {Stdout}, BeginSeal(p, h, a, l, x)
        PROVE  Mail!Next
    <3> DEFINE s == SealedBlob(h, pins[h][a], l).claim
    <3>1. pins[h][a] \in Profiles
      BY <2>1 DEF IInv, TypeOK, Views, BeginSeal
    <3>2. s \in Statements
      BY <3>1, SealedBlobOK
    <3>3. sealed' = sealed \cup {s} /\ shown' = shown
      BY <2>1 DEF BeginSeal
    <3> HIDE DEF s
    <3> QED
      BY <3>2, <3>3 DEF Mail!Next, Mail!Seal
  <2>2. ASSUME NEW p \in Procs, Show(p) PROVE Mail!Next
    <3> DEFINE h == proc[p].home
               s == proc[p].blob.claim
    <3>1. Reporting(p)
      BY <2>2, Unpack DEF Show, RecordOK, LocalsOK, Reporting
    <3>2. h \in Homes /\ s \in sealed /\ s.bound = Own[h] /\ s \in Statements
      BY <3>1, ReportMeans DEF IInv, TypeOK
    <3>3. shown' = shown \cup {<<h, s>>} /\ sealed' = sealed
      BY <2>2 DEF Show
    <3> HIDE DEF h, s
    <3> QED
      BY <3>2, <3>3 DEF Mail!Next, Mail!Show
  <2>3. (\E p \in Procs, h \in Homes, a \in Aliases, l \in Letters, x \in Places \cup {Stdout} :
           BeginSeal(p, h, a, l, x))
          \/ (\E p \in Procs : Show(p)) \/ (sealed' = sealed /\ shown' = shown)
    BY DEF Next, vars, Trust, Seal, CreateNew, WriteAll, Settle, PrintBlob, Open, BeginOpen,
           ListContacts, ReadBlob, Consume, Fault, Transport, Take, Deliver, Reencrypt
  <2> QED
    BY <2>1, <2>2, <2>3 DEF Mail!vars
<1> QED
  BY Invariant, <1>1, <1>2, PTL DEF Spec, ImplementsPost, Mail!Spec
=============================================================================
