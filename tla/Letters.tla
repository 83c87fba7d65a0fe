------------------------------- MODULE Letters -------------------------------
(***************************************************************************)
(* Letters between Sealed homes: `sealed seal` and `sealed open` with      *)
(* everything they call (src/src/cli.rs, message.rs, crypto.rs and the     *)
(* letter files of storage.rs), any number of copies of both running at    *)
(* once, over a transport that keeps, repeats, delays, reorders, damages   *)
(* and replaces blobs (docs/THREAT_MODEL.md).                              *)
(*                                                                         *)
(* The menu's wizards call the same functions in the same order, and are   *)
(* the same steps here; the wizard's answer not to delete is --keep.       *)
(*                                                                         *)
(* A home is a state directory with its identity and its pinned contacts.  *)
(* What those two stores guarantee is taken from IdentityStore and         *)
(* ContactStore: a home has one identity, a pin never changes, a listing   *)
(* holds what was pinned when it began.                                    *)
(*                                                                         *)
(* Cryptography is symbolic.  A signature names its key and what it is on; *)
(* a blob is opened with the agreement key it was made for.  What does not *)
(* come out of seal, or differs from it in a byte, fails authentication.   *)
(***************************************************************************)
EXTENDS Naturals, FiniteSets

CONSTANTS
  Procs,      \* running copies of the program
  Homes,      \* state directories
  Keys,       \* public keys, of either kind
  Own,        \* Own[h]: the public profile of home h
  Offered,    \* Offered[h]: the profiles that people import at home h
  Claims,     \* the statements that other programs put into a blob
  Aliases,    \* contact names, numbered in the order all_contacts sorts them
  Letters,    \* texts with the random message id each gets when it is sealed
  Places,     \* paths of letter files
  Stdout,     \* `seal` without --output
  NoPin,      \* the alias is not pinned
  Absent,     \* no such file
  Damaged,    \* not a blob: cut short, or a byte differs
  MaxForeign  \* bound on the blobs that other programs make

Profiles   == [identity : Keys, agreement : Keys]
Statements == [sender : Profiles, bound : Profiles, letter : Letters]
Blobs      == [for : Keys, claim : Statements, sig : [by : Keys, on : Statements]]

ASSUME KeyAssumption == /\ Own \in [Homes -> Profiles]
                        /\ Offered \in [Homes -> SUBSET Profiles]
                        /\ Claims \subseteq Statements

ASSUME NameAssumption == Aliases \subseteq Nat /\ NoPin \notin Profiles

ASSUME FileAssumption == /\ Absent # Damaged
                         /\ Absent \notin Blobs
                         /\ Damaged \notin Blobs
                         /\ Stdout \notin Places

VARIABLES
  pins,     \* pins[h][a]: the profile home h has pinned as a, or NoPin
  file,     \* file[x]: what the letter file x holds
  wire,     \* blobs the transport has seen, which it may deliver at any time
  foreign,  \* blobs that programs other than this one have made of those
  proc,     \* proc[p]: the command p is running, or has run last
  sealed,   \* history: the statements signed by seal
  shown     \* history: which home was shown which statement

vars == <<pins, file, wire, foreign, proc, sealed, shown>>

-----------------------------------------------------------------------------
(***************************************************************************)
(* Cryptography and trust.                                                 *)
(***************************************************************************)

\* message::seal by home h.
SealedBlob(h, to, l) ==
  LET s == [sender |-> Own[h], bound |-> to, letter |-> l]
  IN  [for |-> to.agreement, claim |-> s, sig |-> [by |-> Own[h].identity, on |-> s]]

\* A slip of Verifies: the signature is checked without the statement it is on.
VerifiesKey(b) == b.sig.by = b.claim.sender.identity

\* verify_message_signature.
Verifies(b) == b.sig = [by |-> b.claim.sender.identity, on |-> b.claim]

\* A slip of Opens: the recipient binding is not compared.
OpensUnbound(h, content) ==
  /\ content \in Blobs
  /\ content.for = Own[h].agreement
  /\ Verifies(content)

\* message::open, up to the sender's trust: decryption with the agreement
\* key of home h, the recipient it is bound to, the signature.
Opens(h, content) ==
  /\ content \in Blobs
  /\ content.for = Own[h].agreement
  /\ content.claim.bound = Own[h]
  /\ Verifies(content)

\* The alias that all_contacts sorts before the others.
First(some) == CHOOSE a \in some : \A b \in some : a <= b

SharesKey(k, s) == k.identity = s.identity \/ k.agreement = s.agreement

Verdict(kind, who) == [kind |-> kind, who |-> who]

Kinds == {"none", "unknown", "mismatch", "pinned"}
Verdicts == [kind : Kinds, who : Aliases \cup {NoPin}]
NoVerdict == Verdict("none", NoPin)

\* A slip of SenderTrust: the two searches are swapped.
TrustMismatchFirst(view, s) ==
  LET same  == {a \in Aliases : view[a] = s}
      close == {a \in Aliases : view[a] \notin {NoPin, s} /\ SharesKey(view[a], s)}
  IN  IF close # {} THEN Verdict("mismatch", First(close))
      ELSE IF same # {} THEN Verdict("pinned", First(same))
      ELSE Verdict("unknown", NoPin)

\* The SenderTrust of sender s among the contacts in view.
SenderTrust(view, s) ==
  LET same  == {a \in Aliases : view[a] = s}
      close == {a \in Aliases : view[a] # NoPin /\ SharesKey(view[a], s)}
  IN  IF same # {} THEN Verdict("pinned", First(same))
      ELSE IF close # {} THEN Verdict("mismatch", First(close))
      ELSE Verdict("unknown", NoPin)

-----------------------------------------------------------------------------
(***************************************************************************)
(* A process remembers its last command until it starts the next one:      *)
(*   pc       what it is about to do                                       *)
(*   home     the state directory it works on                              *)
(*   place    the letter file                                              *)
(*   blob     the blob it writes or has read                               *)
(*   keep     open: --keep was given                                       *)
(*   known    history, open: the contacts pinned when the listing began    *)
(*   view     open: the contacts listed                                    *)
(*   verdict  open: the trust in the sender that was printed               *)
(***************************************************************************)
Pcs == {"idle", "create", "write", "settle", "print",
        "list", "read", "show", "consume"}

NoContacts == [a \in Aliases |-> NoPin]
Views      == [Aliases -> Profiles \cup {NoPin}]

Commands == [pc      : Pcs,
             home    : Homes \cup {NoPin},
             place   : Places \cup {Stdout},
             blob    : Blobs \cup {Absent},
             keep    : BOOLEAN,
             known   : Views,
             view    : Views,
             verdict : Verdicts]

Idle == [pc |-> "idle", home |-> NoPin, place |-> Stdout, blob |-> Absent,
         keep |-> FALSE, known |-> NoContacts, view |-> NoContacts, verdict |-> NoVerdict]

Goto(p, pc) == proc' = [proc EXCEPT ![p].pc = pc]
Return(p)   == proc' = [proc EXCEPT ![p] = Idle]

(***************************************************************************)
(* `sealed trust` at home h, as ContactStore makes sure of it.             *)
(***************************************************************************)
Trust(h, a, k) ==
  /\ pins[h][a] = NoPin
  /\ pins' = [pins EXCEPT ![h][a] = k]
  /\ UNCHANGED <<file, wire, foreign, proc, sealed, shown>>

(***************************************************************************)
(* seal                                                                    *)
(***************************************************************************)

\* The contact and the identity are loaded, the letter is read and sealed
\* under a new message id.
BeginSeal(p, h, a, l, x) ==
  /\ proc[p].pc = "idle"
  /\ pins[h][a] # NoPin
  /\ \A s \in sealed : s.letter # l
  /\ LET b == SealedBlob(h, pins[h][a], l)
     IN  /\ sealed' = sealed \cup {b.claim}
         /\ proc' = [proc EXCEPT ![p] =
              [Idle EXCEPT !.pc = IF x = Stdout THEN "print" ELSE "create",
                           !.home = h, !.place = x, !.blob = b]]
  /\ UNCHANGED <<pins, file, wire, foreign, shown>>

\* A slip of CreateNew: open with create and truncate.
CreateOrTruncate(p) ==
  /\ proc[p].pc = "create"
  /\ file' = [file EXCEPT ![proc[p].place] = Damaged]
  /\ Goto(p, "write")
  /\ UNCHANGED <<pins, wire, foreign, sealed, shown>>

\* write_new_private fails if there is a file.
CreateNew(p) ==
  /\ proc[p].pc = "create"
  /\ IF file[proc[p].place] = Absent
       THEN /\ file' = [file EXCEPT ![proc[p].place] = Damaged]
            /\ Goto(p, "write")
       ELSE /\ Return(p)
            /\ UNCHANGED file
  /\ UNCHANGED <<pins, wire, foreign, sealed, shown>>

\* The open file is written: it is the one at the path, unless that has been
\* deleted or replaced meanwhile.
WriteAll(p) ==
  /\ proc[p].pc = "write"
  /\ \/ /\ file[proc[p].place] = Damaged
        /\ file' = [file EXCEPT ![proc[p].place] = proc[p].blob]
     \/ UNCHANGED file
  /\ Goto(p, "settle")
  /\ UNCHANGED <<pins, wire, foreign, sealed, shown>>

\* Synced and made private, or an error: the seal is over.
Settle(p) ==
  /\ proc[p].pc = "settle"
  /\ Return(p)
  /\ UNCHANGED <<pins, file, wire, foreign, sealed, shown>>

\* A slip of PrintBlob: one call of write, which may stop short.
PrintSome(p) ==
  /\ proc[p].pc = "print"
  /\ wire' \in {wire \cup {proc[p].blob}, wire \cup {Damaged}}
  /\ Return(p)
  /\ UNCHANGED <<pins, file, foreign, sealed, shown>>

\* Without --output the blob goes to standard output.
PrintBlob(p) ==
  /\ proc[p].pc = "print"
  /\ wire' = wire \cup {proc[p].blob}
  /\ Return(p)
  /\ UNCHANGED <<pins, file, foreign, sealed, shown>>

(***************************************************************************)
(* open                                                                    *)
(***************************************************************************)

\* The identity is loaded and the listing of the contacts begins ...
BeginOpen(p, h, x, keep) ==
  /\ proc[p].pc = "idle"
  /\ proc' = [proc EXCEPT ![p] =
       [Idle EXCEPT !.pc = "list", !.home = h, !.place = x, !.keep = keep,
                    !.known = pins[h], !.view = pins[h]]]
  /\ UNCHANGED <<pins, file, wire, foreign, sealed, shown>>

\* ... and ends: what was pinned meanwhile is in it or is not.
ListContacts(p) ==
  /\ proc[p].pc = "list"
  /\ \E some \in SUBSET Aliases :
       proc' = [proc EXCEPT
         ![p].view = [a \in Aliases |-> IF a \in some THEN pins[proc[p].home][a] ELSE @[a]],
         ![p].pc = "read"]
  /\ UNCHANGED <<pins, file, wire, foreign, sealed, shown>>

\* The blob is read and opened, or it is none this home can open.
ReadBlob(p) ==
  /\ proc[p].pc = "read"
  /\ LET content == file[proc[p].place]
     IN  IF Opens(proc[p].home, content)
           THEN proc' = [proc EXCEPT
                  ![p].pc = "show",
                  ![p].blob = content,
                  ![p].verdict = SenderTrust(proc[p].view, content.claim.sender)]
           ELSE Return(p)
  /\ UNCHANGED <<pins, file, wire, foreign, sealed, shown>>

\* A slip of Show: an error of the output is ignored.
ShowRegardless(p) ==
  /\ proc[p].pc = "show"
  /\ shown' \in {shown, shown \cup {<<proc[p].home, proc[p].blob.claim>>}}
  /\ Goto(p, IF proc[p].keep THEN "idle" ELSE "consume")
  /\ UNCHANGED <<pins, file, wire, foreign, sealed>>

\* The trust and the letter are printed and standard output is flushed.
Show(p) ==
  /\ proc[p].pc = "show"
  /\ shown' = shown \cup {<<proc[p].home, proc[p].blob.claim>>}
  /\ Goto(p, IF proc[p].keep THEN "idle" ELSE "consume")
  /\ UNCHANGED <<pins, file, wire, foreign, sealed>>

\* consume_blob removes whatever is at the path; it fails if nothing is.
Consume(p) ==
  /\ proc[p].pc = "consume"
  /\ file' = [file EXCEPT ![proc[p].place] = Absent]
  /\ Goto(p, "idle")
  /\ UNCHANGED <<pins, wire, foreign, sealed, shown>>

\* A call fails, or the process is killed: the files stay as they are.
Fault(p) ==
  /\ proc[p].pc # "idle"
  /\ Return(p)
  /\ UNCHANGED <<pins, file, wire, foreign, sealed, shown>>

-----------------------------------------------------------------------------
(***************************************************************************)
(* The transport, which is not part of the program.                        *)
(***************************************************************************)

\* It takes a copy of a letter file ...
Take(x) ==
  /\ file[x] \in Blobs \ wire
  /\ wire' = wire \cup {file[x]}
  /\ UNCHANGED <<pins, file, foreign, proc, sealed, shown>>

\* ... delivers anything it has seen, as often as it likes and in any order,
\* whole or damaged, or takes the file away.
Deliver(x) ==
  /\ \E content \in wire \cup foreign \cup {Absent, Damaged} : file' = [file EXCEPT ![x] = content]
  /\ UNCHANGED <<pins, wire, foreign, proc, sealed, shown>>

\* A recipient's other programs encrypt a letter again for home h, as the
\* tests of message.rs do, with the old signature under any statement.
Reencrypt(b, h, s) ==
  /\ Cardinality(foreign) < MaxForeign
  /\ foreign' = foreign \cup {[b EXCEPT !.for = Own[h].agreement, !.claim = s]}
  /\ UNCHANGED <<pins, file, wire, proc, sealed, shown>>

-----------------------------------------------------------------------------
Init ==
  /\ pins = [h \in Homes |-> NoContacts]
  /\ file = [x \in Places |-> Absent]
  /\ wire = {}
  /\ foreign = {}
  /\ proc = [p \in Procs |-> Idle]
  /\ sealed = {}
  /\ shown = {}

Seal(p) ==
  \/ \E h \in Homes, a \in Aliases, l \in Letters, x \in Places \cup {Stdout} :
       BeginSeal(p, h, a, l, x)
  \/ CreateNew(p) \/ WriteAll(p) \/ Settle(p) \/ PrintBlob(p)

Open(p) ==
  \/ \E h \in Homes, x \in Places, keep \in BOOLEAN : BeginOpen(p, h, x, keep)
  \/ ListContacts(p) \/ ReadBlob(p) \/ Show(p) \/ Consume(p)

Transport ==
  \/ \E x \in Places : Take(x) \/ Deliver(x)
  \/ \E b \in wire \cup foreign, h \in Homes, s \in Claims : Reencrypt(b, h, s)

Next ==
  \/ \E h \in Homes, a \in Aliases : \E k \in Offered[h] : Trust(h, a, k)
  \/ \E p \in Procs : Seal(p) \/ Open(p) \/ Fault(p)
  \/ Transport

Spec == Init /\ [][Next]_vars

-----------------------------------------------------------------------------
(***************************************************************************)
(* Properties.                                                             *)
(***************************************************************************)

\* Every variable has its type.
TypeOK ==
  /\ pins \in [Homes -> Views]
  /\ file \in [Places -> Blobs \cup {Absent, Damaged}]
  /\ wire \subseteq Blobs
  /\ foreign \subseteq Blobs
  /\ proc \in [Procs -> Commands]
  /\ sealed \subseteq Statements
  /\ shown \subseteq Homes \X Statements

\* The open of p that has printed its letter.
Reporting(p) == proc[p].verdict # NoVerdict

\* A letter reported as from a pinned contact was sealed for this very home by
\* the home that the contact is pinned to: no copy, replay, re-encryption or
\* exchange of the statement gets that verdict (message.rs:141-160).
PinnedIsGenuine ==
  \A p \in Procs :
    Reporting(p) /\ proc[p].verdict.kind = "pinned" =>
      \E s \in sealed :
        /\ s = proc[p].blob.claim
        /\ s.bound = Own[proc[p].home]
        /\ s.sender = pins[proc[p].home][proc[p].verdict.who]

\* Each verdict means what it tells the user, whatever is imported while the
\* contacts are listed and whichever of them share keys.  A sender that was
\* pinned when the open began is shown as pinned, never as a possible MITM; the
\* alarm is about a contact that is pinned to another profile with a key of the
\* sender; a sender with a key of a contact that was pinned when the open began
\* is never shown as merely unknown (message.rs:154-170, cli.rs:741-749).
VerdictIsWarranted ==
  \A p \in Procs :
    LET sender  == proc[p].blob.claim.sender
        known   == proc[p].known
        verdict == proc[p].verdict
        alarm   == pins[proc[p].home][verdict.who]
    IN  Reporting(p) =>
          /\ (\E a \in Aliases : known[a] = sender) => verdict.kind = "pinned"
          /\ verdict.kind = "mismatch" => alarm \notin {NoPin, sender} /\ SharesKey(alarm, sender)
          /\ verdict.kind = "unknown" =>
               \A a \in Aliases \ {b \in Aliases : known[b] = NoPin} :
                 /\ known[a].identity # sender.identity
                 /\ known[a].agreement # sender.agreement

\* The program never touches a letter file of others, but to delete it at the
\* end of an open without --keep that has put a letter from that path out for
\* its user; and what is at a path, torn files too, is not opened for writing
\* (storage.rs:176-190, cli.rs:756-762).
FilesRespected ==
  [][/\ \A x \in Places :
          file[x] \in Blobs /\ file'[x] # file[x] /\ proc' # proc =>
            \E p \in Procs :
              /\ proc[p].pc = "consume" /\ proc[p].place = x /\ ~proc[p].keep
              /\ <<proc[p].home, proc[p].blob.claim>> \in shown
     /\ \A p \in Procs :
          proc[p].pc = "create" /\ proc'[p].pc = "write" => file[proc[p].place] = Absent]_vars

\* Sealing and opening are what the abstract post does.
Mail == INSTANCE Post WITH
  To <- [h \in Homes |-> {s \in Statements : s.bound = Own[h]}]

ImplementsPost == Mail!Spec

\* "Open and logically delete letter.bin after successful output" (README.md):
\* the letter an open deletes has been put out.
DeletedWasShown ==
  [][\A x \in Places :
       file[x] \in Blobs /\ file'[x] = Absent /\ proc' # proc =>
         \E h \in Homes : <<h, file[x].claim>> \in shown]_vars
=============================================================================
