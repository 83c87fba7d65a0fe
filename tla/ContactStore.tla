---------------------------- MODULE ContactStore ----------------------------
(***************************************************************************)
(* The contacts of a Sealed state directory (src/src/storage.rs):          *)
(* trust_profile, contact and all_contacts, run by any number of processes *)
(* that share the directory and take no lock.  As in IdentityStore, one    *)
(* action is one file system call together with the code up to the next.   *)
(*                                                                         *)
(* The file of contact a holds a public profile.  Contact names are        *)
(* numbered in the order in which all_contacts sorts their files.          *)
(***************************************************************************)
EXTENDS Naturals

CONSTANTS
  Procs,      \* running copies of the program (or the slots they use)
  Aliases,    \* valid contact names
  Profiles,   \* public profiles
  Absent,     \* no such file
  Torn        \* a file whose content is a strict prefix of a profile

ASSUME AliasAssumption == Aliases \subseteq Nat

ASSUME SentinelAssumption == /\ Absent # Torn
                             /\ Absent \notin Profiles
                             /\ Torn \notin Profiles
                             /\ Absent \notin Aliases

Content == Profiles \cup {Absent, Torn}

VARIABLES
  file,     \* file[a]: the contact file of a
  dir,      \* the contacts directory exists
  proc,     \* proc[p]: the command p is running, or has run last
  faulted   \* history: a call to the system has failed or a process crashed

vars == <<file, dir, proc, faulted>>

-----------------------------------------------------------------------------
(***************************************************************************)
(* A process remembers its last command until it starts the next one:      *)
(*   pc     what it is about to do                                         *)
(*   name   the contact the command is about (trust and contact)           *)
(*   key    the profile it imports or, once it succeeded, reports          *)
(*   out    the outcome: "ok", "mismatch", "error" or, from all_contacts,  *)
(*          "empty"; "none" before the first                               *)
(*   todo   entries of the directory still to be read (all_contacts)       *)
(*   view   contacts read so far                                           *)
(*   known  history: names with a complete file when the command began     *)
(***************************************************************************)
Trusting == {"seeDir", "makeDir", "look", "compare", "create", "write", "settle"}
Listing  == {"openDir", "readDir", "readNext"}
Pcs      == {"idle"} \cup Trusting \cup Listing
Outcomes == {"none", "ok", "mismatch", "error", "empty"}

Commands == [pc    : Pcs,
             name  : Aliases \cup {Absent},
             key   : Profiles \cup {Absent},
             out   : Outcomes,
             todo  : SUBSET Aliases,
             view  : SUBSET (Aliases \X Profiles),
             known : SUBSET Aliases]

Idle == [pc |-> "idle", name |-> Absent, key |-> Absent, out |-> "none",
         todo |-> {}, view |-> {}, known |-> {}]

\* Process p ends its command with the given outcome.
Return(p, out) == proc' = [proc EXCEPT ![p].pc = "idle", ![p].out = out]

Goto(p, pc) == proc' = [proc EXCEPT ![p].pc = pc]

\* A slip of Parses: a prefix of a profile is taken for one.
ParsesPrefix(content) == content # Absent

\* PublicProfile::parse accepts the canonical encoding of a profile only.
Parses(content) == content \in Profiles

Complete == {a \in Aliases : file[a] \in Profiles}
Present  == {a \in Aliases : file[a] # Absent}

-----------------------------------------------------------------------------
(***************************************************************************)
(* trust_profile                                                           *)
(***************************************************************************)

\* `sealed trust` of profile k as contact a: the name is valid and the source
\* file has been read and parsed.
BeginTrust(p, a, k) ==
  /\ proc[p].pc = "idle"
  /\ proc' = [proc EXCEPT ![p] = [Idle EXCEPT !.pc = "seeDir", !.name = a, !.key = k]]
  /\ UNCHANGED <<file, dir, faulted>>

SeeDir(p) ==
  /\ proc[p].pc = "seeDir"
  /\ Goto(p, IF dir THEN "look" ELSE "makeDir")
  /\ UNCHANGED <<file, dir, faulted>>

\* create_dir fails if another process was faster.
MakeDir(p) ==
  /\ proc[p].pc = "makeDir"
  /\ IF dir THEN Return(p, "error") ELSE Goto(p, "look")
  /\ dir' = TRUE
  /\ UNCHANGED <<file, faulted>>

\* Is the name taken?
Look(p) ==
  /\ proc[p].pc = "look"
  /\ Goto(p, IF file[proc[p].name] = Absent THEN "create" ELSE "compare")
  /\ UNCHANGED <<file, dir, faulted>>

\* A slip of Compare: any profile found under the name will do.
CompareNever(p) ==
  /\ proc[p].pc = "compare"
  /\ Return(p, IF Parses(file[proc[p].name]) THEN "ok" ELSE "error")
  /\ UNCHANGED <<file, dir, faulted>>

\* It is: the pinned profile decides.
Compare(p) ==
  /\ proc[p].pc = "compare"
  /\ Return(p, IF ~Parses(file[proc[p].name]) THEN "error"
               ELSE IF file[proc[p].name] = proc[p].key THEN "ok" ELSE "mismatch")
  /\ UNCHANGED <<file, dir, faulted>>

\* A slip of CreateNew: open with create and truncate.
CreateOrTruncate(p) ==
  /\ proc[p].pc = "create"
  /\ file' = [file EXCEPT ![proc[p].name] = Torn]
  /\ Goto(p, "write")
  /\ UNCHANGED <<dir, faulted>>

\* It is not: write_new_private, whose open fails if the file exists by now.
CreateNew(p) ==
  /\ proc[p].pc = "create"
  /\ IF file[proc[p].name] = Absent
       THEN /\ file' = [file EXCEPT ![proc[p].name] = Torn]
            /\ Goto(p, "write")
       ELSE /\ Return(p, "error")
            /\ UNCHANGED file
  /\ UNCHANGED <<dir, faulted>>

\* A slip of WriteAll: one call of write, which may stop short.
WriteSome(p) ==
  /\ proc[p].pc = "write"
  /\ \E content \in {Torn, proc[p].key} : file' = [file EXCEPT ![proc[p].name] = content]
  /\ Goto(p, "settle")
  /\ UNCHANGED <<dir, faulted>>

WriteAll(p) ==
  /\ proc[p].pc = "write"
  /\ file' = [file EXCEPT ![proc[p].name] = proc[p].key]
  /\ Goto(p, "settle")
  /\ UNCHANGED <<dir, faulted>>

\* Synced and made private: the contact is pinned.
Settle(p) ==
  /\ proc[p].pc = "settle"
  /\ Return(p, "ok")
  /\ UNCHANGED <<file, dir, faulted>>

-----------------------------------------------------------------------------
(***************************************************************************)
(* contact: one read.                                                      *)
(***************************************************************************)
Contact(p, a) ==
  /\ proc[p].pc = "idle"
  /\ proc' = [proc EXCEPT ![p] =
       IF Parses(file[a])
         THEN [Idle EXCEPT !.name = a, !.key = file[a], !.out = "ok"]
         ELSE [Idle EXCEPT !.name = a, !.out = "error"]]
  /\ UNCHANGED <<file, dir, faulted>>

(***************************************************************************)
(* all_contacts: look for the directory, list it, then read one file after *)
(* the other in the order of their names.  Any file that is not a whole    *)
(* profile fails the command.                                              *)
(***************************************************************************)
BeginList(p) ==
  /\ proc[p].pc = "idle"
  /\ proc' = [proc EXCEPT ![p] =
       IF dir THEN [Idle EXCEPT !.pc = "openDir", !.known = Complete]
              ELSE [Idle EXCEPT !.out = "empty", !.known = Complete]]
  /\ UNCHANGED <<file, dir, faulted>>

\* Listing a directory returns at least what was there when it was opened...
OpenDir(p) ==
  /\ proc[p].pc = "openDir"
  /\ proc' = [proc EXCEPT ![p].pc = "readDir", ![p].todo = Present]
  /\ UNCHANGED <<file, dir, faulted>>

\* ... and of what is created meanwhile any part.
ReadDir(p) ==
  /\ proc[p].pc = "readDir"
  /\ \E new \in SUBSET (Present \ proc[p].todo) :
       proc' = [proc EXCEPT ![p].pc = "readNext", ![p].todo = @ \cup new]
  /\ UNCHANGED <<file, dir, faulted>>

\* A slip of ReadNext: a file that does not parse ends the listing.
ReadUntilDamaged(p) ==
  /\ proc[p].pc = "readNext"
  /\ \E a \in proc[p].todo :
       /\ \A b \in proc[p].todo : a <= b
       /\ IF Parses(file[a])
            THEN proc' = [proc EXCEPT ![p].todo = @ \ {a},
                                      ![p].view = @ \cup {<<a, file[a]>>}]
            ELSE Return(p, "ok")
  /\ UNCHANGED <<file, dir, faulted>>

ReadNext(p) ==
  /\ proc[p].pc = "readNext"
  /\ \E a \in proc[p].todo :
       /\ \A b \in proc[p].todo : a <= b
       /\ IF Parses(file[a])
            THEN proc' = [proc EXCEPT ![p].todo = @ \ {a},
                                      ![p].view = @ \cup {<<a, file[a]>>}]
            ELSE Return(p, "error")
  /\ UNCHANGED <<file, dir, faulted>>

\* All files are read: the contacts are returned.
ListDone(p) ==
  /\ proc[p].pc = "readNext"
  /\ proc[p].todo = {}
  /\ Return(p, "ok")
  /\ UNCHANGED <<file, dir, faulted>>

-----------------------------------------------------------------------------
(***************************************************************************)
(* The environment.                                                        *)
(***************************************************************************)

\* A call fails, or the process is killed: the files stay as they are.
Fault(p) ==
  /\ proc[p].pc # "idle"
  /\ Return(p, "error")
  /\ faulted' = TRUE
  /\ UNCHANGED <<file, dir>>

\* Path::exists takes a failing call for a missing directory: all_contacts
\* then succeeds without a contact.
BlindList(p) ==
  /\ proc[p].pc = "idle"
  /\ proc' = [proc EXCEPT ![p] = [Idle EXCEPT !.out = "empty", !.known = Complete]]
  /\ faulted' = TRUE
  /\ UNCHANGED <<file, dir>>

Init ==
  /\ file = [a \in Aliases |-> Absent]
  /\ dir \in BOOLEAN          \* TRUE once `initialize` has run
  /\ proc = [p \in Procs |-> Idle]
  /\ faulted = FALSE

Begin(p) ==
  \/ \E a \in Aliases, k \in Profiles : BeginTrust(p, a, k)
  \/ \E a \in Aliases : Contact(p, a)
  \/ BeginList(p)

\* What the program does by itself once a command has started.
Step(p) ==
  \/ SeeDir(p) \/ MakeDir(p) \/ Look(p) \/ Compare(p)
  \/ CreateNew(p) \/ WriteAll(p) \/ Settle(p)
  \/ OpenDir(p) \/ ReadDir(p) \/ ReadNext(p) \/ ListDone(p)

Next == \E p \in Procs : Begin(p) \/ Step(p) \/ Fault(p) \/ BlindList(p)

Spec == Init /\ [][Next]_vars

\* A started command keeps being scheduled.
FairSpec == Spec /\ \A p \in Procs : WF_vars(Step(p))

-----------------------------------------------------------------------------
(***************************************************************************)
(* Properties.                                                             *)
(***************************************************************************)

\* Every variable has its type.
TypeOK ==
  /\ file \in [Aliases -> Content]
  /\ dir \in BOOLEAN
  /\ proc \in [Procs -> Commands]
  /\ faulted \in BOOLEAN

\* The contacts a finished command has reported to its user.
Reported(p) ==
  IF proc[p].pc = "idle" /\ proc[p].out = "ok"
    THEN IF proc[p].name \in Aliases THEN {<<proc[p].name, proc[p].key>>} ELSE proc[p].view
    ELSE {}

\* What a command has told its user stays true, whatever other commands do
\* afterwards: a trusted or looked up contact has that profile, and after
\* IDENTITY MISMATCH the name has another (storage.rs:114-120, 125-136).
AnswersStayTrue ==
  \A p \in Procs :
    /\ \A c \in Reported(p) : file[c[1]] = c[2]
    /\ proc[p].pc = "idle" /\ proc[p].out = "mismatch" =>
         file[proc[p].name] \in Profiles \ {proc[p].key}

\* A contact that was pinned when all_contacts began is not missed: it is in
\* the result, or the command fails.  message::open relies on it to tell a
\* changed sender from an unknown one (storage.rs:138-163).  Only where a
\* call has failed may the contacts be taken for none.
NoPinMissed ==
  \A p \in Procs :
    proc[p].pc = "idle" =>
      /\ proc[p].out = "ok" => \A a \in proc[p].known : <<a, file[a]>> \in proc[p].view
      /\ proc[p].out = "empty" /\ ~faulted => proc[p].known = {}

\* A damaged contact file, which fails every later listing, import and lookup
\* that meets it, is a file being written or the trace of a failed call.
DamageNeedsFault ==
  \A a \in Aliases :
    file[a] = Torn => faulted \/ \E p \in Procs : proc[p].pc = "write" /\ proc[p].name = a

\* Imports that race for a name cannot all lose: without a failing call the
\* name ends up pinned.
ContendedNameIsPinned ==
  \A a \in Aliases :
    (\E p \in Procs : proc[p].pc \in {"look", "create", "write"} /\ proc[p].name = a)
      ~> (file[a] \in Profiles \/ faulted)

\* The contact files are what the abstract store calls pins; the outcomes of
\* the last commands are what it tells.
Pins == INSTANCE PinStore WITH
  Users <- Procs,
  NoPin <- Absent,
  pin   <- [a \in Aliases |-> IF file[a] \in Profiles THEN file[a] ELSE Absent],
  told  <- [p \in Procs |-> Reported(p)]

ImplementsPins == Pins!Spec

\* "A pinned alias is immutable: importing different key material under that
\* alias is a hard IDENTITY MISMATCH event" (docs/THREAT_MODEL.md): an import
\* that finds the name pinned to another profile, and no failing system call,
\* ends in that outcome and no other.
DifferentKeyIsMismatch ==
  [][\A p \in Procs :
       /\ proc[p].pc \in {"compare", "create"} /\ proc'[p].pc = "idle"
       /\ file[proc[p].name] \in Profiles \ {proc[p].key}
       /\ ~faulted'
       => proc'[p].out = "mismatch"]_vars
=============================================================================
