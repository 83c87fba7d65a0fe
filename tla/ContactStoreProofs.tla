------------------------- MODULE ContactStoreProofs -------------------------
(***************************************************************************)
(* Proofs about ContactStore, for any number of processes, names and       *)
(* profiles.                                                               *)
(***************************************************************************)
EXTENDS ContactStore, TLAPS

(***************************************************************************)
(* The inductive invariant.  A contact file only ever goes from absent to  *)
(* torn to complete, and only the process that created it completes it; so *)
(* everything a command has read from a complete file stays true.          *)
(***************************************************************************)

\* What a program counter says about the local variables.
LocalsOK(p) ==
  /\ proc[p].pc \in Trusting => proc[p].name \in Aliases /\ proc[p].key \in Profiles
  /\ proc[p].pc \in Listing => proc[p].name = Absent
  /\ proc[p].name \in Aliases => proc[p].known = {}
  /\ proc[p].out = "mismatch" => proc[p].name \in Aliases /\ proc[p].key \in Profiles
  /\ proc[p].out = "ok" /\ proc[p].name \in Aliases => proc[p].key \in Profiles

Typed == TypeOK /\ \A p \in Procs : LocalsOK(p)

\* The directory is there before any file in it.
DirFirst ==
  /\ \A a \in Aliases : file[a] # Absent => dir
  /\ \A p \in Procs : proc[p].pc \in {"look", "compare", "create"} => dir

\* A file being written is torn and has one writer, then it is complete.
WritersOK ==
  /\ \A p \in Procs : proc[p].pc = "write" => file[proc[p].name] = Torn
  /\ \A p \in Procs : proc[p].pc = "settle" => file[proc[p].name] = proc[p].key
  /\ \A p, q \in Procs :
       proc[p].pc = "write" /\ proc[q].pc = "write" /\ proc[p].name = proc[q].name => p = q

\* A listing has read what is there, and will read what it must.
ViewsOK(p) ==
  /\ \A c \in proc[p].view : file[c[1]] = c[2]
  /\ \A a \in proc[p].known : file[a] \in Profiles
  /\ proc[p].pc \in {"readDir", "readNext"} =>
       \A a \in proc[p].known : a \in proc[p].todo \/ <<a, file[a]>> \in proc[p].view

IInv == /\ Typed
        /\ DirFirst
        /\ WritersOK
        /\ \A p \in Procs : ViewsOK(p)
        /\ AnswersStayTrue
        /\ NoPinMissed
        /\ DamageNeedsFault

-----------------------------------------------------------------------------
\* A state directory without contacts satisfies the invariant.
LEMMA InitIInv == Init => IInv
<1> SUFFICES ASSUME Init PROVE IInv
  OBVIOUS
<1> USE SentinelAssumption
<1>1. Idle \in Commands
  BY DEF Idle, Commands, Pcs, Outcomes
<1>2. \A p \in Procs : proc[p] = Idle
  BY DEF Init
<1>3. TypeOK
  BY <1>1 DEF Init, TypeOK, Content
<1>4. ASSUME NEW p \in Procs PROVE LocalsOK(p) /\ ViewsOK(p) /\ Reported(p) = {}
  <2>1. /\ proc[p].pc = "idle" /\ proc[p].out = "none" /\ proc[p].view = {}
        /\ proc[p].known = {} /\ proc[p].name = Absent
    BY <1>2 DEF Idle
  <2>. QED BY <2>1 DEF LocalsOK, ViewsOK, Reported, Trusting, Listing
<1>5. DirFirst /\ WritersOK /\ NoPinMissed /\ AnswersStayTrue
  BY <1>2, <1>4 DEF Init, Idle, DirFirst, WritersOK, NoPinMissed, AnswersStayTrue
<1>6. DamageNeedsFault
  BY DEF Init, DamageNeedsFault
<1>. QED BY <1>3, <1>4, <1>5, <1>6 DEF IInv, Typed

\* Two local variables of p change.
LEMMA LocalsTyped ==
  ASSUME proc \in [Procs -> Commands], NEW p \in Procs, NEW pc \in Pcs
  PROVE  /\ \A out \in Outcomes :
              [proc EXCEPT ![p].pc = pc, ![p].out = out] \in [Procs -> Commands]
         /\ \A todo \in SUBSET Aliases :
              [proc EXCEPT ![p].pc = pc, ![p].todo = todo] \in [Procs -> Commands]
<1>1. ASSUME NEW out \in Outcomes
      PROVE  [proc EXCEPT ![p].pc = pc, ![p].out = out] \in [Procs -> Commands]
  <2> DEFINE r == [proc[p] EXCEPT !.pc = pc, !.out = out]
  <2>1. r \in Commands
    BY DEF Commands
  <2>. QED BY <2>1
<1>2. ASSUME NEW todo \in SUBSET Aliases
      PROVE  [proc EXCEPT ![p].pc = pc, ![p].todo = todo] \in [Procs -> Commands]
  <2> DEFINE r == [proc[p] EXCEPT !.pc = pc, !.todo = todo]
  <2>1. r \in Commands
    BY DEF Commands
  <2>. QED BY <2>1
<1>. QED BY <1>1, <1>2

\* Each step keeps the types, and what the locals say of each other.
LEMMA TypedStep == Typed /\ [Next]_vars => Typed'
<1> SUFFICES ASSUME Typed, [Next]_vars PROVE Typed'
  OBVIOUS
<1> USE SentinelAssumption
<1>1. CASE UNCHANGED vars
  BY <1>1 DEF vars, Typed, TypeOK, LocalsOK, Trusting, Listing
<1> USE DEF TypeOK, Typed
<1>2. ASSUME NEW p \in Procs, NEW a \in Aliases, NEW k \in Profiles, BeginTrust(p, a, k) PROVE Typed'
  <2>1. TypeOK'
    BY <1>2 DEF BeginTrust, Idle, LocalsOK, Commands, Pcs, Trusting, Listing, Outcomes
  <2>2. \A q \in Procs \ {p} : proc'[q] = proc[q]
    BY <1>2 DEF BeginTrust, Idle
  <2>3. LocalsOK(p)'
    BY <1>2 DEF BeginTrust, Idle, LocalsOK, Commands, Trusting, Listing
  <2>. QED BY <2>1, <2>2, <2>3 DEF LocalsOK
<1>3. ASSUME NEW p \in Procs, NEW a \in Aliases, Contact(p, a) PROVE Typed'
  <2>1. TypeOK'
    BY <1>3 DEF Contact, Parses, Idle, LocalsOK, Commands, Pcs, Trusting, Listing, Outcomes
  <2>2. \A q \in Procs \ {p} : proc'[q] = proc[q]
    BY <1>3 DEF Contact, Parses, Idle
  <2>3. LocalsOK(p)'
    BY <1>3 DEF Contact, Parses, Idle, LocalsOK, Commands, Trusting, Listing
  <2>. QED BY <2>1, <2>2, <2>3 DEF LocalsOK
<1>4. ASSUME NEW p \in Procs, BeginList(p) PROVE Typed'
  <2>1. TypeOK'
    BY <1>4 DEF BeginList, Complete, Idle, LocalsOK, Commands, Pcs, Trusting, Listing, Outcomes
  <2>2. \A q \in Procs \ {p} : proc'[q] = proc[q]
    BY <1>4 DEF BeginList, Complete, Idle
  <2>3. LocalsOK(p)'
    BY <1>4 DEF BeginList, Complete, Idle, LocalsOK, Commands, Trusting, Listing
  <2>. QED BY <2>1, <2>2, <2>3 DEF LocalsOK
<1>5. ASSUME NEW p \in Procs, BlindList(p) PROVE Typed'
  <2>1. TypeOK'
    BY <1>5 DEF BlindList, Complete, Idle, LocalsOK, Commands, Pcs, Trusting, Listing, Outcomes
  <2>2. \A q \in Procs \ {p} : proc'[q] = proc[q]
    BY <1>5 DEF BlindList, Complete, Idle
  <2>3. LocalsOK(p)'
    BY <1>5 DEF BlindList, Complete, Idle, LocalsOK, Commands, Trusting, Listing
  <2>. QED BY <2>1, <2>2, <2>3 DEF LocalsOK
<1>6. ASSUME NEW p \in Procs, SeeDir(p) PROVE Typed'
  <2>1. TypeOK'
    BY <1>6 DEF SeeDir, Goto, LocalsOK, Commands, Pcs, Trusting, Listing, Outcomes
  <2>2. \A q \in Procs \ {p} : proc'[q] = proc[q]
    BY <1>6 DEF SeeDir, Goto
  <2>3. LocalsOK(p)'
    BY <1>6 DEF SeeDir, Goto, LocalsOK, Commands, Trusting, Listing
  <2>. QED BY <2>1, <2>2, <2>3 DEF LocalsOK
<1>7. ASSUME NEW p \in Procs, MakeDir(p) PROVE Typed'
  <2>1. TypeOK'
    BY <1>7 DEF MakeDir, Goto, Return, LocalsOK, Commands, Pcs, Trusting, Listing, Outcomes
  <2>2. \A q \in Procs \ {p} : proc'[q] = proc[q]
    BY <1>7 DEF MakeDir, Goto, Return
  <2>3. LocalsOK(p)'
    BY <1>7 DEF MakeDir, Goto, Return, LocalsOK, Commands, Trusting, Listing
  <2>. QED BY <2>1, <2>2, <2>3 DEF LocalsOK
<1>8. ASSUME NEW p \in Procs, Look(p) PROVE Typed'
  <2>1. TypeOK'
    BY <1>8 DEF Look, Goto, LocalsOK, Commands, Pcs, Trusting, Listing, Outcomes
  <2>2. \A q \in Procs \ {p} : proc'[q] = proc[q]
    BY <1>8 DEF Look, Goto
  <2>3. LocalsOK(p)'
    BY <1>8 DEF Look, Goto, LocalsOK, Commands, Trusting, Listing
  <2>. QED BY <2>1, <2>2, <2>3 DEF LocalsOK
<1>9. ASSUME NEW p \in Procs, Compare(p) PROVE Typed'
  <2>1. TypeOK'
    BY <1>9, LocalsTyped DEF Compare, Return, Pcs, Outcomes
  <2>2. \A q \in Procs \ {p} : proc'[q] = proc[q]
    BY <1>9 DEF Compare, Return
  <2>3. LocalsOK(p)'
    BY <1>9 DEF Compare, Return, LocalsOK, Commands, Trusting, Listing
  <2>. QED BY <2>1, <2>2, <2>3 DEF LocalsOK
<1>10. ASSUME NEW p \in Procs, CreateNew(p) PROVE Typed'
  <2>1. TypeOK'
    BY <1>10 DEF CreateNew, Goto, Return, Content, LocalsOK, Commands, Pcs, Trusting, Listing, Outcomes
  <2>2. \A q \in Procs \ {p} : proc'[q] = proc[q]
    BY <1>10 DEF CreateNew, Goto, Return
  <2>3. LocalsOK(p)'
    BY <1>10 DEF CreateNew, Goto, Return, Content, LocalsOK, Commands, Trusting, Listing
  <2>. QED BY <2>1, <2>2, <2>3 DEF LocalsOK
<1>11. ASSUME NEW p \in Procs, WriteAll(p) PROVE Typed'
  <2>1. TypeOK'
    BY <1>11 DEF WriteAll, Goto, Content, LocalsOK, Commands, Pcs, Trusting, Listing, Outcomes
  <2>2. \A q \in Procs \ {p} : proc'[q] = proc[q]
    BY <1>11 DEF WriteAll, Goto
  <2>3. LocalsOK(p)'
    BY <1>11 DEF WriteAll, Goto, Content, LocalsOK, Commands, Trusting, Listing
  <2>. QED BY <2>1, <2>2, <2>3 DEF LocalsOK
<1>12. ASSUME NEW p \in Procs, Settle(p) PROVE Typed'
  <2>1. TypeOK'
    BY <1>12, LocalsTyped DEF Settle, Return, Pcs, Outcomes
  <2>2. \A q \in Procs \ {p} : proc'[q] = proc[q]
    BY <1>12 DEF Settle, Return
  <2>3. LocalsOK(p)'
    BY <1>12 DEF Settle, Return, LocalsOK, Commands, Trusting, Listing
  <2>. QED BY <2>1, <2>2, <2>3 DEF LocalsOK
<1>13. ASSUME NEW p \in Procs, OpenDir(p) PROVE Typed'
  <2>1. TypeOK'
    BY <1>13, LocalsTyped DEF OpenDir, Present, Pcs, Listing
  <2>2. \A q \in Procs \ {p} : proc'[q] = proc[q]
    BY <1>13 DEF OpenDir, Present
  <2>3. LocalsOK(p)'
    BY <1>13 DEF OpenDir, Present, LocalsOK, Commands, Trusting, Listing
  <2>. QED BY <2>1, <2>2, <2>3 DEF LocalsOK
<1>14. ASSUME NEW p \in Procs, ReadDir(p) PROVE Typed'
  <2>1. TypeOK'
    <3>1. PICK new \in SUBSET (Present \ proc[p].todo) :
            proc' = [proc EXCEPT ![p].pc = "readNext", ![p].todo = @ \cup new]
      BY <1>14 DEF ReadDir
    <3>2. proc[p].todo \cup new \in SUBSET Aliases
      BY DEF Commands, Present
    <3>. QED BY <1>14, <3>1, <3>2, LocalsTyped DEF ReadDir, Pcs, Listing
  <2>2. \A q \in Procs \ {p} : proc'[q] = proc[q]
    BY <1>14 DEF ReadDir, Present
  <2>3. LocalsOK(p)'
    BY <1>14 DEF ReadDir, Present, LocalsOK, Commands, Trusting, Listing
  <2>. QED BY <2>1, <2>2, <2>3 DEF LocalsOK
<1>15. ASSUME NEW p \in Procs, ReadNext(p) PROVE Typed'
  <2>1. TypeOK'
    BY <1>15 DEF ReadNext, Parses, Return, LocalsOK, Commands, Pcs, Trusting, Listing, Outcomes
  <2>2. \A q \in Procs \ {p} : proc'[q] = proc[q]
    BY <1>15 DEF ReadNext, Parses, Return
  <2>3. LocalsOK(p)'
    BY <1>15 DEF ReadNext, Parses, Return, LocalsOK, Commands, Trusting, Listing
  <2>. QED BY <2>1, <2>2, <2>3 DEF LocalsOK
<1>16. ASSUME NEW p \in Procs, ListDone(p) PROVE Typed'
  <2>1. TypeOK'
    BY <1>16, LocalsTyped DEF ListDone, Return, Pcs, Outcomes
  <2>2. \A q \in Procs \ {p} : proc'[q] = proc[q]
    BY <1>16 DEF ListDone, Return
  <2>3. LocalsOK(p)'
    BY <1>16 DEF ListDone, Return, LocalsOK, Commands, Trusting, Listing
  <2>. QED BY <2>1, <2>2, <2>3 DEF LocalsOK
<1>17. ASSUME NEW p \in Procs, Fault(p) PROVE Typed'
  <2>1. TypeOK'
    BY <1>17, LocalsTyped DEF Fault, Return, Pcs, Outcomes
  <2>2. \A q \in Procs \ {p} : proc'[q] = proc[q]
    BY <1>17 DEF Fault, Return
  <2>3. LocalsOK(p)'
    BY <1>17 DEF Fault, Return, LocalsOK, Commands, Trusting, Listing
  <2>. QED BY <2>1, <2>2, <2>3 DEF LocalsOK
<1>. QED
  BY <1>1, <1>2, <1>3, <1>4, <1>5, <1>6, <1>7, <1>8, <1>9, <1>10, <1>11, <1>12, <1>13, <1>14, <1>15, <1>16, <1>17
     DEF Next, Begin, Step

\* The type invariant of trust_profile, contact and all_contacts.
THEOREM TypeCorrect == Spec => []TypeOK
<1>1. Init => Typed
  BY InitIInv DEF IInv
<1>2. Typed => TypeOK
  BY DEF Typed
<1>. QED BY <1>1, <1>2, TypedStep, PTL DEF Spec

-----------------------------------------------------------------------------
(***************************************************************************)
(* Files only become more complete, so what was read of them stays true.   *)
(***************************************************************************)
Grows(a) == \/ file'[a] = file[a]
            \/ file[a] = Absent /\ file'[a] = Torn
            \/ file[a] = Torn /\ file'[a] \in Profiles

\* A contact file goes from absent to torn to complete and never back, whichever
\* of trust_profile, contact and all_contacts takes the step.
LEMMA FilesGrow ==
  ASSUME IInv, [Next]_vars
  PROVE  (\A a \in Aliases : Grows(a)) /\ (dir => dir') /\ (faulted => faulted')
<1> USE DEF Grows
<1>1. (dir => dir') /\ (faulted => faulted')
  <2>1. CASE UNCHANGED vars
    BY <2>1 DEF vars
  <2>2. ASSUME NEW p \in Procs, Begin(p) \/ Step(p) \/ Fault(p) \/ BlindList(p)
        PROVE  (dir => dir') /\ (faulted => faulted')
    <3>1. CASE Begin(p)
      <4>1. UNCHANGED <<dir, faulted>>
        BY <3>1, Zenon DEF Begin, BeginTrust, Contact, BeginList
      <4>. QED BY <4>1
    <3>2. CASE Step(p)
      BY <3>2 DEF Step, SeeDir, MakeDir, Look, Compare, CreateNew, WriteAll, Settle, OpenDir,
         ReadDir, ReadNext, ListDone
    <3>3. CASE Fault(p) \/ BlindList(p)
      BY <3>3 DEF BlindList, Fault
    <3>. QED BY <2>2, <3>1, <3>2, <3>3
  <2>. QED BY <2>1, <2>2 DEF Next
<1>2. CASE file' # file
  <2>1. PICK p \in Procs : CreateNew(p) \/ WriteAll(p)
    BY <1>2 DEF Next, vars, Begin, Step, BeginTrust, Contact, BeginList, BlindList, SeeDir,
       MakeDir, Look, Compare, Settle, OpenDir, ReadDir, ReadNext, ListDone, Fault
  <2>2. CASE CreateNew(p)
    BY <1>2, <2>2 DEF CreateNew, IInv, Typed, TypeOK
  <2>3. CASE WriteAll(p)
    <3>1. file[proc[p].name] = Torn /\ proc[p].key \in Profiles
      BY <2>3 DEF WriteAll, IInv, Typed, LocalsOK, WritersOK, Trusting
    <3>. QED BY <2>3, <3>1 DEF WriteAll, IInv, Typed, TypeOK
  <2>. QED BY <2>1, <2>2, <2>3
<1>. QED BY <1>1, <1>2

\* The conjuncts of the invariant that are about one process.
AnswerTrue(p) ==
  /\ \A c \in Reported(p) : file[c[1]] = c[2]
  /\ proc[p].pc = "idle" /\ proc[p].out = "mismatch" =>
       file[proc[p].name] \in Profiles \ {proc[p].key}

NoneMissed(p) ==
  proc[p].pc = "idle" =>
    /\ proc[p].out = "ok" => \A a \in proc[p].known : <<a, file[a]>> \in proc[p].view
    /\ proc[p].out = "empty" /\ ~faulted => proc[p].known = {}

\* A process that does not move keeps them.
LEMMA OthersKeep ==
  ASSUME IInv, Typed', \A a \in Aliases : Grows(a), faulted => faulted',
         NEW q \in Procs, proc'[q] = proc[q]
  PROVE  ViewsOK(q)' /\ AnswerTrue(q)' /\ NoneMissed(q)'
<1> USE SentinelAssumption
<1>1. \A a \in Aliases : file[a] \in Profiles => file'[a] = file[a]
  BY DEF Grows
<1>2. proc[q].known \subseteq Aliases /\ proc[q].view \subseteq Aliases \X Profiles
  BY DEF IInv, Typed, TypeOK, Commands
<1>3. ViewsOK(q)'
  <2>1. \A c \in proc[q].view : file'[c[1]] = c[2]
    BY <1>1, <1>2 DEF IInv, ViewsOK
  <2>. QED BY <1>1, <1>2, <2>1 DEF IInv, ViewsOK
<1>4. AnswerTrue(q)'
  <2>1. Reported(q) \subseteq Aliases \X Profiles /\ Reported(q)' = Reported(q)
    BY <1>2 DEF Reported, IInv, Typed, LocalsOK
  <2>2. proc[q].out = "mismatch" => proc[q].name \in Aliases
    BY DEF IInv, Typed, LocalsOK
  <2>. QED BY <1>1, <2>1, <2>2 DEF AnswerTrue, IInv, AnswersStayTrue
<1>5. NoneMissed(q)'
  BY <1>1, <1>2 DEF NoneMissed, IInv, NoPinMissed, ViewsOK
<1>. QED BY <1>3, <1>4, <1>5

\* The process that moves keeps them too: it reports what it has just read.
LEMMA MoverKeeps ==
  ASSUME IInv, Typed', \A a \in Aliases : Grows(a),
         NEW p \in Procs, Begin(p) \/ Step(p) \/ Fault(p) \/ BlindList(p)
  PROVE  ViewsOK(p)' /\ AnswerTrue(p)' /\ NoneMissed(p)'
<1> USE SentinelAssumption DEF IInv, Typed, TypeOK
<1>1. proc[p].known \subseteq Aliases /\ proc[p].view \subseteq Aliases \X Profiles
  BY DEF Commands
<1>2. \A a \in Aliases : file[a] \in Profiles => file'[a] = file[a]
  BY DEF Grows
<1>3. ASSUME NEW a \in Aliases, NEW k \in Profiles, BeginTrust(p, a, k)
      PROVE  ViewsOK(p)' /\ AnswerTrue(p)' /\ NoneMissed(p)'
  <2>1. proc'[p].pc = "seeDir" /\ proc'[p].view = {} /\ proc'[p].known = {}
    BY <1>3 DEF BeginTrust, Idle
  <2>. QED BY <2>1 DEF ViewsOK, AnswerTrue, Reported, NoneMissed
<1>4. ASSUME NEW a \in Aliases, Contact(p, a)
      PROVE  ViewsOK(p)' /\ AnswerTrue(p)' /\ NoneMissed(p)'
  <2>1. /\ proc'[p].pc = "idle" /\ proc'[p].view = {} /\ proc'[p].known = {}
        /\ proc'[p].name = a /\ file' = file
    BY <1>4 DEF Contact, Idle
  <2>2. \/ proc'[p].out = "ok" /\ proc'[p].key = file[a]
        \/ proc'[p].out = "error"
    BY <1>4 DEF Contact, Idle
  <2>. QED BY <2>1, <2>2 DEF ViewsOK, AnswerTrue, Reported, NoneMissed
<1>5. CASE BeginList(p) \/ BlindList(p)
  <2>1. /\ proc'[p].view = {} /\ proc'[p].known = Complete /\ file' = file
        /\ \/ proc'[p].pc = "openDir"
           \/ proc'[p].pc = "idle" /\ proc'[p].out = "empty" /\ (~dir \/ faulted')
    <3>1. CASE BeginList(p)
      <4>1. CASE dir
        BY <3>1, <4>1 DEF BeginList, Idle
      <4>2. CASE ~dir
        BY <3>1, <4>2 DEF BeginList, Idle
      <4>. QED BY <4>1, <4>2
    <3>2. CASE BlindList(p)
      BY <3>2 DEF BlindList, Idle
    <3>. QED BY <1>5, <3>1, <3>2
  <2>2. ~dir => Complete = {}
    BY DEF DirFirst, Complete
  <2>. QED BY <2>1, <2>2 DEF ViewsOK, AnswerTrue, Reported, NoneMissed, Complete
<1>6. CASE /\ proc[p].pc \in Trusting /\ proc'[p].view = proc[p].view
           /\ proc'[p].known = proc[p].known
           /\ proc'[p].pc \in Trusting \/ (proc'[p].pc = "idle" /\ proc'[p].out = "error")
  BY <1>1, <1>2, <1>6 DEF ViewsOK, AnswerTrue, Reported, NoneMissed, Trusting
<1>7. CASE SeeDir(p) \/ MakeDir(p) \/ Look(p) \/ CreateNew(p) \/ WriteAll(p)
  BY <1>6, <1>7 DEF SeeDir, MakeDir, Look, CreateNew, WriteAll, Goto, Return, Commands, Trusting
<1>8. CASE Compare(p) \/ Settle(p)
  <2>1. /\ proc[p].pc \in {"compare", "settle"} /\ proc'[p].pc = "idle" /\ file' = file
        /\ proc'[p].view = proc[p].view /\ proc'[p].known = proc[p].known
        /\ proc'[p].name = proc[p].name /\ proc'[p].key = proc[p].key
    BY <1>8 DEF Compare, Settle, Return, Commands
  <2>2. \/ proc'[p].out = "ok" /\ file[proc[p].name] = proc[p].key
        \/ proc'[p].out = "mismatch" /\ file[proc[p].name] \in Profiles \ {proc[p].key}
        \/ proc'[p].out = "error"
    BY <1>8 DEF Compare, Settle, Return, Commands, Parses, WritersOK
  <2>3. proc[p].name \in Aliases /\ proc[p].known = {}
    BY <2>1 DEF LocalsOK, Trusting
  <2>. QED BY <1>1, <2>1, <2>2, <2>3 DEF ViewsOK, AnswerTrue, Reported, NoneMissed
<1>9. CASE OpenDir(p)
  <2>1. /\ proc'[p].pc = "readDir" /\ proc'[p].todo = Present /\ file' = file
        /\ proc'[p].view = proc[p].view /\ proc'[p].known = proc[p].known
    BY <1>9 DEF OpenDir, Commands
  <2>2. \A a \in proc[p].known : a \in Present
    BY <1>1 DEF Present, ViewsOK
  <2>. QED BY <2>1, <2>2 DEF ViewsOK, AnswerTrue, Reported, NoneMissed
<1>10. CASE ReadDir(p)
  <2>1. /\ proc[p].pc = "readDir" /\ proc'[p].pc = "readNext" /\ file' = file
        /\ proc[p].todo \subseteq proc'[p].todo
        /\ proc'[p].view = proc[p].view /\ proc'[p].known = proc[p].known
    BY <1>10 DEF ReadDir, Commands
  <2>. QED BY <2>1 DEF ViewsOK, AnswerTrue, Reported, NoneMissed
<1>11. CASE ReadNext(p)
  <2>1. proc[p].pc = "readNext" /\ file' = file /\ proc'[p].known = proc[p].known
    BY <1>11 DEF ReadNext, Return, Commands
  <2>2. PICK a \in proc[p].todo :
          \/ /\ proc' = [proc EXCEPT ![p].todo = @ \ {a}, ![p].view = @ \cup {<<a, file[a]>>}]
          \/ Return(p, "error")
    BY <1>11 DEF ReadNext
  <2>3. CASE Return(p, "error")
    <3>1. proc'[p].pc = "idle" /\ proc'[p].out = "error" /\ proc'[p].view = proc[p].view
      BY <2>3 DEF Return, Commands
    <3>. QED BY <2>1, <3>1 DEF ViewsOK, AnswerTrue, Reported, NoneMissed
  <2>4. CASE proc' = [proc EXCEPT ![p].todo = @ \ {a}, ![p].view = @ \cup {<<a, file[a]>>}]
    <3>1. /\ proc'[p].pc = "readNext" /\ proc'[p].todo = proc[p].todo \ {a}
          /\ proc'[p].view = proc[p].view \cup {<<a, file[a]>>}
      BY <2>1, <2>4 DEF Commands
    <3>. QED BY <2>1, <3>1 DEF ViewsOK, AnswerTrue, Reported, NoneMissed
  <2>. QED BY <2>2, <2>3, <2>4
<1>12. CASE ListDone(p)
  <2>1. /\ proc[p].pc = "readNext" /\ proc[p].todo = {} /\ file' = file
        /\ proc'[p].pc = "idle" /\ proc'[p].out = "ok" /\ proc'[p].name = proc[p].name
        /\ proc'[p].view = proc[p].view /\ proc'[p].known = proc[p].known
    BY <1>12 DEF ListDone, Return, Commands
  <2>2. proc[p].name = Absent
    BY <2>1 DEF LocalsOK, Listing
  <2>. QED BY <2>1, <2>2 DEF ViewsOK, AnswerTrue, Reported, NoneMissed
<1>13. CASE Fault(p)
  <2>1. /\ proc'[p].pc = "idle" /\ proc'[p].out = "error" /\ file' = file
        /\ proc'[p].view = proc[p].view /\ proc'[p].known = proc[p].known
    BY <1>13 DEF Fault, Return, Commands
  <2>. QED BY <2>1 DEF ViewsOK, AnswerTrue, Reported, NoneMissed
<1>. QED
  BY <1>3, <1>4, <1>5, <1>7, <1>8, <1>9, <1>10, <1>11, <1>12, <1>13 DEF Begin, Step

\* A command ends.
LEMMA ReturnEffect ==
  ASSUME proc \in [Procs -> Commands], NEW p \in Procs, NEW out, Return(p, out)
  PROVE  proc'[p].pc = "idle"
  BY DEF Return

\* One writer per file, and the directory first.
LEMMA FilesStep ==
  ASSUME IInv, Typed', NEW p \in Procs, Begin(p) \/ Step(p) \/ Fault(p) \/ BlindList(p)
  PROVE  DirFirst' /\ WritersOK' /\ DamageNeedsFault'
<1> USE SentinelAssumption DEF IInv, Typed, TypeOK
<1>0. proc \in [Procs -> Commands]
  OBVIOUS
<1>1. \A q \in Procs \ {p} : proc'[q] = proc[q]
  <2>1. CASE Begin(p) \/ BlindList(p)
    BY <2>1 DEF Begin, BeginTrust, Contact, BeginList, BlindList
  <2>2. CASE Step(p) \/ Fault(p)
    BY <2>2 DEF Step, SeeDir, MakeDir, Look, Compare, CreateNew, WriteAll, Settle, OpenDir,
       ReadDir, ReadNext, ListDone, Fault, Goto, Return
  <2>. QED BY <2>1, <2>2
<1>2. CASE CreateNew(p) /\ file[proc[p].name] = Absent
  <2>1. /\ proc[p].pc = "create" /\ file' = [file EXCEPT ![proc[p].name] = Torn]
        /\ proc' = [proc EXCEPT ![p].pc = "write"] /\ UNCHANGED <<dir, faulted>>
    BY <1>2 DEF CreateNew, Goto
  <2>2. /\ proc[p].name \in Aliases /\ proc'[p].pc = "write" /\ proc'[p].name = proc[p].name
        /\ file'[proc[p].name] = Torn
        /\ \A a \in Aliases \ {proc[p].name} : file'[a] = file[a]
    BY <2>1 DEF LocalsOK, Trusting, Commands
  <2>3. \A q \in Procs \ {p} : proc[q].pc \in {"write", "settle"} => proc[q].name # proc[p].name
    BY <1>2 DEF WritersOK, LocalsOK, Trusting
  <2>4. \A q \in Procs : proc[q].pc \in {"write", "settle"} => proc[q].name \in Aliases
    BY DEF LocalsOK, Trusting
  <2>5. DirFirst'
    BY <1>1, <2>1, <2>2 DEF DirFirst
  <2>6. WritersOK'
    BY <1>1, <2>1, <2>2, <2>3, <2>4 DEF WritersOK
  <2>7. DamageNeedsFault'
    BY <1>1, <2>1, <2>2 DEF DamageNeedsFault
  <2>. QED BY <2>5, <2>6, <2>7
<1>3. CASE WriteAll(p)
  <2>1. /\ proc[p].pc = "write" /\ file' = [file EXCEPT ![proc[p].name] = proc[p].key]
        /\ proc' = [proc EXCEPT ![p].pc = "settle"] /\ UNCHANGED <<dir, faulted>>
    BY <1>3 DEF WriteAll, Goto
  <2>2. /\ proc[p].name \in Aliases /\ proc[p].key \in Profiles
        /\ proc'[p].pc = "settle" /\ proc'[p].name = proc[p].name /\ proc'[p].key = proc[p].key
        /\ file[proc[p].name] = Torn /\ file'[proc[p].name] = proc[p].key
        /\ \A a \in Aliases \ {proc[p].name} : file'[a] = file[a]
    BY <2>1 DEF LocalsOK, Trusting, Commands, WritersOK
  <2>3. \A q \in Procs \ {p} : proc[q].pc = "write" => proc[q].name # proc[p].name
    BY <2>1 DEF WritersOK
  <2>4. \A q \in Procs \ {p} : proc[q].pc = "settle" => proc[q].name # proc[p].name
    BY <2>2 DEF WritersOK, LocalsOK, Trusting
  <2>5. \A q \in Procs : proc[q].pc \in {"write", "settle"} => proc[q].name \in Aliases
    BY DEF LocalsOK, Trusting
  <2>6. DirFirst'
    BY <1>1, <2>1, <2>2 DEF DirFirst
  <2>7. WritersOK'
    BY <1>1, <2>1, <2>2, <2>3, <2>4, <2>5 DEF WritersOK
  <2>8. DamageNeedsFault'
    BY <1>1, <2>1, <2>2, <2>3 DEF DamageNeedsFault
  <2>. QED BY <2>6, <2>7, <2>8
<1>4. CASE /\ file' = file
           /\ proc'[p].pc \notin {"write", "settle"}
           /\ proc[p].pc = "write" => faulted'
           /\ (dir => dir') /\ (faulted => faulted')
           /\ proc'[p].pc \in {"look", "compare", "create"} => dir'
  BY <1>1, <1>4 DEF DirFirst, WritersOK, DamageNeedsFault
<1>5. CASE Begin(p) \/ BlindList(p)
  <2>1. CASE \E a \in Aliases, k \in Profiles : BeginTrust(p, a, k)
    <3>1. PICK a \in Aliases, k \in Profiles : BeginTrust(p, a, k)
      BY <2>1
    <3>2. proc'[p].pc = "seeDir" /\ proc[p].pc = "idle" /\ UNCHANGED <<file, dir, faulted>>
      BY <3>1 DEF BeginTrust, Idle
    <3>. QED BY <1>4, <3>2
  <2>2. CASE \E a \in Aliases : Contact(p, a)
    <3>1. PICK a \in Aliases : Contact(p, a)
      BY <2>2
    <3>2. proc'[p].pc = "idle" /\ proc[p].pc = "idle" /\ UNCHANGED <<file, dir, faulted>>
      BY <3>1 DEF Contact, Idle
    <3>. QED BY <1>4, <3>2
  <2>3. CASE BeginList(p)
    <3>1. /\ proc'[p].pc \in {"idle", "openDir"} /\ proc[p].pc = "idle"
          /\ UNCHANGED <<file, dir, faulted>>
      BY <2>3 DEF BeginList, Idle
    <3>. QED BY <1>4, <3>1
  <2>4. CASE BlindList(p)
    <3>1. proc'[p].pc = "idle" /\ proc[p].pc = "idle" /\ UNCHANGED <<file, dir>> /\ faulted'
      BY <2>4 DEF BlindList, Idle
    <3>. QED BY <1>4, <3>1
  <2>. QED BY <1>5, <2>1, <2>2, <2>3, <2>4 DEF Begin
<1>6. CASE SeeDir(p)
  <2>1. /\ proc'[p].pc = (IF dir THEN "look" ELSE "makeDir") /\ proc[p].pc = "seeDir"
        /\ UNCHANGED <<file, dir, faulted>>
    BY <1>6 DEF SeeDir, Goto
  <2>. QED BY <1>4, <2>1
<1>7. CASE MakeDir(p)
  <2>1. /\ proc'[p].pc \in {"idle", "look"} /\ proc[p].pc = "makeDir" /\ dir' = TRUE
        /\ UNCHANGED <<file, faulted>>
    <3>1. CASE dir
      BY <1>0, <1>7, <3>1, ReturnEffect DEF MakeDir
    <3>2. CASE ~dir
      <4>1. proc' = [proc EXCEPT ![p].pc = "look"] /\ proc[p].pc = "makeDir" /\ dir' = TRUE
        BY <1>7, <3>2 DEF MakeDir, Goto
      <4>2. proc'[p].pc = "look"
        BY <1>0, <4>1 DEF Commands
      <4>. QED BY <1>7, <4>1, <4>2 DEF MakeDir
    <3>. QED BY <3>1, <3>2
  <2>. QED BY <1>4, <2>1
<1>8. CASE Look(p)
  <2>1. /\ proc'[p].pc \in {"create", "compare"} /\ proc[p].pc = "look"
        /\ UNCHANGED <<file, dir, faulted>>
    BY <1>8 DEF Look, Goto
  <2>. QED BY <1>4, <2>1 DEF DirFirst
<1>9. CASE CreateNew(p) /\ file[proc[p].name] # Absent
  <2>1. /\ proc'[p].pc = "idle" /\ proc[p].pc = "create" /\ UNCHANGED <<file, dir, faulted>>
    BY <1>0, <1>9, ReturnEffect DEF CreateNew
  <2>. QED BY <1>4, <2>1
<1>10. CASE Compare(p) \/ Settle(p) \/ ListDone(p)
  <2>1. /\ proc'[p].pc = "idle" /\ proc[p].pc # "write" /\ UNCHANGED <<file, dir, faulted>>
    <3>1. CASE Compare(p)
      BY <3>1 DEF Compare, Return
    <3>2. CASE Settle(p)
      BY <3>2 DEF Settle, Return
    <3>3. CASE ListDone(p)
      BY <3>3 DEF ListDone, Return
    <3>. QED BY <1>10, <3>1, <3>2, <3>3
  <2>. QED BY <1>4, <2>1
<1>11. CASE Fault(p)
  <2>1. proc'[p].pc = "idle" /\ UNCHANGED <<file, dir>> /\ faulted'
    BY <1>11 DEF Fault, Return
  <2>. QED BY <1>4, <2>1
<1>12. CASE OpenDir(p) \/ ReadDir(p)
  <2>1. /\ proc'[p].pc \in {"readDir", "readNext"} /\ proc[p].pc # "write"
        /\ UNCHANGED <<file, dir, faulted>>
    <3> HIDE DEF IInv, Typed, TypeOK
    <3>1. CASE OpenDir(p)
      BY <1>0, <3>1 DEF OpenDir
    <3>2. CASE ReadDir(p)
      BY <1>0, <3>2 DEF ReadDir
    <3>. QED BY <1>12, <3>1, <3>2
  <2>. QED BY <1>4, <2>1
<1>13. CASE ReadNext(p)
  <2>1. /\ proc'[p].pc \in {"idle", "readNext"} /\ proc[p].pc = "readNext"
        /\ UNCHANGED <<file, dir, faulted>>
    <3>1. PICK a \in proc[p].todo :
            IF Parses(file[a])
              THEN proc' = [proc EXCEPT ![p].todo = @ \ {a}, ![p].view = @ \cup {<<a, file[a]>>}]
              ELSE Return(p, "error")
      BY <1>13 DEF ReadNext
    <3>2. proc'[p].pc \in {"idle", "readNext"}
      <4>1. CASE Parses(file[a])
        BY <1>0, <1>13, <3>1, <4>1 DEF ReadNext, Commands
      <4>2. CASE ~Parses(file[a])
        BY <1>0, <3>1, <4>2, ReturnEffect
      <4>. QED BY <4>1, <4>2
    <3>. QED BY <1>13, <3>2 DEF ReadNext
  <2>. QED BY <1>4, <2>1
<1>. QED
  BY <1>2, <1>3, <1>5, <1>6, <1>7, <1>8, <1>9, <1>10, <1>11, <1>12, <1>13 DEF Step

\* No step of a command, and no failing call, breaks the invariant.
LEMMA NextIInv == IInv /\ [Next]_vars => IInv'
<1> SUFFICES ASSUME IInv, [Next]_vars PROVE IInv'
  OBVIOUS
<1>1. Typed'
  BY TypedStep DEF IInv
<1>2. CASE UNCHANGED vars
  BY <1>1, <1>2 DEF vars, IInv, DirFirst, WritersOK, ViewsOK, AnswersStayTrue, Reported, NoPinMissed,
     DamageNeedsFault
<1>3. ASSUME NEW p \in Procs, Begin(p) \/ Step(p) \/ Fault(p) \/ BlindList(p) PROVE IInv'
  <2>1. \A q \in Procs \ {p} : proc'[q] = proc[q]
    <3>1. CASE Begin(p) \/ BlindList(p)
      BY <3>1 DEF Begin, BeginTrust, Contact, BeginList, BlindList, IInv, Typed, TypeOK
    <3>2. CASE Step(p) \/ Fault(p)
      BY <3>2 DEF Step, SeeDir, MakeDir, Look, Compare, CreateNew, WriteAll, Settle, OpenDir,
         ReadDir, ReadNext, ListDone, Fault, Goto, Return, IInv, Typed, TypeOK
    <3>. QED BY <1>3, <3>1, <3>2
  <2>2. \A q \in Procs : ViewsOK(q)' /\ AnswerTrue(q)' /\ NoneMissed(q)'
    BY <1>1, <1>3, <2>1, FilesGrow, OthersKeep, MoverKeeps
  <2>3. AnswersStayTrue' /\ NoPinMissed'
    BY <2>2 DEF AnswersStayTrue, NoPinMissed, AnswerTrue, NoneMissed
  <2>. QED BY <1>1, <1>3, <2>2, <2>3, FilesStep DEF IInv
<1>. QED BY <1>2, <1>3 DEF Next

\* The inductive invariant holds: who may be writing a contact file, and what
\* listings and answers under way rest on.
THEOREM Invariant == Spec => []IInv
  BY InitIInv, NextIInv, PTL DEF Spec

-----------------------------------------------------------------------------
(***************************************************************************)
(* The properties.                                                         *)
(***************************************************************************)

\* What trust, lookup and mismatch have said stays true for good.
THEOREM AnswersRemainTrue == Spec => []AnswersStayTrue
  BY Invariant, PTL DEF IInv

\* A listing that succeeds has every contact pinned before it began.
THEOREM ListingIsComplete == Spec => []NoPinMissed
  BY Invariant, PTL DEF IInv

\* Contact files are damaged by failing calls only.
THEOREM DamageIsAFault == Spec => []DamageNeedsFault
  BY Invariant, PTL DEF IInv

\* The contact files and the commands on them implement the abstract store of
\* pins: a pin is set once, and every report is about pins.
THEOREM PinsImplemented == Spec => ImplementsPins
<1> DEFINE pin  == [a \in Aliases |-> IF file[a] \in Profiles THEN file[a] ELSE Absent]
           told == [p \in Procs |-> Reported(p)]
<1>1. Init => Pins!Init
  BY SentinelAssumption DEF Init, Pins!Init, Idle, Reported
<1>2. IInv /\ IInv' /\ [Next]_vars => [Pins!Next]_(Pins!vars)
  <2> SUFFICES ASSUME IInv, IInv', [Next]_vars PROVE [Pins!Next]_(Pins!vars)
    OBVIOUS
  <2> USE SentinelAssumption
  <2>1. CASE UNCHANGED vars
    BY <2>1 DEF vars, Pins!vars, Reported
  <2>2. ASSUME NEW p \in Procs, WriteAll(p) PROVE [Pins!Next]_(Pins!vars)
    <3>1. /\ proc[p].pc = "write" /\ file' = [file EXCEPT ![proc[p].name] = proc[p].key]
          /\ proc' = [proc EXCEPT ![p].pc = "settle"]
          /\ proc[p].name \in Aliases /\ proc[p].key \in Profiles
          /\ file[proc[p].name] = Torn
      BY <2>2 DEF WriteAll, Goto, IInv, Typed, LocalsOK, WritersOK, Trusting
    <3>2. pin[proc[p].name] = Absent /\ pin' = [pin EXCEPT ![proc[p].name] = proc[p].key]
      BY <3>1 DEF IInv, Typed, TypeOK
    <3>3. told' = told
      <4>1. \A q \in Procs : proc'[q] = proc[q] \/ q = p
        BY <3>1 DEF IInv, Typed, TypeOK
      <4>2. Reported(p) = {} /\ Reported(p)' = {}
        BY <3>1 DEF IInv, Typed, TypeOK, Commands, Reported
      <4>3. \A q \in Procs : Reported(q)' = Reported(q)
        BY <4>1, <4>2 DEF Reported
      <4>. QED BY <4>3
    <3>4. \E a \in Aliases : /\ pin[a] = Absent /\ told' = told
                             /\ \E k \in Profiles : pin' = [pin EXCEPT ![a] = k]
      BY <3>1, <3>2, <3>3
    <3>. QED BY <3>4 DEF Pins!Next, Pins!Pin
  <2>3. ASSUME NEW p \in Procs, Begin(p) \/ Step(p) \/ Fault(p) \/ BlindList(p), ~WriteAll(p)
        PROVE  [Pins!Next]_(Pins!vars)
    <3>1. \A a \in Aliases : file'[a] = file[a] \/ (file[a] = Absent /\ file'[a] = Torn)
      <4>1. CASE CreateNew(p)
        BY <4>1 DEF CreateNew, IInv, Typed, TypeOK
      <4>2. CASE ~CreateNew(p)
        BY <2>3, <4>2 DEF Begin, Step, BeginTrust, Contact, BeginList, BlindList, SeeDir, MakeDir,
           Look, Compare, Settle, OpenDir, ReadDir, ReadNext, ListDone, Fault
      <4>. QED BY <4>1, <4>2
    <3>2. pin' = pin
      BY <3>1
    <3>3. \A q \in Procs \ {p} : proc'[q] = proc[q]
      <4>1. CASE Begin(p) \/ BlindList(p)
        BY <4>1 DEF Begin, BeginTrust, Contact, BeginList, BlindList, IInv, Typed, TypeOK
      <4>2. CASE Step(p) \/ Fault(p)
        BY <4>2 DEF Step, SeeDir, MakeDir, Look, Compare, CreateNew, WriteAll, Settle, OpenDir,
           ReadDir, ReadNext, ListDone, Fault, Goto, Return, IInv, Typed, TypeOK
      <4>. QED BY <2>3, <4>1, <4>2
    <3>4. told' = [told EXCEPT ![p] = Reported(p)']
      BY <3>3 DEF Reported
    <3>5. Reported(p)' \subseteq Pins!Pinned
      <4>1. Reported(p)' \subseteq Aliases \X Profiles
        BY DEF IInv, Typed, TypeOK, LocalsOK, Commands, Reported
      <4>2. \A c \in Reported(p)' : file'[c[1]] = c[2]
        BY DEF IInv, AnswersStayTrue
      <4>3. \A c \in Reported(p)' : c[1] \in Aliases /\ pin[c[1]] = c[2] /\ pin[c[1]] # Absent
        BY <3>2, <4>1, <4>2
      <4>4. ASSUME NEW c \in Reported(p)' PROVE c \in Pins!Pinned
        <5>1. c = <<c[1], pin[c[1]]>> /\ c[1] \in {b \in Aliases : pin[b] # Absent}
          BY <4>1, <4>3
        <5>. QED BY <5>1 DEF Pins!Pinned
      <4>. QED BY <4>4
    <3>6. Pins!Tell(p)
      BY <3>2, <3>4, <3>5 DEF Pins!Tell
    <3>. QED BY <3>6 DEF Pins!Next
  <2>. QED BY <2>1, <2>2, <2>3 DEF Next, Step
<1>. QED BY <1>1, <1>2, Invariant, PTL DEF Spec, ImplementsPins, Pins!Spec
=============================================================================
