----------------------------- MODULE PowerLoss -----------------------------
(***************************************************************************)
(* The identity store when the machine loses power.  `write_new_private`   *)
(* syncs each file (storage.rs:187) but never the directory it created the *)
(* file in, and `fs::remove_file` is not followed by a sync either.  So    *)
(* the content of a file that has been synced is on the disk, while every  *)
(* entry of a directory, made or removed, is there or not independently of *)
(* the others.  What is found after the reboot is then durable.            *)
(***************************************************************************)
EXTENDS IdentityStore

CONSTANT MaxCuts    \* a bound on the power losses, for TLC

ASSUME CutsAssumption == MaxCuts \in Nat

VARIABLES synced,   \* the <<file, content>> pairs whose content is on the disk
          cuts      \* power losses so far

powerVars == <<file, dirs, private, drawn, proc, issued, loaded, exported, faulted, synced, cuts>>

\* A slip of Synced: only the last of the three files is synced.
SyncedLast(p) == IF Issue(p) THEN {<<proc[p].at, proc[p].key>>} ELSE {}

\* A complete file is synced before the next one is begun.
Synced(p) == IF Settle(p) \/ Issue(p) THEN {<<proc[p].at, proc[p].key>>} ELSE {}

Run(p) ==
  /\ Begin(p) \/ Step(p) \/ Export(p) \/ SystemError(p) \/ Crash(p)
  /\ synced' = synced \cup Synced(p)
  /\ UNCHANGED cuts

\* What may be found under f after a power loss: nothing, if its entry was not
\* on the disk; content that was synced, also when f has been removed since;
\* or, if f was not synced, all or a part of its content.
Remains(f) == {Absent} \cup {c \in Draws : <<f, c>> \in synced}
                \cup (IF file[f] # Absent /\ <<f, file[f]>> \notin synced
                        THEN {Torn, file[f]} ELSE {})

\* Which directories may be left: without the root there is none of them.
DirsLeft == {left \in SUBSET dirs : left # {} => "root" \in left}

\* Power is lost while any number of commands is at any point, and comes back:
\* what callers were told before is history.
PowerCut ==
  /\ cuts < MaxCuts
  /\ cuts' = cuts + 1
  /\ dirs' \in DirsLeft
  /\ private' = private \cap dirs'
  /\ file' \in [Files -> UNION {Remains(f) : f \in Files}]
  /\ \A f \in Files : file'[f] \in Remains(f)
  /\ "identity" \notin dirs' => file'[Pub] = Absent /\ file'[Enc] = Absent
  /\ synced' = {s \in Files \X Draws : file'[s[1]] = s[2]}
  /\ proc' = [p \in Procs |-> Idle]
  /\ issued' = {} /\ loaded' = {} /\ exported' = {}
  /\ faulted' = TRUE
  /\ UNCHANGED drawn

PowerInit == Init /\ synced = {} /\ cuts = 0

PowerNext == (\E p \in Procs : Run(p)) \/ PowerCut

PowerSpec == PowerInit /\ [][PowerNext]_powerVars

-----------------------------------------------------------------------------
\* A power loss may take any file of an identity that `initialize` has issued,
\* but leaves its unlock key and its private identity neither torn nor of
\* another draw, so that an attempt to load finds the identity or fails.  The
\* public profile is not torn either; but it may be gone, and one that another
\* draw had completed and rolled back may be in its place (storage.rs:75-80, 187).
IssuedKeysWholeOrGone ==
  [][cuts' # cuts =>
       \A i \in issued :
         /\ file'[Enc] \in {i.draw, Absent}
         /\ file'[i.path] \in {i.draw, Absent}
         /\ file'[Pub] \in {Absent} \cup {d \in Draws : <<Pub, d>> \in synced}]_powerVars
=============================================================================
