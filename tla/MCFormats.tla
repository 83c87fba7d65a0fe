----------------------------- MODULE MCFormats -----------------------------
(***************************************************************************)
(* The formats for TLC: the lengths of a letter, the text files of keys,   *)
(* and the roots of contacts.  They share nothing; one behaviour is about  *)
(* one of them.                                                            *)
(***************************************************************************)
EXTENDS Sizes, KeyFiles, ContactRoots

\* Any function will do for the hash here, if it depends on both keys.
MCHash == [k \in RawKeys \X RawKeys |->
             [i \in 1 .. KeyLen |-> (3 * k[1][i] + k[2][i] + 7) % 16]]

\* Digits with and without a second case.
MCDrawn  == {[i \in 1 .. KeyLen |-> 10], [i \in 1 .. KeyLen |-> 1]}
MCTokens == {"LF", "CR", "?", "x25519=", "sealed-unlock-v1",
             "a", "A", "1"}

\* On either side of every boundary: a body that exactly fills a bucket, its
\* neighbours, and the limits.
MCBodyLens == {0, 1, MAX_BODY_LEN - 1, MAX_BODY_LEN, MAX_BODY_LEN + 1}
                \cup {n - OUTER_OVERHEAD - INTERNAL_FIXED_LEN + d : n \in Powers \ {256}, d \in {-1, 0, 1}}
MCBlobLens == {0, 71, 72, 511, 513, MAX_BLOB_LEN - 1, MAX_BLOB_LEN + 1} \cup Powers

\* Claims around what fits a blob, with the signature and without, and some
\* that no body can have; 2^30 stands for every greater one.
MCClaims == {0, 1, MAX_BODY_LEN, MAX_BODY_LEN + 1, 1073741824}
              \cup {n - OUTER_OVERHEAD - INTERNAL_FIXED_LEN + d :
                      n \in {512, 1024, 1048576, 2097152}, d \in {-1, 0, 1, 63, 64, 65}}

\* Two persons, each with any of two keys for each purpose, and anybody's mixture.
MCNumbers == {1, 2}

MCInit == Init /\ FileInit /\ RootsInit
MCNext == \/ Next /\ whole = <<>> /\ derived = {} /\ UNCHANGED <<fileVars, derived>>
          \/ FileNext /\ pc = "idle" /\ derived = {} /\ UNCHANGED <<vars, derived>>
          \/ RootsNext /\ pc = "idle" /\ whole = <<>> /\ UNCHANGED <<vars, fileVars>>
MCSpec == MCInit /\ [][MCNext]_<<vars, fileVars, derived>>
=============================================================================
