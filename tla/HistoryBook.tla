----------------------------- MODULE HistoryBook -----------------------------
(***************************************************************************)
(* What the history of rust-lib/src/history.rs promises of one account: a  *)
(* book that rows are written into and never taken out of, each going      *)
(* forward only, and a caller told "recorded" finds its row there ever     *)
(* after, whatever becomes of the process, the keys or the files.          *)
(***************************************************************************)
CONSTANT Rows

VARIABLES
    book,   \* row -> how far it got
    told    \* rows whose recording a caller was told of

bookVars == <<book, told>>

BookInit ==
    /\ book = [r \in Rows |-> "absent"]
    /\ told = {}

Advance(r, from, to) ==
    /\ book[r] = from
    /\ book' = [book EXCEPT ![r] = to]
    /\ UNCHANGED told

Tell(r) ==
    /\ book[r] # "absent"
    /\ told' = told \cup {r}
    /\ UNCHANGED book

BookNext ==
    \E r \in Rows :
        \/ Advance(r, "absent", "unknown")
        \/ Advance(r, "unknown", "pending")
        \/ Advance(r, "pending", "settled")
        \/ Tell(r)

BookSpec == BookInit /\ [][BookNext]_bookVars
=============================================================================
