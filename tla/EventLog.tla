------------------------------ MODULE EventLog ------------------------------
(***************************************************************************)
(* The GameEventLog rows of one game and the transactions of recordEvent   *)
(* that add to it: a transaction reads the greatest committed seq and      *)
(* inserts the next one.  PostgreSQL runs them at READ COMMITTED, and the  *)
(* unique index on (gameId, seq) makes an insert wait for an uncommitted   *)
(* row of the same number and fail on a committed one.                     *)
(***************************************************************************)
EXTENDS Integers, FiniteSets

CONSTANTS
  Writers,    \* recordEvent calls under way at the same time
  MaxEvents   \* bound of the model: rows of the game

ASSUME MaxEventsAssumption == MaxEvents \in Nat

VARIABLES
  rows,     \* committed rows, <<seq, the writer>>
  writing,  \* the step of each transaction
  seq       \* the number a transaction has computed

logVars == <<rows, writing, seq>>

Seqs == {r[1] : r \in rows}
MaxSeq == CHOOSE n \in 0..MaxEvents : n \in Seqs \cup {0} /\ \A m \in Seqs : m <= n

LogInit ==
  /\ rows = {}
  /\ writing = [w \in Writers |-> "idle"]
  /\ seq = [w \in Writers |-> 0]

Goto(w, step) == writing' = [writing EXCEPT ![w] = step]

\* aggregate _max
ReadMax(w) ==
  /\ writing[w] = "idle"
  /\ MaxSeq < MaxEvents
  /\ seq' = [seq EXCEPT ![w] = MaxSeq + 1]
  /\ Goto(w, "numbered")
  /\ UNCHANGED rows

\* The index is checked, but the row of an open transaction is not seen.
InsertUnchecked(w) ==
  /\ writing[w] = "numbered"
  /\ Goto(w, "inserted")
  /\ UNCHANGED <<rows, seq>>

\* create
Insert(w) ==
  /\ writing[w] = "numbered"
  /\ \A v \in Writers : writing[v] = "inserted" => seq[v] # seq[w]
  /\ Goto(w, IF seq[w] \in Seqs THEN "failed" ELSE "inserted")
  /\ UNCHANGED <<rows, seq>>

Commit(w) ==
  /\ writing[w] = "inserted"
  /\ rows' = rows \cup {<<seq[w], w>>}
  /\ Goto(w, "idle")
  /\ UNCHANGED seq

\* The connection is lost, or the unique index made the insert fail.
RollBack(w) ==
  /\ writing[w] \in {"numbered", "inserted", "failed"}
  /\ Goto(w, "idle")
  /\ UNCHANGED <<rows, seq>>

LogNext ==
  \E w \in Writers : ReadMax(w) \/ Insert(w) \/ Commit(w) \/ RollBack(w)

LogSpec == LogInit /\ [][LogNext]_logVars

-----------------------------------------------------------------------------
(* Properties.                                                             *)

\* Rows and transactions keep their types.
LogTypeOK ==
  /\ rows \subseteq (1..MaxEvents) \X Writers
  /\ writing \in [Writers -> {"idle", "numbered", "inserted", "failed"}]
  /\ seq \in [Writers -> 0..MaxEvents]

\* The rows of a game are numbered 1, 2, ..., n, each number once, however
\* transactions overlap and whichever are rolled back.
TimelineIsGapless ==
  /\ \E n \in 0..MaxEvents : Seqs = 1..n
  /\ \A r, s \in rows : r[1] = s[1] => r = s

\* A row, once committed, stays, and a later one has a greater number: an
\* event read by getTimeline never moves.
AppendStep ==
  /\ rows \subseteq rows'
  /\ \A r \in rows' \ rows, s \in rows : r[1] > s[1]
TimelineIsAppended == [][AppendStep]_logVars
=============================================================================
