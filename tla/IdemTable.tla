----------------------------- MODULE IdemTable -----------------------------
(***************************************************************************)
(* Idempotweet: the table, and what lib/db.ts does with it.  An idem is a  *)
(* row; only its key, its created_at and whether it is from the seed       *)
(* script matter.  The two route handlers that use the table each make     *)
(* sure that it is there before their first query.                         *)
(***************************************************************************)
EXTENDS Naturals, Sequences, SequencesExt

CONSTANT Seed  \* the idems of the seed script: a function to their created_at

ASSUME SeedAssumption == IsFiniteSet(DOMAIN Seed) /\ \A i \in DOMAIN Seed : Seed[i] \in Nat

VARIABLES
  stored,      \* the idems there are, as a function to created_at
  initialized  \* the handlers, "feed" and "post", whose module variable is true

table == <<stored, initialized>>

\* The script has been run, or it has not, or it failed between two batches,
\* each of which is a statement of its own.
TableInit ==
  /\ \E inserted \in SUBSET DOMAIN Seed : stored = [i \in inserted |-> Seed[i]]
  /\ initialized = {}

\* initializeDatabase: every statement says IF NOT EXISTS, and no row is lost.
InitializeDatabase(handler) ==
  /\ handler \notin initialized
  /\ initialized' = initialized \cup {handler}
  /\ UNCHANGED stored

Store(idem, time) ==
  stored' = [i \in DOMAIN stored \cup {idem} |-> IF i \in DOMAIN stored THEN stored[i] ELSE time]

\* WHERE is_seeded = false, unless the seeded ones are included.
Visible(includeSeeded) == IF includeSeeded THEN DOMAIN stored ELSE DOMAIN stored \ DOMAIN Seed

\* What ORDER BY created_at DESC may return: the order of equals is up to each query.
Rows(includeSeeded) ==
  LET visible == Visible(includeSeeded) IN
  {rows \in [1..Cardinality(visible) -> visible] :
     /\ IsInjective(rows)
     /\ \A i, j \in DOMAIN rows : i < j => stored[rows[i]] >= stored[rows[j]]}

Count(includeSeeded) == Cardinality(Visible(includeSeeded))
=============================================================================
