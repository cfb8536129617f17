------------------------------- MODULE EventLog -------------------------------
(***************************************************************************)
(* What a backend is promised when it hands events to the driver: they are *)
(* owed to the host in the order of admission; the host receives them in   *)
(* that order, each once, with one terminal for a run; an event stops      *)
(* being owed only when the host has it, when it cannot be encoded, or     *)
(* when it is the terminal of a run and is withdrawn; and nothing of a run *)
(* is owed after its terminal.                                             *)
(***************************************************************************)
EXTENDS Integers, Sequences, SequencesExt

CONSTANTS TerminalKinds,   \* the kinds of event that end a run
          Refusable,       \* the bodies that cannot be encoded
          RunIds           \* the runs an event may belong to

VARIABLES owed,            \* events admitted and not settled, in order
          log,             \* events the host has, in the order of receipt
          withdrawn        \* runs whose terminal was withdrawn, perhaps too late

logVars == <<owed, log, withdrawn>>

Has(events, id) == \E i \in DOMAIN events : events[i].id = id
Ends(e, run) == e.kind \in TerminalKinds /\ e.run = run
Over(events, run) == \E i \in DOMAIN events : Ends(events[i], run)
Unreceived ==
  FoldLeft(LAMBDA new, e : IF Has(log \o new, e.id) THEN new ELSE Append(new, e), << >>, owed)

LogInit == owed = << >> /\ log = << >> /\ withdrawn = {}

(* New events: of no run that is over, or about to be.                     *)
Owe ==
  /\ IsPrefix(owed, owed')
  /\ \A i \in (Len(owed) + 1)..Len(owed') :
       owed'[i].run \in RunIds \ withdrawn => ~Over(log \o SubSeq(owed', 1, i - 1), owed'[i].run)
  /\ UNCHANGED <<log, withdrawn>>

(* The host takes the next ones; those it has may be settled.              *)
Take ==
  /\ IsPrefix(log, log') /\ IsPrefix(log', log \o Unreceived)
  /\ \A i \in (Len(log) + 1)..Len(log') : log'[i].run \in RunIds =>
       ~Over(SubSeq(log', 1, i - 1), log'[i].run)
  /\ \E n \in 0..Len(owed) :
       /\ owed' = SubSeq(owed, n + 1, Len(owed))
       /\ \A i \in 1..n : Has(log', owed[i].id)
  /\ UNCHANGED withdrawn

Refuse ==
  /\ \E i \in DOMAIN owed : owed[i].body \in Refusable /\ owed' = RemoveAt(owed, i)
  /\ UNCHANGED <<log, withdrawn>>

Withdraw ==
  /\ \E run \in RunIds :
       /\ withdrawn' = withdrawn \cup {run}
       /\ owed' = IF owed # << >> /\ Ends(Last(owed), run) THEN Front(owed) ELSE owed
  /\ UNCHANGED log

LogNext == Owe \/ Take \/ Refuse \/ Withdraw
LogSpec == LogInit /\ [][LogNext]_logVars
=============================================================================
