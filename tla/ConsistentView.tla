--------------------------- MODULE ConsistentView ---------------------------
(***************************************************************************)
(* What an app may rely on of the realtime database, for one node.  The    *)
(* node goes through the states of a log, one write after the other.  The  *)
(* app's observers see one of these states, never an older one than they   *)
(* saw, under the app's own pending writes: they hear a write when it is   *)
(* made, and lose sight of it, when it completes, only if it was denied or *)
(* what they see of the server has it.                                     *)
(*                                                                         *)
(* A pending write may be committed more than once: a client that does not *)
(* hear the answer sends it again.                                         *)
(***************************************************************************)
EXTENDS DatabaseValues

VARIABLES
  log,       \* the states of the node, and the number of the write that made each
  pending,   \* the app's writes that have not completed
  observed,  \* the app has an observer
  seen,      \* the place in the log the observers have seen, 0 for none yet
  shown      \* what the observers heard last

vars == <<log, pending, observed, seen, shown>>

Init ==
  /\ log = <<[node |-> EmptyNode, by |-> 0]>>
  /\ pending = <<>>
  /\ observed = FALSE /\ seen = 0 /\ shown = Nothing

(* Nothing is shown before all of the node is known, from the server or    *)
(* from a pending write of the whole node.                                 *)
View(l, p, o, s) ==
  IF o /\ (s > 0 \/ \E i \in 1..Len(p) : p[i].kind = "set")
  THEN Under(IF s > 0 THEN l[s].node ELSE EmptyNode, p)
  ELSE Nothing

Write(w) ==
  /\ pending' = Append(pending, w)
  /\ UNCHANGED <<log, observed, seen>>

(* The server applies a pending write, or another client's.                *)
Commit(w) ==
  /\ log' = Append(log, [node |-> ApplyWrite(Last(log).node, w), by |-> w.id])
  /\ UNCHANGED <<pending, observed, seen>>

CommitForeign(node) ==
  /\ log' = Append(log, [node |-> node, by |-> 0])
  /\ UNCHANGED <<pending, observed, seen>>

Observe ==
  /\ ~observed /\ observed' = TRUE
  /\ UNCHANGED <<log, pending, seen>>

(* The observers move on in the log, and the oldest writes complete.       *)
Sync(s, n) ==
  /\ observed \/ s = seen
  /\ seen' = s
  /\ pending' = SubSeq(pending, n + 1, Len(pending))
  /\ observed => \A i \in 1..n, j \in 1..Len(log) : log[j].by = pending[i].id => j <= s
  /\ UNCHANGED <<log, observed>>

(* The app's process ends, with its observers and its pending writes.      *)
End ==
  /\ pending' = <<>> /\ observed' = FALSE /\ seen' = 0
  /\ UNCHANGED log

Next ==
  /\ \/ \E id \in 1..MaxWrites : \E w \in Writes(id) : Write(w)
     \/ \E i \in 1..Len(pending) : Commit(pending[i])
     \/ \E node \in Node : CommitForeign(node)
     \/ Observe
     \/ \E s \in seen..Len(log), n \in 0..Len(pending) : Sync(s, n)
     \/ End
  /\ shown' = View(log', pending', observed', seen')

Spec == Init /\ [][Next]_vars
=============================================================================
