------------------------------ MODULE MCClient ------------------------------
(***************************************************************************)
(* What a member works with, one part at a time: the mailbox pages of the  *)
(* ledger, the outbox of sends, the log of captures, and the registry of   *)
(* the daemon with the memory commands that go through it, by two callers  *)
(* and one server or by one caller and two servers.  Of the three passes   *)
(* over the log two are open at a time.                                    *)
(***************************************************************************)
EXTENDS MCMailbox, SendOutbox, Pending, MemoryCommands

CONSTANTS
  home, work, us, them, port1, port2, ours, theirs, c1, c2, m1, m2

MCSeeds ==
  [id \in {ours, theirs} |->
     [store |-> home, source |-> IF id = ours THEN us ELSE them]]

Ask(tool, via, source, port, fact, other, items) ==
  [tool |-> tool, via |-> via, store |-> home, source |-> source,
   port |-> port, fact |-> fact, other |-> other, items |-> items]

From(source) == [source |-> source]

(* A new fact of each kind, what changes an old one, and the deletion of a *)
(* fact that was just added.                                               *)
MCRequests ==
  {Ask("add", "cli", us, None, None, None, <<From(None)>>),
   Ask("add", "mcp", us, port1, None, None, <<From(None), From(them)>>),
   Ask("add", "mcp", None, port1, None, None, <<From(us), From(None)>>),
   Ask("supersede", "cli", None, None, ours, theirs, <<>>),
   Ask("supersede", "mcp", None, port1, ours, theirs, <<>>),
   Ask("edit", "cli", None, None, ours, None, <<>>),
   Ask("archive", "mcp", None, port1, ours, None, <<>>),
   Ask("archive", "local", us, None, ours, None, <<>>),
   Ask("pin", "mcp", None, port1, theirs, None, <<>>),
   Ask("delete", "local", us, None, <<c1, 1>>, None, <<>>)}

(* What may, or must, go to a server.                                      *)
Routed == {r \in MCRequests : r.via = "cli" \/ r.tool = "add"}

MCOrders ==
  {[start |-> TRUE, store |-> home, port |-> None, bound |-> None],
   [start |-> TRUE, store |-> home, port |-> None, bound |-> us],
   [start |-> TRUE, store |-> work, port |-> port1, bound |-> None],
   [start |-> FALSE]}

MCForeign ==
  {[store |-> home, port |-> port1, bound |-> us],
   [store |-> work, port |-> port1, bound |-> None]}

VARIABLE scene

clientVars ==
  <<vars, outboxVars, reviewVars, commandVars, scene>>

ClientInit ==
  /\ Init
  /\ OutboxInit
  /\ ReviewInit
  /\ CommandsInit
  /\ scene \in {"mailbox", "outbox", "review", "calls", "daemons"}
  /\ scene # "mailbox" => next_seq = 0

ClientNext ==
  \/ /\ scene = "mailbox"
     /\ Next
     /\ UNCHANGED <<outboxVars, reviewVars, commandVars, scene>>
  \/ /\ scene = "outbox"
     /\ OutboxNext
     /\ UNCHANGED <<vars, reviewVars, commandVars, scene>>
  \/ /\ scene = "review"
     /\ ReviewNext
     /\ {p \in Passes : passes'[p].pc \in {"ready", "over"}} # {}
     /\ UNCHANGED <<vars, outboxVars, commandVars, scene>>
  \/ /\ scene \in {"calls", "daemons"}
     /\ CommandsNext
     /\ scene = "calls" => managers'[m2] = managers[m2] /\ DOMAIN servers' \subseteq {1}
     /\ scene = "daemons" =>
          /\ calls'[c2] = calls[c2]
          /\ calls'[c1].request \in Routed \cup {None}
     /\ UNCHANGED <<vars, outboxVars, reviewVars, scene>>

ClientSpec == ClientInit /\ [][ClientNext]_clientVars
=============================================================================
