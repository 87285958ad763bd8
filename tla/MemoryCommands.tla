--------------------------- MODULE MemoryCommands ---------------------------
(***************************************************************************)
(* The memory commands of `aidememo`, the daemon they may go through, and  *)
(* the MCP tools that daemon runs.                                         *)
(*                                                                         *)
(* A command that has an MCP counterpart looks into                        *)
(* ~/.aidememo/daemon.json; if the daemon registered there is for the      *)
(* command's store and answers /health, the command is one POST to it, and *)
(* otherwise the command opens the store itself.  An MCP client posts to   *)
(* the port it was configured with, and where bearer tokens are bound to a *)
(* source the server makes its calls that source's.  Daemons are started   *)
(* and stopped by commands too, and other servers by hand.                 *)
(*                                                                         *)
(* A call of the embedded store is one step here; MemorySync and Recall    *)
(* model what happens inside one.  The facts that are added have contents  *)
(* of their own.  Entities, ranking and what a reply shows beyond success  *)
(* are left out.                                                           *)
(***************************************************************************)
EXTENDS Naturals, Sequences, FiniteSets

CONSTANTS
  Stores,
  SourceIds,
  Ports,
  Seeds,       \* the facts there are before, as id :> [store, source]
  Calls,
  Requests,    \* what a call may ask
  Managers,
  Orders,      \* what a manager may do: start a daemon or stop it
  Foreign,     \* the servers somebody may run by hand
  MaxServers,  \* bound: server processes
  None

VARIABLES
  registry,  \* daemon.json, or None
  servers,   \* the server processes, the n-th with process id n
  memory,    \* id :> record; new ids are <<call, item>>
  calls,
  managers

FactIds == DOMAIN Seeds \cup (Calls \X Nat)

(* Seeds are facts that no call adds.                                      *)
ASSUME SeedsAssumption ==
  /\ DOMAIN Seeds \cap (Calls \X Nat) = {}
  /\ \A id \in DOMAIN Seeds :
       Seeds[id].store \in Stores /\ Seeds[id].source \in SourceIds \cup {None}

ASSUME NoneApart == None \notin Calls \cup {"done", "failed", "nothing"}

Tools == {"add", "supersede", "edit", "archive", "pin", "delete"}

RequestRecords ==
  [tool : Tools, via : {"cli", "mcp", "local"}, store : Stores,
   source : SourceIds \cup {None}, port : Ports \cup {None},
   fact : FactIds \cup {None}, other : FactIds \cup {None},
   items : Seq([source : SourceIds \cup {None}])]

ServerOrders ==
  [store : Stores, port : Ports, bound : SourceIds \cup {None}]

ASSUME CommandsAssumption ==
  /\ Requests \subseteq RequestRecords
  /\ Foreign \subseteq ServerOrders
  /\ \A order \in Orders : order.start =>
       /\ order.store \in Stores
       /\ order.port \in Ports \cup {None}
       /\ order.bound \in SourceIds \cup {None}

Registrations == [port : Ports, pid : Nat, store : Stores]

ServerRecords ==
  [store : Stores, port : Ports, bound : SourceIds \cup {None},
   state : {"starting", "serving", "dead"}]

FactRecords ==
  [store : Stores, source : SourceIds \cup {None}, by : Calls \cup {None},
   tier : {"hot", "cold", "gone"}, next : FactIds \cup {None},
   pinned : BOOLEAN, text : SUBSET Calls]

CallRecords ==
  [pc : {"unissued", "looking", "probing", "sending", "checking",
         "checking both", "comparing", "finding", "writing", "adding",
         "confirming", "answering", "over"},
   request : Requests \cup {None}, port : Ports \cup {None},
   host : Nat \cup {None}, source : SourceIds \cup {None},
   todo : Seq(FactIds \cup {None}), seen : SUBSET Calls, writes : Nat,
   outcome : {"done", "failed", "nothing", None},
   told : {"done", "failed", "nothing", None}]

ManagerRecords ==
  [pc : {"idle", "probing", "clearing", "spawning", "waiting", "killing",
         "deleting", "over"},
   store : Stores \cup {None}, port : Ports \cup {None},
   bound : SourceIds \cup {None}, pid : Nat,
   known : Registrations \cup {None}]

commandVars == <<registry, servers, memory, calls, managers>>

Fact(store, source, by) ==
  [store |-> store, source |-> source, by |-> by, tier |-> "hot",
   next |-> None, pinned |-> FALSE, text |-> {}]

Unissued == [pc |-> "unissued", request |-> None, port |-> None, host |-> None,
             source |-> None, todo |-> <<>>, seen |-> {}, writes |-> 0,
             outcome |-> None, told |-> None]

IdleManager == [pc |-> "idle", store |-> None, port |-> None, bound |-> None,
                pid |-> 0, known |-> None]

CommandsInit ==
  /\ registry = None
  /\ servers = <<>>
  /\ memory = [id \in DOMAIN Seeds |->
                Fact(Seeds[id].store, Seeds[id].source, None)]
  /\ calls = [c \in Calls |-> Unissued]
  /\ managers = [m \in Managers |-> IdleManager]

-----------------------------------------------------------------------------
(* Servers *)

Pids == DOMAIN servers

Serving(port) ==
  {pid \in Pids : servers[pid].port = port /\ servers[pid].state = "serving"}

(* /health answers a caller without a token; where tokens are required it  *)
(* is a 401.                                                               *)
Healthy(port) == \E pid \in Serving(port) : servers[pid].bound = None

Spawned(store, port, bound) ==
  servers' = Append(servers, [store |-> store, port |-> port, bound |-> bound,
                              state |-> "starting"])

(* run_mcp_serve: a server whose store does not open or whose port is      *)
(* taken ends.                                                             *)
Listen(pid) ==
  /\ servers[pid].state = "starting"
  /\ \E state \in {"serving", "dead"} :
       /\ state = "serving" => Serving(servers[pid].port) = {}
       /\ servers' = [servers EXCEPT ![pid].state = state]
  /\ UNCHANGED <<registry, memory, calls, managers>>

Crash(pid) ==
  /\ servers[pid].state = "serving"
  /\ servers' = [servers EXCEPT ![pid].state = "dead"]
  /\ UNCHANGED <<registry, memory, calls, managers>>

RunServer(server) ==
  /\ Len(servers) < MaxServers
  /\ Spawned(server.store, server.port, server.bound)
  /\ UNCHANGED <<registry, memory, calls, managers>>

-----------------------------------------------------------------------------
(* aidememo daemon start, stop *)

GoOn(m, pc) == managers' = [managers EXCEPT ![m].pc = pc]

StartLook(m, order) ==
  LET store == order.store
      start(pc) == managers' = [managers EXCEPT ![m] =
                     [IdleManager EXCEPT !.pc = pc, !.store = store,
                                  !.port = order.port, !.bound = order.bound,
                                  !.known = registry]]
  IN  /\ managers[m].pc = "idle"
      /\ \/ registry = None /\ start("spawning")
         \/ /\ registry # None /\ registry.store = store
            /\ start("probing")
         \/ /\ registry # None /\ registry.store # store
            /\ start("clearing")
      /\ UNCHANGED <<registry, servers, memory, calls>>

(* Already running; or stale, as it also seems to be when it is too busy   *)
(* to answer in half a second.                                             *)
StartProbe(m) ==
  /\ managers[m].pc = "probing"
  /\ \/ Healthy(managers[m].known.port) /\ GoOn(m, "over")
     \/ GoOn(m, "clearing")
  /\ UNCHANGED <<registry, servers, memory, calls>>

StartClear(m) ==
  /\ managers[m].pc = "clearing"
  /\ registry' = None
  /\ GoOn(m, "spawning")
  /\ UNCHANGED <<servers, memory, calls>>

(* On the port asked for, or on one that is free; with the tokens that the *)
(* environment names, if it does.                                          *)
StartSpawn(m) ==
  LET manager == managers[m]
  IN  /\ manager.pc = "spawning"
      /\ Len(servers) < MaxServers
      /\ \E port \in Ports :
           /\ IF manager.port = None THEN Serving(port) = {}
              ELSE port = manager.port
           /\ Spawned(manager.store, port, manager.bound)
           /\ managers' = [managers EXCEPT ![m] =
                [manager EXCEPT !.pc = "waiting", !.port = port,
                                !.pid = Len(servers) + 1]]
      /\ UNCHANGED <<registry, memory, calls>>

(* Somebody answers on the port, or nobody does for thirty seconds.        *)
StartRegister(m) ==
  LET manager == managers[m]
  IN  /\ manager.pc = "waiting"
      /\ \/ /\ Healthy(manager.port)
            /\ registry' = [port |-> manager.port, pid |-> manager.pid,
                            store |-> manager.store]
         \/ UNCHANGED registry
      /\ GoOn(m, "over")
      /\ UNCHANGED <<servers, memory, calls>>

StopLoad(m) ==
  /\ managers[m].pc = "idle"
  /\ registry # None
  /\ managers' = [managers EXCEPT ![m] = [IdleManager EXCEPT !.pc = "killing",
                                                     !.pid = registry.pid]]
  /\ UNCHANGED <<registry, servers, memory, calls>>

StopKill(m) ==
  /\ managers[m].pc = "killing"
  /\ servers' = [servers EXCEPT ![managers[m].pid].state = "dead"]
  /\ GoOn(m, "deleting")
  /\ UNCHANGED <<registry, memory, calls>>

StopDelete(m) ==
  /\ managers[m].pc = "deleting"
  /\ registry' = None
  /\ GoOn(m, "over")
  /\ UNCHANGED <<servers, memory, calls>>

-----------------------------------------------------------------------------
(* Where a call runs *)

Change(c, record) == calls' = [calls EXCEPT ![c] = record]

Step(c, pc) == Change(c, [calls[c] EXCEPT !.pc = pc])

Told(c, told) == Change(c, [calls[c] EXCEPT !.pc = "over", !.told = told])

DaemonAware == {"add", "supersede", "edit"}

(* The supersede tool reads both of its facts under one lock.              *)
FirstPlace(request, host) ==
  CASE request.tool = "add" -> "adding"
    [] request.tool = "supersede" /\ host # None -> "checking both"
    [] OTHER -> "checking"

(* The facts a call looks up first: `supersede` both of its, `edit` the    *)
(* one it changes, and an archiving tool only if a source was given.       *)
LookedUp(request, host, source) ==
  CASE request.tool = "add" -> <<>>
    [] request.tool = "supersede" -> <<request.fact, request.other>>
    [] request.tool = "archive" /\ host # None /\ source = None -> <<>>
    [] OTHER -> <<request.fact>>

Begun(call, host, source) ==
  [call EXCEPT !.pc = FirstPlace(call.request, host), !.host = host,
               !.source = source,
               !.todo = LookedUp(call.request, host, source)]

BeginOwn(c) == Change(c, Begun(calls[c], None, calls[c].source))

(* An MCP client posts to its port; a command that has a tool looks for a  *)
(* daemon, and one that has none, or was told not to, does the work.       *)
Issue(c, request) ==
  LET asked(pc) == [Unissued EXCEPT !.pc = pc, !.request = request,
                                    !.source = request.source,
                                    !.port = request.port]
      via == request.via
      routed == via = "cli" /\ request.tool \in DaemonAware
  IN  /\ calls[c].pc = "unissued"
      /\ Change(c, CASE via = "mcp" -> asked("sending")
                     [] routed -> asked("looking")
                     [] OTHER -> Begun(asked("looking"), None, request.source))
      /\ UNCHANGED <<registry, servers, memory, managers>>

(* registered_endpoint *)
Look(c) ==
  /\ calls[c].pc = "looking"
  /\ IF registry # None /\ registry.store = calls[c].request.store
     THEN Change(c, [calls[c] EXCEPT !.pc = "probing", !.port = registry.port])
     ELSE BeginOwn(c)
  /\ UNCHANGED <<registry, servers, memory, managers>>

Probe(c) ==
  /\ calls[c].pc = "probing"
  /\ \/ Healthy(calls[c].port) /\ Step(c, "sending")
     \/ BeginOwn(c)
  /\ UNCHANGED <<registry, servers, memory, managers>>

Items(request) == {request.items[i] : i \in DOMAIN request.items}

(* Fault: only the source of the whole request is looked at.               *)
OverridesTop(request, bound) == request.source \notin {None, bound}

(* bind_request_identity refuses to name another source than the token's,  *)
(* for the request or for one of its items.                                *)
Overrides(request, bound) ==
  \/ request.source \notin {None, bound}
  \/ \E item \in Items(request) : item.source \notin {None, bound}

(* The request reaches the server that listens, whichever that is by now.  *)
(* A command has no token for a server that wants one.                     *)
Post(c) ==
  LET call == calls[c]
      at(pid, source) == Change(c, Begun(call, pid, source))
  IN  /\ call.pc = "sending"
      /\ \/ /\ Serving(call.port) = {}
            /\ Told(c, "failed")
         \/ \E pid \in Serving(call.port) :
              LET bound == servers[pid].bound
              IN  \/ bound = None /\ at(pid, call.source)
                  \/ /\ bound # None
                     /\ IF call.request.via = "cli"
                           \/ Overrides(call.request, bound)
                        THEN Told(c, "failed")
                        ELSE at(pid, bound)
      /\ UNCHANGED <<registry, servers, memory, managers>>

Own(call) == call.host = None

Working(c, pc) ==
  /\ calls[c].pc = pc
  /\ ~Own(calls[c]) => servers[calls[c].host].state = "serving"

Store(call) ==
  IF Own(call) THEN call.request.store ELSE servers[call.host].store

(* Fault: what the daemon did not answer the command does itself.          *)
LostAndRepeated(c) ==
  /\ ~Own(calls[c])
  /\ calls[c].pc # "over"
  /\ servers[calls[c].host].state = "dead"
  /\ BeginOwn(c)
  /\ UNCHANGED <<registry, servers, memory, managers>>

(* The server stops before it has answered, and the client sees an error.  *)
Lost(c) ==
  /\ ~Own(calls[c])
  /\ calls[c].pc # "over"
  /\ servers[calls[c].host].state = "dead"
  /\ Told(c, "failed")
  /\ UNCHANGED <<registry, servers, memory, managers>>

(* A command's own process dies and tells nobody.                          *)
Dies(c) ==
  /\ Own(calls[c])
  /\ calls[c].pc \notin {"unissued", "over"}
  /\ Told(c, None)
  /\ UNCHANGED <<registry, servers, memory, managers>>

-----------------------------------------------------------------------------
(* The tools, and what the commands do when they run them themselves *)

Here(call, id) == id \in DOMAIN memory /\ memory[id].store = Store(call)

Hot(call, id) == Here(call, id) /\ memory[id].tier = "hot"

(* fact_get_scoped: archived facts are found too.                          *)
Visible(call, id) ==
  /\ Here(call, id)
  /\ memory[id].tier # "gone"
  /\ call.source \in {None, memory[id].source}

Finish(c, outcome) ==
  Change(c, [calls[c] EXCEPT !.pc = "answering", !.outcome = outcome])

Check(c) ==
  LET call == calls[c]
      id == Head(call.todo)
  IN  /\ Working(c, "checking")
      /\ IF call.todo = <<>>
         THEN Step(c, IF call.request.tool = "supersede" THEN "comparing"
                      ELSE "writing")
         ELSE IF Visible(call, id)
              THEN Change(c, [call EXCEPT !.todo = Tail(@),
                                          !.seen = memory[id].text])
              ELSE Finish(c, "failed")
      /\ UNCHANGED <<registry, servers, memory, managers>>

(* tool_fact_supersede: the hot tier only.                                 *)
CheckBoth(c) ==
  LET call == calls[c]
  IN  /\ Working(c, "checking both")
      /\ IF \A i \in DOMAIN call.todo :
              Hot(call, call.todo[i]) /\ Visible(call, call.todo[i])
         THEN Step(c, "comparing")
         ELSE Finish(c, "failed")
      /\ UNCHANGED <<registry, servers, memory, managers>>

(* The store does not open, or a call of it fails, before anything was     *)
(* written.                                                                *)
StoreFails(c) ==
  /\ \E pc \in {"checking", "checking both", "comparing", "finding",
                 "writing"} : Working(c, pc)
  /\ Finish(c, "failed")
  /\ UNCHANGED <<registry, servers, memory, managers>>

(* fact_supersede reads the old fact, the new one, and then writes.        *)
CompareOld(c) ==
  LET old == calls[c].request.fact
  IN  /\ Working(c, "comparing")
      /\ IF Hot(calls[c], old) /\ memory[old].next = None
         THEN Step(c, "finding")
         ELSE Finish(c, "failed")
      /\ UNCHANGED <<registry, servers, memory, managers>>

FindNew(c) ==
  /\ Working(c, "finding")
  /\ IF Hot(calls[c], calls[c].request.other)
     THEN Step(c, "writing")
     ELSE Finish(c, "failed")
  /\ UNCHANGED <<registry, servers, memory, managers>>

Written(c, id) ==
  LET fact == memory[id]
      request == calls[c].request
  IN  CASE request.tool = "supersede" -> [fact EXCEPT !.next = request.other]
        [] request.tool = "edit" ->
             [fact EXCEPT !.text = calls[c].seen \cup {c}]
        [] request.tool = "pin" -> [fact EXCEPT !.pinned = TRUE]
        [] request.tool = "delete" -> [fact EXCEPT !.tier = "gone"]
        [] request.tool = "archive" -> [fact EXCEPT !.tier = "cold"]

(* Only hot facts are written; that there was none to archive is no error. *)
WriteFact(c) ==
  LET id == calls[c].request.fact
      wrote == [calls[c] EXCEPT !.writes = @ + 1]
  IN  /\ Working(c, "writing")
      /\ IF Hot(calls[c], id)
         THEN /\ memory' = [memory EXCEPT ![id] = Written(c, id)]
              /\ Change(c, [wrote EXCEPT !.pc = "answering",
                                         !.outcome = "done"])
         ELSE /\ Finish(c, IF calls[c].request.tool = "archive" THEN "nothing"
                           ELSE "failed")
              /\ UNCHANGED memory
      /\ UNCHANGED <<registry, servers, managers>>

(* One transaction for all items, after each was found in order; a name    *)
(* may be taken or a type unknown.  A single fact is read again.           *)
Add(c) ==
  LET call == calls[c]
      items == call.request.items
      new == {<<c, i>> : i \in DOMAIN items}
      source(id) == IF items[id[2]].source # None THEN items[id[2]].source
                    ELSE call.source
      added == [call EXCEPT !.writes = @ + 1,
                            !.pc = IF Len(items) = 1 THEN "confirming"
                                   ELSE "answering",
                            !.outcome = "done"]
  IN  /\ Working(c, "adding")
      /\ \/ /\ memory' = [id \in DOMAIN memory \cup new |->
              IF id \in new THEN Fact(Store(call), source(id), c)
              ELSE memory[id]]
            /\ Change(c, added)
         \/ /\ Finish(c, "failed")
            /\ UNCHANGED memory
      /\ UNCHANGED <<registry, servers, managers>>

Confirm(c) ==
  /\ Working(c, "confirming")
  /\ Finish(c, IF memory[<<c, 1>>].tier = "gone" THEN "failed" ELSE "done")
  /\ UNCHANGED <<registry, servers, memory, managers>>

(* dispatch answers a tool's failure with a result that is marked          *)
(* isError; daemon_tool_call does not look at the mark.  `fact add` fails  *)
(* for want of an id in the text, the other commands report success.       *)
Reported(call) ==
  IF call.request.via = "cli" /\ ~Own(call) /\ call.request.tool # "add"
  THEN "done" ELSE call.outcome

Answer(c) ==
  /\ Working(c, "answering")
  /\ Told(c, Reported(calls[c]))
  /\ UNCHANGED <<registry, servers, memory, managers>>

-----------------------------------------------------------------------------

CommandsNext ==
  \/ \E pid \in Pids : Listen(pid) \/ Crash(pid)
  \/ \E server \in Foreign : RunServer(server)
  \/ \E m \in Managers :
       \/ \E order \in Orders :
            \/ order.start /\ StartLook(m, order)
            \/ ~order.start /\ StopLoad(m)
       \/ StartProbe(m)
       \/ StartClear(m)
       \/ StartSpawn(m)
       \/ StartRegister(m)
       \/ StopKill(m)
       \/ StopDelete(m)
  \/ \E c \in Calls :
       \/ \E request \in Requests : Issue(c, request)
       \/ Look(c)
       \/ Probe(c)
       \/ Post(c)
       \/ Lost(c)
       \/ Dies(c)
       \/ Check(c)
       \/ CheckBoth(c)
       \/ StoreFails(c)
       \/ CompareOld(c)
       \/ FindNew(c)
       \/ WriteFact(c)
       \/ Add(c)
       \/ Confirm(c)
       \/ Answer(c)

CommandsSpec == CommandsInit /\ [][CommandsNext]_commandVars

-----------------------------------------------------------------------------

CommandsTypeOK ==
  /\ registry \in Registrations \cup {None}
  /\ servers \in Seq(ServerRecords)
  /\ DOMAIN memory \subseteq FactIds
  /\ memory \in [DOMAIN memory -> FactRecords]
  /\ calls \in [Calls -> CallRecords]
  /\ managers \in [Managers -> ManagerRecords]

AddedBy(c) == {id \in DOMAIN memory : memory[id].by = c}

(* The server of a call stopped, perhaps after the work was done.          *)
AnswerLost(call) == ~Own(call) /\ servers[call.host].state = "dead"

(* What a routed command reports of a tool's failure says nothing.         *)
Heard(call) ==
  ~(call.request.via = "cli" /\ ~Own(call) /\ call.request.tool # "add")

(* A port that is, or was to be, the port of servers of two stores.        *)
Contended(port) ==
  \E pid, other \in Pids :
    /\ servers[pid].port = port
    /\ servers[other].port = port
    /\ servers[pid].store # servers[other].store

(* What is reported done was done once and in the store the command is     *)
(* for, whether or not a daemon did it and however daemons come and go     *)
(* meanwhile; what is reported failed was not done, unless the answer was  *)
(* lost; and of a list of facts all are added or none.  Not so, and said   *)
(* in the README: the commands that do not hear of a failure, and stores   *)
(* whose servers share a port.                                             *)
ReportsAreTrue ==
  \A c \in Calls :
    LET call == calls[c]
        deleted == \A id \in AddedBy(c) : memory[id].tier = "gone"
    IN  /\ call.writes <= 1
        /\ call.pc # "unissued" /\ call.request.tool = "add" =>
             Cardinality(AddedBy(c)) = call.writes * Len(call.request.items)
        /\ call.told = "done" /\ Heard(call) => call.writes = 1
        /\ call.told = "nothing" => call.writes = 0
        /\ call.told = "failed" /\ call.writes = 1 =>
             \/ AnswerLost(call)
             \/ call.request.tool = "add" /\ deleted
        /\ call.pc # "unissued" /\ call.request.via # "mcp" =>
             \A id \in AddedBy(c) :
               \/ memory[id].store = call.request.store
               \/ Contended(call.port)

(* A call made with a token that is bound to a source changes, and adds,   *)
(* facts of that source only, however long ago it looked at them.          *)
BoundCallsStayInSource ==
  [][\A c \in Calls :
       LET call == calls[c]
       IN  call' # call /\ ~Own(call) =>
             LET bound == servers[call.host].bound
             IN  bound # None =>
                   \A id \in DOMAIN memory' :
                     \/ id \in DOMAIN memory /\ memory'[id] = memory[id]
                     \/ memory'[id].source = bound]_commandVars
=============================================================================
