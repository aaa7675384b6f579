----------------------------- MODULE Lifecycle -----------------------------
(***************************************************************************)
(* The life of the process: pkg/register and module set the modules up,     *)
(* server serves requests and starts and stops them, config/context.go      *)
(* holds what they share.  The main goroutine builds every module, routes   *)
(* them, and starts the server, as testutil does; go-svc calls Stop on a    *)
(* signal.                                                                 *)
(*                                                                         *)
(* What handlers share is created on first use, without a lock, and the     *)
(* module and listener lists are read without one.                         *)
(***************************************************************************)
EXTENDS Naturals, Sequences, SequencesExt

CONSTANTS
    Modules,    \* the registered module functions, in order
    Uses,       \* [module -> what its function calls: "db", "listen", "listen once"]
    Handlers    \* goroutines of requests

ASSUME LifeAssumption == Modules \in Seq(ToSet(Modules)) /\ Modules # <<>>

VARIABLES
    main,       \* where the main goroutine is, and at which module
    moduleList, \* register.moduleList
    routed,     \* modules whose routes and tasks are registered
    started,    \* modules whose Start returned nil, in order
    stopped,    \* modules whose Stop returned nil, in order
    listening,  \* the goroutine that run serves in: "off", "on" or "panic"
    session,    \* ctx.mySQLSession, or 0
    opened,     \* how many sessions were opened: they are numbered
    listeners,  \* the modules that listen to the event
    handling    \* [handler -> where it is, its module, what it found]

lifeVars == <<main, moduleList, routed, started, stopped, listening, session, opened,
              listeners, handling>>

LifeInit ==
    /\ main = [pc |-> "build", i |-> 1]
    /\ moduleList = <<>>
    /\ routed = {}
    /\ started = <<>>
    /\ stopped = <<>>
    /\ listening = "off"
    /\ session = 0
    /\ opened = 0
    /\ listeners = <<>>
    /\ handling = [h \in Handlers |-> [pc |-> "idle", module |-> "", session |-> 0,
                                      service |-> FALSE, listeners |-> <<>>]]

\* The panic of any goroutine ends the process, and so does main's return.
Alive == listening # "panic" /\ main.pc # "exit"
At(pc) == Alive /\ main.pc = pc
Module == Modules[main.i]
\* The loop over the modules, then the next phase.
Step(next) ==
    main' = IF main.i < Len(Modules) THEN [main EXCEPT !.i = @ + 1] ELSE [pc |-> next, i |-> 1]

----------------------------------------------------------------------------
(* The main goroutine.                                                     *)

\* NewMySQL: look at the field, and open a session.
IsUnsetAlways == TRUE
IsUnset == session = 0

AddEventListener == Append(listeners, Module)
JyAddEventListener == IF listeners = <<>> THEN Append(listeners, Module) ELSE listeners

\* GetModules: under once, every function is called with the context.
BuildModule ==
    /\ At("build")
    /\ moduleList' = Append(moduleList, Module)
    /\ IF "db" \in Uses[Module] /\ IsUnset
       THEN opened' = opened + 1 /\ session' = opened'
       ELSE UNCHANGED <<opened, session>>
    /\ listeners' = IF "listen" \in Uses[Module] THEN AddEventListener
                    ELSE IF "listen once" \in Uses[Module] THEN JyAddEventListener
                    ELSE listeners
    /\ Step("setup")
    /\ UNCHANGED <<routed, started, stopped, listening, handling>>

Setup ==
    /\ At("setup")
    /\ routed' = routed \cup {Module}
    /\ Step("serve")
    /\ UNCHANGED <<moduleList, started, stopped, listening, session, opened, listeners, handling>>

\* Server.Start: `go run`, then the modules one by one; an error ends the loop
\* and the program.
Serve ==
    /\ At("serve")
    /\ main' = [main EXCEPT !.pc = "start"]
    /\ UNCHANGED <<moduleList, routed, started, stopped, listening, session, opened,
                   listeners, handling>>

\* run, in its goroutine: listens, or panics if the address is taken.
Listen ==
    /\ Alive
    /\ main.pc \in {"start", "wait", "stop"}
    /\ listening = "off"
    /\ listening' \in {"on", "panic"}
    /\ UNCHANGED <<main, moduleList, routed, started, stopped, session, opened,
                   listeners, handling>>

StartModule ==
    /\ At("start")
    /\ \/ started' = Append(started, Module) /\ Step("wait")
       \/ main' = [main EXCEPT !.pc = "exit"] /\ UNCHANGED started
    /\ UNCHANGED <<moduleList, routed, stopped, listening, session, opened, listeners, handling>>

Signal ==
    /\ At("wait")
    /\ main' = [main EXCEPT !.pc = "stop"]
    /\ UNCHANGED <<moduleList, routed, started, stopped, listening, session, opened,
                   listeners, handling>>

\* The first module whose Stop fails keeps the later ones from theirs.
StopModule ==
    /\ At("stop")
    /\ \/ stopped' = Append(stopped, Module) /\ Step("exit")
       \/ main' = [main EXCEPT !.pc = "exit"] /\ UNCHANGED stopped
    /\ UNCHANGED <<moduleList, routed, started, listening, session, opened, listeners, handling>>

----------------------------------------------------------------------------
(* Handlers: they run as soon as the server listens, before, while and     *)
(* after the modules are started.                                          *)

Handling(h, pc) == Alive /\ listening = "on" /\ handling[h].pc = pc
Now(h, record) == handling' = [handling EXCEPT ![h] = record]
HandlerOnly ==
    UNCHANGED <<main, moduleList, routed, started, stopped, listening, listeners>>

Request(h) ==
    /\ Handling(h, "idle")
    /\ \E m \in routed : Now(h, [handling[h] EXCEPT !.pc = "look", !.module = m])
    /\ UNCHANGED <<session, opened>>
    /\ HandlerOnly

\* GetService and GetEventListeners, then NewMySQL reads the field.
Look(h) ==
    /\ Handling(h, "look")
    /\ Now(h, [handling[h] EXCEPT !.service = Contains(moduleList, handling[h].module),
                                  !.listeners = listeners,
                                  !.pc = IF IsUnset THEN "open" ELSE "use"])
    /\ UNCHANGED <<session, opened>>
    /\ HandlerOnly

Open(h) ==
    /\ Handling(h, "open")
    /\ opened' = opened + 1
    /\ session' = opened'
    /\ Now(h, [handling[h] EXCEPT !.pc = "use"])
    /\ HandlerOnly

\* NewMySQL returns the field, which another handler may have set since.
Use(h) ==
    /\ Handling(h, "use")
    /\ Now(h, [handling[h] EXCEPT !.pc = "done", !.session = session])
    /\ UNCHANGED <<session, opened>>
    /\ HandlerOnly

LifeNext ==
    \/ BuildModule \/ Setup \/ Serve \/ Listen \/ StartModule \/ Signal \/ StopModule
    \/ \E h \in Handlers : Request(h) \/ Look(h) \/ Open(h) \/ Use(h)

LifeSpec == LifeInit /\ [][LifeNext]_lifeVars

----------------------------------------------------------------------------
UsesDB == \E m \in ToSet(Modules) : "db" \in Uses[m]
Listening == {m \in ToSet(Modules) : "listen" \in Uses[m]}

\* Whatever main is at when they come, handlers find the service of their
\* module and every listener of set-up; and they share one database session,
\* unless set-up left its creation to them (NewMySQL has no lock: two handlers
\* that find the field empty open one each, and the first is never closed).
HandlersFindSetup ==
    \A h \in Handlers : handling[h].pc = "done" =>
        /\ handling[h].service
        /\ Listening \subseteq ToSet(handling[h].listeners)
        /\ handling[h].session # 0
        /\ UsesDB => opened = 1
============================================================================
