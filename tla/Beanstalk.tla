--------------------------- MODULE Beanstalk ---------------------------
(***************************************************************************)
(* The poll of a Beanstalk tube (pkg/queue/beanstalk.go): a long poll,     *)
(* which reserves a job and puts it back, when nothing runs, otherwise the *)
(* tube's statistics.  The goroutines of the queues on one tube share a    *)
(* client, made by whichever found none; a client whose connection fails   *)
(* is given a new one.  The server may restart, and connections be lost.   *)
(***************************************************************************)
EXTENDS Service

CONSTANTS
    Tube,        \* the URI of the tube
    Conns,       \* connections; one that nothing refers to is used again
    Nil,         \* the nil connection
    NoClient     \* the pool has no client for the tube

ASSUME BeanstalkAssumption ==
    /\ \A w \in WpaSpecs : w.uri = Tube
    /\ Nil \notin Conns /\ NoClient \notin Keys
    /\ IsFiniteSet(Conns) /\ Cardinality(Conns) > 2 * Cardinality(Keys) + Cardinality(Messages)

VARIABLES
    pool,        \* the client in clientPool, named after the key that made it
    conn,        \* per client, its connection
    open,        \* the connections that are alive; none when the server is down
    serverUp,
    holder       \* per message that is held, the connection that has reserved it

clientVars == <<pool, conn>>
serverVars == <<open, serverUp, holder>>
vars == <<item, call, loopVars, message, poll, clientVars, serverVars>>

AtRest == [at |-> "list", todo |-> "", client |-> NoClient, on |-> Nil, job |-> Nil,
           again |-> FALSE, waited |-> {}, lived |-> {}, ready |-> 0, reserved |-> 0]

Commands == {"reserve", "stats", "idle", "repair"}

PollPlaces == Commands \cup {"list", "client", "dial", "redial", "reserving", "statsjob",
                             "release", "found", "none", "report", "busy", "waiting"}

Poll == [at : PollPlaces, todo : Commands \cup {""}, client : Keys \cup {NoClient},
         on : Conns \cup {Nil}, job : Messages \cup {Nil}, again : BOOLEAN,
         waited : SUBSET Messages, lived : SUBSET Messages, ready : Nat, reserved : Nat]

TypeOK ==
    /\ ServiceTypeOK
    /\ poll \in [Keys -> Poll]
    /\ pool \in Keys \cup {NoClient}
    /\ conn \in [Keys -> Conns \cup {Nil}]
    /\ open \subseteq Conns
    /\ serverUp \in BOOLEAN
    /\ holder \in [Messages -> Conns \cup {Nil}]

Init ==
    /\ ServiceInit
    /\ poll = [k \in Keys |-> AtRest]
    /\ pool = NoClient
    /\ conn = [k \in Keys |-> Nil]
    /\ open = {}
    /\ serverUp = TRUE
    /\ holder = [m \in Messages |-> Nil]

-----------------------------------------------------------------------------
(* Connections                                                             *)

\* The connection of the client a goroutine has from the pool, read anew for
\* each command.
Conn(k) == conn[poll[k].client]

\* Commands on a connection are answered in order: behind a long poll they wait.
Answers(k) ==
    /\ Conn(k) \in open
    /\ \A i \in Keys : At(i, "reserving") => poll[i].on # Conn(k)

NewConn ==
    CHOOSE c \in Conns : /\ \A k \in Keys : c \notin {conn[k], poll[k].on}
                         /\ \A m \in Messages : c # holder[m]

\* getBeanstalkConn for a client: Nil when the dial fails.
Connect(client) ==
    LET c == IF serverUp THEN NewConn ELSE Nil
    IN  conn' = [conn EXCEPT ![client] = c] /\ open' = open \cup ({c} \ {Nil})

\* Every error makes poll repair the client, which it looks up anew.
ToRepair(k) == poll' = [poll EXCEPT ![k] = [AtRest EXCEPT !.at = "client", !.todo = "repair"]]

\* getClient; the pool is looked up, and what is dialled is stored, in two steps.
getClient(k) ==
    /\ At(k, "client")
    /\ poll' = [poll EXCEPT ![k] = IF pool = NoClient
                                   THEN [@ EXCEPT !.at = "dial"]
                                   ELSE [@ EXCEPT !.at = poll[k].todo, !.client = pool]]
    /\ UNCHANGED <<queueVars, loopVars, message, clientVars, serverVars>>

NewBeanstalkClient(k) ==
    /\ At(k, "dial")
    /\ \/ /\ serverUp
          /\ Connect(k)
          /\ pool' = k
          /\ poll' = [poll EXCEPT ![k] = [@ EXCEPT !.at = poll[k].todo, !.client = k]]
       \/ /\ ~serverUp
          /\ IF poll[k].todo = "repair" THEN poll' = [poll EXCEPT ![k] = AtRest] ELSE ToRepair(k)
          /\ UNCHANGED <<clientVars, open>>
    /\ UNCHANGED <<queueVars, loopVars, message, serverUp, holder>>

\* A bug the runs look for: the new connection is not stored.
reestablishConnUnstored(k) ==
    /\ At(k, "repair") \/ At(k, "redial")
    /\ \/ At(k, "repair") /\ poll' = [poll EXCEPT ![k] = AtRest]
       \/ At(k, "redial") /\ poll' = [poll EXCEPT ![k] = [@ EXCEPT !.at = poll[k].todo, !.again = TRUE]]
    /\ UNCHANGED <<queueVars, loopVars, message, clientVars, serverVars>>

\* b.reestablishConn after an error, and c.reestablishConn on the EOF of a command,
\* which is then tried once more.
reestablishConn(k) ==
    /\ At(k, "repair") \/ At(k, "redial")
    /\ Connect(poll[k].client)
    /\ \/ At(k, "repair") /\ poll' = [poll EXCEPT ![k] = AtRest]
       \/ /\ At(k, "redial") /\ serverUp
          /\ poll' = [poll EXCEPT ![k] = [@ EXCEPT !.at = poll[k].todo, !.again = TRUE]]
       \/ At(k, "redial") /\ ~serverUp /\ ToRepair(k)
    /\ UNCHANGED <<queueVars, loopVars, message, pool, serverUp, holder>>

\* A bug the runs look for: an error is taken for a count, the "unknown" of the
\* registry.
BrokenAsCount(k) ==
    /\ At(k, "stats") /\ Conn(k) \notin open \cup {Nil}
    /\ poll' = [poll EXCEPT ![k] = [@ EXCEPT !.at = "report", !.ready = Unsynced]]
    /\ UNCHANGED <<queueVars, loopVars, message, clientVars, serverVars>>

\* The connection of a command is lost; EOF is one of the errors this may give.
Broken(k) ==
    /\ \/ poll[k].at \in {"reserve", "stats", "idle", "statsjob"} /\ Conn(k) \notin open \cup {Nil}
       \/ At(k, "reserving") /\ poll[k].on \notin open
    /\ \/ /\ ~At(k, "statsjob") /\ ~poll[k].again
          /\ poll' = [poll EXCEPT ![k] = [@ EXCEPT !.at = "redial", !.on = Nil]]
       \/ ToRepair(k)
    /\ UNCHANGED <<queueVars, loopVars, message, clientVars, serverVars>>

\* What ends a connection lets go of the jobs it holds.
Released(conns) ==
    /\ message' = [m \in Messages |-> IF holder[m] \in conns THEN "visible" ELSE message[m]]
    /\ holder' = [m \in Messages |-> IF holder[m] \in conns THEN Nil ELSE holder[m]]

\* A command on the nil connection: the process ends, and is restarted.
Panic(k) ==
    /\ poll[k].at \in {"reserve", "stats", "idle", "statsjob", "release"}
    /\ Conn(k) = Nil
    /\ Forgotten
    /\ poll' = [i \in Keys |-> AtRest]
    /\ pool' = NoClient
    /\ conn' = [i \in Keys |-> Nil]
    /\ open' = {}
    /\ Released(Conns)
    /\ UNCHANGED serverUp

-----------------------------------------------------------------------------
(* The poll                                                                *)

ListOne(k) ==
    /\ At(k, "list")
    /\ Registered(k)
    /\ LET long == item[k].workers = 0 /\ item[k].messages = 0
       IN  poll' = [poll EXCEPT ![k] =
                       [AtRest EXCEPT !.at = "client", !.todo = IF long THEN "reserve" ELSE "stats",
                                      !.waited = IF long THEN Visible ELSE {},
                                      !.lived = IF long THEN {} ELSE InQueue]]
    /\ UNCHANGED <<queueVars, loopVars, message, clientVars, serverVars>>

\* doLongPoll: the reserve is on its way.
doLongPoll(k) ==
    /\ At(k, "reserve") /\ Answers(k)
    /\ poll' = [poll EXCEPT ![k] = [@ EXCEPT !.at = "reserving", !.on = Conn(k)]]
    /\ UNCHANGED <<queueVars, loopVars, message, clientVars, serverVars>>

Reserved(k, m) ==
    /\ At(k, "reserving") /\ poll[k].on \in open
    /\ Move(m, "visible", "held")
    /\ holder' = [holder EXCEPT ![m] = poll[k].on]
    /\ poll' = [i \in Keys |->
                   IF i = k THEN [AtRest EXCEPT !.at = "statsjob", !.client = poll[k].client, !.job = m]
                   ELSE [poll[i] EXCEPT !.waited = @ \ {m}]]
    /\ UNCHANGED <<queueVars, loopVars, clientVars, open, serverUp>>

TimedOut(k) ==
    /\ At(k, "reserving") /\ poll[k].on \in open
    /\ Visible = {}
    /\ poll' = [poll EXCEPT ![k] = [@ EXCEPT !.at = "none", !.on = Nil]]
    /\ UNCHANGED <<queueVars, loopVars, message, clientVars, serverVars>>

StatsJob(k) ==
    /\ At(k, "statsjob") /\ Answers(k)
    /\ IF message[poll[k].job] = "absent" THEN ToRepair(k) ELSE Go(k, "release")
    /\ UNCHANGED <<queueVars, loopVars, message, clientVars, serverVars>>

\* A bug the runs look for: the job is not put back.
ReleaseForgotten(k) ==
    /\ At(k, "release") /\ Conn(k) # Nil
    /\ poll' = [poll EXCEPT ![k] = [AtRest EXCEPT !.at = "found"]]
    /\ UNCHANGED <<queueVars, loopVars, message, clientVars, serverVars>>

\* Its error, and the server's "not found", go unnoticed.
Release(k) ==
    /\ At(k, "release") /\ Conn(k) # Nil
    /\ LET m == poll[k].job
       IN  IF Answers(k) /\ holder[m] = Conn(k)
           THEN Move(m, "held", "visible") /\ holder' = [holder EXCEPT ![m] = Nil]
           ELSE (Answers(k) \/ Conn(k) \notin open) /\ UNCHANGED <<message, holder>>
    /\ poll' = [poll EXCEPT ![k] = [AtRest EXCEPT !.at = "found"]]
    /\ UNCHANGED <<queueVars, loopVars, clientVars, open, serverUp>>

Workers == {w \in Keys \X (1 .. Int32Max) : w[2] <= replicas[w[1]]}

\* current-waiting: the workers, and the long polls, with a reserve on the tube.
CurrentWaiting ==
    LET workers == Cardinality(Workers)
        taken   == Cardinality({m \in Messages : message[m] = "taken"})
    IN  (IF taken < workers THEN workers - taken ELSE 0)
            + Cardinality({k \in Keys : At(k, "reserving") /\ poll[k].on \in open})

\* executeGetStats, once for the jobs and once more for the idle workers.
executeGetStats(k) ==
    /\ At(k, "stats") \/ At(k, "idle")
    /\ Answers(k)
    /\ poll' = [poll EXCEPT ![k] =
                   IF At(k, "stats")
                   THEN [@ EXCEPT !.at = "report", !.ready = Cardinality(Visible),
                                  !.reserved = Cardinality(InQueue \ Visible)]
                   ELSE [AtRest EXCEPT !.at = "waiting", !.ready = CurrentWaiting]]
    /\ UNCHANGED <<queueVars, loopVars, message, clientVars, serverVars>>

\* updateMessage after either kind of poll.
Report(k) ==
    /\ poll[k].at \in {"found", "none", "report"}
    /\ LET p == poll[k]
           GoOn(place, todo) == [AtRest EXCEPT !.at = place, !.todo = todo]
       IN  /\ updateMessage(k, CASE p.at = "found"  -> 1
                                 [] p.at = "none"   -> 0
                                 [] p.at = "report" -> p.ready + p.reserved)
           /\ poll' = [poll EXCEPT ![k] =
                          CASE p.at # "report"                       -> GoOn("waiting", "")
                            [] p.at = "report" /\ p.ready # 0        -> GoOn("busy", "")
                            [] p.at = "report" /\ p.ready + p.reserved = 0 -> GoOn("client", "idle")
                            [] OTHER                                 -> AtRest]
    /\ UNCHANGED <<loopVars, message, clientVars, serverVars>>

\* A bug the runs look for: workers are never said to be idle.
ReportBusy(k) ==
    /\ At(k, "busy") \/ At(k, "waiting")
    /\ updateIdleWorkers(k, -1)
    /\ poll' = [poll EXCEPT ![k] = AtRest]
    /\ UNCHANGED <<loopVars, message, clientVars, serverVars>>

ReportIdle(k) ==
    /\ At(k, "busy") \/ At(k, "waiting")
    /\ updateIdleWorkers(k, IF At(k, "busy") THEN -1 ELSE poll[k].ready)
    /\ poll' = [poll EXCEPT ![k] = AtRest]
    /\ UNCHANGED <<loopVars, message, clientVars, serverVars>>

PollStep(k) ==
    \/ getClient(k) \/ NewBeanstalkClient(k) \/ reestablishConn(k) \/ Broken(k) \/ Panic(k)
    \/ ListOne(k) \/ doLongPoll(k) \/ TimedOut(k) \/ StatsJob(k) \/ Release(k)
    \/ (\E m \in Messages : Reserved(k, m))
    \/ executeGetStats(k) \/ Report(k) \/ ReportIdle(k)

-----------------------------------------------------------------------------
(* The server and its other clients                                        *)

Drop(c) ==
    /\ c \in open
    /\ open' = open \ {c}
    /\ Released({c})
    /\ UNCHANGED <<queueVars, loopVars, poll, clientVars, serverUp>>

\* The jobs survive when beanstalkd keeps a log of them, all ready.
ServerDown ==
    /\ serverUp
    /\ serverUp' = FALSE
    /\ open' = {}
    /\ holder' = [m \in Messages |-> Nil]
    /\ \/ message' = [m \in Messages |-> IF m \in InQueue THEN "visible" ELSE "absent"] /\ UNCHANGED poll
       \/ message' = [m \in Messages |-> "absent"] /\ Outdate(Messages, Messages)
    /\ UNCHANGED <<queueVars, loopVars, clientVars>>

ServerUp ==
    /\ ~serverUp
    /\ serverUp' = TRUE
    /\ UNCHANGED <<queueVars, loopVars, message, poll, clientVars, open, holder>>

\* The time to run of a job is over; it stays in the queue.
TimeOut(m) ==
    /\ Move(m, "taken", "visible") \/ Move(m, "held", "visible")
    /\ holder' = [holder EXCEPT ![m] = Nil]
    /\ UNCHANGED <<queueVars, loopVars, poll, clientVars, open, serverUp>>

-----------------------------------------------------------------------------

Next ==
    \/ \E k \in Keys : PollStep(k)
    \/ \E k \in Keys : (Sync(k) \/ EditSpec(k)) /\ UNCHANGED <<clientVars, serverVars>>
    \/ \E m \in Messages :
          /\ serverUp
          /\ Send(m) \/ Receive(m) \/ Remove(m)
          /\ UNCHANGED <<clientVars, serverVars>>
    \/ \E m \in Messages : TimeOut(m)
    \/ \E c \in Conns : Drop(c)
    \/ ServerDown \/ ServerUp

\* As in SQS.
Fairness ==
    \A k \in Keys :
        /\ WF_vars(PollStep(k))
        /\ WF_vars(StartSync(k) /\ UNCHANGED <<clientVars, serverVars>>)
        /\ SF_vars(FinishSync(k, NeverScaled) /\ UNCHANGED <<clientVars, serverVars>>)
        /\ []<><<Report(k)>>_vars => []<><<Report(k) /\ call[k] = Idle>>_vars
        /\ []<><<ReportIdle(k)>>_vars => []<><<ReportIdle(k) /\ call[k] = Idle>>_vars

Spec == Init /\ [][Next]_vars /\ Fairness

-----------------------------------------------------------------------------

\* queue.go:43 "messages is the total number of messages in the queue": no job that
\* stays in the queue is missed, not even one that times out or is put back.  A long
\* poll that finds nothing has missed none that waited.
NoneOverlooked ==
    \A k \in Keys :
        /\ At(k, "report") => poll[k].ready + poll[k].reserved >= Cardinality(poll[k].lived)
        /\ At(k, "none") => poll[k].waited = {}

\* beanstalk_test.go:442 "consume 1 job from the queue using long poll and put the
\* job back": a job stays reserved no longer than the poll that has reserved it works
\* on it, whatever fails.
PutBack ==
    \A m \in Messages :
        message[m] = "held" => \E k \in Keys : /\ poll[k].at \in {"statsjob", "release"}
                                              /\ poll[k].job = m

\* From some time on the server is up, and no connection is lost.
Quiet ==
    /\ NoEdits
    /\ <>[]serverUp
    /\ <>[][open \subseteq open']_open

\* beanstalk.go:342 "we do a long poll to find a job(s) in the queue [...] to
\* trigger scale up", also after connections were lost and the server was down.
MessageGetsAWorker == Quiet => GetsAWorker

\* The idle workers of an empty tube go when maxDisruption allows no other
\* scale-down.
IdleWorkersGo == Quiet => GivesUpWorkers

\* beanstalk_test.go:459 "testing if restarting beanstalkd, re-establishes the conn":
\* no poll dies of a connection it could not re-establish.
NeverPanics == [][\A k \in Keys : ~Panic(k)]_vars

=============================================================================
