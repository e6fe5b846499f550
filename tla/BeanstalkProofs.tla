------------------------ MODULE BeanstalkProofs ------------------------
(***************************************************************************)
(* The safety properties of Beanstalk, for every number of messages and    *)
(* connections: type correctness and the counts for any number of queues   *)
(* on the tube, and for one queue that no reserved job is kept.            *)
(***************************************************************************)
EXTENDS Beanstalk, QueuesProofs, ScalingProofs, FiniteSetTheorems

LEMMA Nat32IsNat == Nat32 \subseteq Nat /\ Nat32 \subseteq Int
BY ScalingAssumption DEF Nat32

\* Sets of messages are finite.
LEMMA Count ==
    ASSUME NEW S \in SUBSET Messages, NEW T \in SUBSET S
    PROVE  /\ Cardinality(S) \in Nat /\ Cardinality(T) \in Nat
           /\ Cardinality(T) <= Cardinality(S)
<1>1. IsFiniteSet(Messages)
    BY ServiceAssumption
<1>2. IsFiniteSet(S) /\ IsFiniteSet(T)
    BY <1>1, FS_Subset
<1> QED
    BY <1>2, FS_Subset, FS_CardinalityType

-----------------------------------------------------------------------------
(* Type correctness                                                        *)

\* A poll that looks for a client knows what for.
HasTodo(p) == p.at \in Commands \cup {"client", "dial", "redial", "reserving"} => p.todo \in Commands

PollOK(p) == p \in Poll /\ HasTodo(p)

Types == TypeOK /\ \A k \in Keys : HasTodo(poll[k])

\* There are more connections than places that can refer to one.
LEMMA NewConnExists ==
    ASSUME IsFiniteSet(Keys), TypeOK
    PROVE  NewConn \in Conns
<1> DEFINE on == [k \in Keys |-> poll[k].on]
           Image(f) == {f[x] : x \in DOMAIN f}
           used == (Image(conn) \cup Image(on)) \cup Image(holder)
<1>1. ASSUME NEW S, IsFiniteSet(S), NEW T, NEW f \in [S -> T]
      PROVE  /\ IsFiniteSet(Image(f)) /\ Cardinality(Image(f)) \in Nat
             /\ Cardinality(Image(f)) <= Cardinality(S)
  <2>1. f \in Surjection(S, Image(f))
      BY <1>1 DEF Surjection
  <2> QED
      BY <1>1, <2>1, FS_Surjection, FS_CardinalityType
<1>2. /\ conn \in [Keys -> Conns \cup {Nil}] /\ holder \in [Messages -> Conns \cup {Nil}]
      /\ on \in [Keys -> Conns \cup {Nil}]
    BY DEF TypeOK, Poll
<1>3. IsFiniteSet(Messages) /\ IsFiniteSet(Conns)
    BY ServiceAssumption, BeanstalkAssumption
<1> HIDE DEF on, Image
<1>4. /\ IsFiniteSet(Image(conn)) /\ Cardinality(Image(conn)) \in Nat
      /\ Cardinality(Image(conn)) <= Cardinality(Keys)
    BY <1>1, <1>2
<1>5. /\ IsFiniteSet(Image(on)) /\ Cardinality(Image(on)) \in Nat
      /\ Cardinality(Image(on)) <= Cardinality(Keys)
    BY <1>1, <1>2
<1>6. /\ IsFiniteSet(Image(holder)) /\ Cardinality(Image(holder)) \in Nat
      /\ Cardinality(Image(holder)) <= Cardinality(Messages)
    BY <1>1, <1>2, <1>3
<1>7. \A S, T : IsFiniteSet(S) /\ IsFiniteSet(T) =>
         /\ IsFiniteSet(S \cup T)
         /\ Cardinality(S \cup T) <= Cardinality(S) + Cardinality(T)
         /\ Cardinality(S \cup T) \in Nat
  <2> SUFFICES ASSUME NEW S, NEW T, IsFiniteSet(S), IsFiniteSet(T)
               PROVE  /\ IsFiniteSet(S \cup T)
                      /\ Cardinality(S \cup T) <= Cardinality(S) + Cardinality(T)
                      /\ Cardinality(S \cup T) \in Nat
      OBVIOUS
  <2>1. /\ IsFiniteSet(S \cup T)
        /\ Cardinality(S \cup T) = Cardinality(S) + Cardinality(T) - Cardinality(S \cap T)
      BY FS_Union
  <2>2. IsFiniteSet(S \cap T)
      BY FS_Intersection
  <2>3. /\ Cardinality(S) \in Nat /\ Cardinality(T) \in Nat /\ Cardinality(S \cap T) \in Nat
        /\ Cardinality(S \cup T) \in Nat
      BY <2>1, <2>2, FS_CardinalityType
  <2> QED
      BY <2>1, <2>3
<1>8. /\ IsFiniteSet(used)
      /\ Cardinality(used) <= 2 * Cardinality(Keys) + Cardinality(Messages)
      /\ Cardinality(used) \in Nat
  <2>1. /\ IsFiniteSet(Image(conn) \cup Image(on))
        /\ Cardinality(Image(conn) \cup Image(on)) \in Nat
        /\ Cardinality(Image(conn) \cup Image(on)) <= Cardinality(Image(conn)) + Cardinality(Image(on))
      BY <1>4, <1>5, <1>7
  <2>2. /\ IsFiniteSet(used) /\ Cardinality(used) \in Nat
        /\ Cardinality(used) <= Cardinality(Image(conn) \cup Image(on)) + Cardinality(Image(holder))
      BY <1>6, <1>7, <2>1
  <2>3. Cardinality(Keys) \in Nat /\ Cardinality(Messages) \in Nat
      BY <1>3, FS_CardinalityType
  <2> QED
      BY <1>4, <1>5, <1>6, <2>1, <2>2, <2>3
<1> HIDE DEF used
<1>9. \E c \in Conns : c \notin used
  <2> SUFFICES ASSUME Conns \subseteq used PROVE FALSE
      OBVIOUS
  <2>1. Cardinality(Conns) <= Cardinality(used)
      BY <1>8, FS_Subset
  <2>2. Cardinality(Conns) \in Nat /\ Cardinality(Keys) \in Nat /\ Cardinality(Messages) \in Nat
      BY <1>3, FS_CardinalityType
  <2>3. Cardinality(Conns) > 2 * Cardinality(Keys) + Cardinality(Messages)
      BY BeanstalkAssumption
  <2> QED
      BY <1>8, <2>1, <2>2, <2>3
<1>10. ASSUME NEW c \in Conns, c \notin used
       PROVE  /\ \A k \in Keys : c \notin {conn[k], poll[k].on}
              /\ \A m \in Messages : c # holder[m]
    BY <1>2, <1>10 DEF used, Image, on
<1>11. \E c \in Conns : /\ \A k \in Keys : c \notin {conn[k], poll[k].on}
                        /\ \A m \in Messages : c # holder[m]
    BY <1>9, <1>10
<1> QED
    BY <1>11 DEF NewConn

LEMMA ConnectType ==
    ASSUME IsFiniteSet(Keys), TypeOK, NEW client, Connect(client)
    PROVE  conn' \in [Keys -> Conns \cup {Nil}] /\ open' \subseteq Conns
<1> DEFINE c == IF serverUp THEN NewConn ELSE Nil
<1>1. c \in Conns \cup {Nil}
    BY NewConnExists
<1>2. conn' = [conn EXCEPT ![client] = c] /\ open' = open \cup ({c} \ {Nil})
    BY DEF Connect
<1> HIDE DEF c
<1> QED
    BY <1>1, <1>2 DEF TypeOK

LEMMA WaitingType ==
    ASSUME IsFiniteSet(Keys), TypeOK
    PROVE  CurrentWaiting \in Nat
<1>1. IsFiniteSet(Workers)
  <2>1. IsFiniteSet(1 .. Int32Max)
      BY ScalingAssumption, FS_Interval
  <2>2. IsFiniteSet(Keys \X (1 .. Int32Max)) /\ Workers \subseteq Keys \X (1 .. Int32Max)
      BY <2>1, FS_Product DEF Workers
  <2> QED
      BY <2>2, FS_Subset
<1> DEFINE taken == {m \in Messages : message[m] = "taken"}
           polls == {k \in Keys : At(k, "reserving") /\ poll[k].on \in open}
<1>2. IsFiniteSet(taken) /\ IsFiniteSet(polls)
    BY ServiceAssumption, FS_Subset
<1>3. Cardinality(Workers) \in Nat /\ Cardinality(taken) \in Nat /\ Cardinality(polls) \in Nat
    BY <1>1, <1>2, FS_CardinalityType
<1> HIDE DEF taken, polls
<1>4. CurrentWaiting = (IF Cardinality(taken) < Cardinality(Workers)
                        THEN Cardinality(Workers) - Cardinality(taken) ELSE 0) + Cardinality(polls)
    BY DEF CurrentWaiting, taken, polls
<1> QED
    BY <1>3, <1>4

LEMMA TypesInit == Init => Types
<1> SUFFICES ASSUME Init PROVE Types
    OBVIOUS
<1>1. {0, 1} \subseteq Nat32
    BY ScalingAssumption DEF Nat32
<1>2. AtRest \in Poll /\ HasTodo(AtRest)
    BY DEF AtRest, Poll, PollPlaces, HasTodo, Commands
<1> QED
    BY <1>1, <1>2 DEF Init, ServiceInit, QueuesInit, Types, TypeOK, ServiceTypeOK, QueuesTypeOK, Places

\* A sync leaves the decision's workers, an int32 that is not negative, for every
\* report a poll may have made.
LEMMA TypesSync ==
    ASSUME ServiceTypeOK, NEW k \in Keys, Sync(k)
    PROVE  ServiceTypeOK'
<1> USE DEF ServiceTypeOK
<1>1. k \in Callers /\ wpa[k] \in WpaSpec /\ replicas[k] \in Nat32
    BY ServiceAssumption
<1>2. replicas[k] \in Int /\ wpa[k].seconds \in Nat /\ wpa[k].uri \in Uris
    BY <1>1, Nat32IsNat DEF WpaSpec
<1>3. CASE StartSync(k)
  <2>1. QueuesTypeOK'
      BY <1>1, <1>2, <1>3, AddListType DEF StartSync
  <2> QED
      BY <1>3, <2>1 DEF StartSync, loopVars
<1>4. ASSUME NEW age, FinishSync(k, age) PROVE ServiceTypeOK'
  <2>1. QueuesTypeOK'
      BY <1>1, <1>4, AddSendType DEF FinishSync
  <2>2. call[k].spec \in QueueSpec
      BY <1>1, <1>4 DEF FinishSync, AddSend, QueuesTypeOK
  <2>3. SpecOK(wpa[k]) /\ ReportOK(call[k].spec)
      BY <1>1, <2>2, Nat32IsNat DEF SpecOK, WpaSpec, ReportOK, QueueSpec
  <2>4. GetDesiredWorkers(wpa[k], call[k].spec, replicas[k]) \in Nat32
      BY <1>1, <2>3, DesiredRange
  <2>5. replicas' \in [Keys -> Nat32]
      BY <1>4, <2>4 DEF FinishSync
  <2> QED
      BY <1>4, <2>1, <2>5 DEF FinishSync
<1> QED
    BY <1>3, <1>4 DEF Sync

\* A step of k's poll that leaves the rest of the world's types alone.
LEMMA TypesOnePoll ==
    ASSUME Types, NEW k \in Keys, NEW p, PollOK(p), poll' = [poll EXCEPT ![k] = p],
           QueuesTypeOK', UNCHANGED loopVars, message' \in [Messages -> Places],
           pool' \in Keys \cup {NoClient}, conn' \in [Keys -> Conns \cup {Nil}],
           open' \subseteq Conns, serverUp' \in BOOLEAN,
           holder' \in [Messages -> Conns \cup {Nil}]
    PROVE  Types'
<1>1. poll' \in [Keys -> Poll] /\ \A i \in Keys : HasTodo(poll'[i])
    BY DEF Types, TypeOK, PollOK
<1>2. \A i \in Keys : HasTodo(poll[i])'
    BY <1>1 DEF HasTodo, Commands
<1>3. ServiceTypeOK'
    BY DEF Types, TypeOK, ServiceTypeOK, loopVars
<1> QED
    BY <1>1, <1>2, <1>3 DEF Types, TypeOK

\* ... and one that leaves everything else alone.
LEMMA TypesOnlyPoll ==
    ASSUME Types, NEW k \in Keys, NEW p, PollOK(p), poll' = [poll EXCEPT ![k] = p],
           UNCHANGED <<queueVars, loopVars, message, clientVars, serverVars>>
    PROVE  Types'
<1>1. QueuesTypeOK'
    BY DEF Types, TypeOK, ServiceTypeOK, QueuesTypeOK, queueVars
<1> QED
    BY <1>1, TypesOnePoll DEF Types, TypeOK, ServiceTypeOK, clientVars, serverVars

\* Where a poll starts again.
LEMMA Restarts ==
    /\ PollOK(AtRest)
    /\ PollOK([AtRest EXCEPT !.at = "client", !.todo = "repair"])
    /\ PollOK([AtRest EXCEPT !.at = "client", !.todo = "idle"])
    /\ \A todo \in Commands, w, l \in SUBSET Messages :
          PollOK([AtRest EXCEPT !.at = "client", !.todo = todo, !.waited = w, !.lived = l])
    /\ PollOK([AtRest EXCEPT !.at = "found"])
    /\ \A place \in {"busy", "waiting"} : PollOK([AtRest EXCEPT !.at = place, !.todo = ""])
    /\ \A n \in Nat : PollOK([AtRest EXCEPT !.at = "waiting", !.ready = n])
    /\ \A client \in Keys \cup {NoClient}, m \in Messages :
          PollOK([AtRest EXCEPT !.at = "statsjob", !.client = client, !.job = m])
<1>1. AtRest \in Poll /\ HasTodo(AtRest)
    BY DEF AtRest, Poll, PollPlaces, Commands, HasTodo
<1> SUFFICES ASSUME NEW p \in Poll
    PROVE /\ PollOK([p EXCEPT !.at = "client", !.todo = "repair"])
          /\ PollOK([p EXCEPT !.at = "client", !.todo = "idle"])
          /\ \A todo \in Commands, w, l \in SUBSET Messages :
                PollOK([p EXCEPT !.at = "client", !.todo = todo, !.waited = w, !.lived = l])
          /\ PollOK([p EXCEPT !.at = "found"])
          /\ \A place \in {"busy", "waiting"} : PollOK([p EXCEPT !.at = place, !.todo = ""])
          /\ \A n \in Nat : PollOK([p EXCEPT !.at = "waiting", !.ready = n])
          /\ \A client \in Keys \cup {NoClient}, m \in Messages :
                PollOK([p EXCEPT !.at = "statsjob", !.client = client, !.job = m])
    BY <1>1 DEF PollOK
<1> USE DEF PollOK, HasTodo, Poll, PollPlaces, Commands
<1>2. /\ PollOK([p EXCEPT !.at = "client", !.todo = "repair"])
      /\ PollOK([p EXCEPT !.at = "client", !.todo = "idle"])
    OBVIOUS
<1>3. \A todo \in Commands, w, l \in SUBSET Messages :
         PollOK([p EXCEPT !.at = "client", !.todo = todo, !.waited = w, !.lived = l])
    OBVIOUS
<1>4. PollOK([p EXCEPT !.at = "found"])
    OBVIOUS
<1>5. \A place \in {"busy", "waiting"} : PollOK([p EXCEPT !.at = place, !.todo = ""])
    OBVIOUS
<1>6. \A n \in Nat : PollOK([p EXCEPT !.at = "waiting", !.ready = n])
    OBVIOUS
<1>7. \A client \in Keys \cup {NoClient}, m \in Messages :
         PollOK([p EXCEPT !.at = "statsjob", !.client = client, !.job = m])
    OBVIOUS
<1> QED
    BY <1>2, <1>3, <1>4, <1>5, <1>6, <1>7

LEMMA TypesPoll ==
    ASSUME IsFiniteSet(Keys), Types, NEW k \in Keys, PollStep(k)
    PROVE  Types'
<1> DEFINE p == poll[k]
           Only(new) == /\ poll' = [poll EXCEPT ![k] = new]
                        /\ UNCHANGED <<queueVars, loopVars, message, clientVars, serverVars>>
<1>1. p \in Poll /\ HasTodo(p) /\ poll \in [Keys -> Poll]
    BY DEF Types, TypeOK
<1>2. /\ QueuesTypeOK /\ message \in [Messages -> Places]
      /\ pool \in Keys \cup {NoClient} /\ conn \in [Keys -> Conns \cup {Nil}]
      /\ open \subseteq Conns /\ serverUp \in BOOLEAN
      /\ holder \in [Messages -> Conns \cup {Nil}]
    BY DEF Types, TypeOK, ServiceTypeOK
<1>3. UNCHANGED queueVars => QueuesTypeOK'
    BY <1>2 DEF QueuesTypeOK, queueVars
<1>4. Visible \in SUBSET Messages /\ InQueue \in SUBSET Messages
    BY DEF Visible, InQueue
<1>5. ASSUME NEW new, PollOK(new), Only(new) PROVE Types'
    BY <1>5, TypesOnlyPoll
<1>6. CASE getClient(k)
  <2>1. p.todo \in Commands
      BY <1>1, <1>6 DEF getClient, At, HasTodo
  <2>2. PollOK([p EXCEPT !.at = "dial"])
      BY <1>1, <2>1 DEF PollOK, HasTodo, Poll, PollPlaces
  <2>3. pool # NoClient => PollOK([p EXCEPT !.at = p.todo, !.client = pool])
      BY <1>1, <1>2, <2>1 DEF PollOK, HasTodo, Poll, PollPlaces
  <2>4. \/ Only([p EXCEPT !.at = "dial"])
        \/ pool # NoClient /\ Only([p EXCEPT !.at = p.todo, !.client = pool])
      BY <1>1, <1>6 DEF getClient
  <2> QED
      BY <1>5, <2>2, <2>3, <2>4
<1>7. CASE NewBeanstalkClient(k)
  <2>1. p.todo \in Commands
      BY <1>1, <1>7 DEF NewBeanstalkClient, At, HasTodo
  <2>2. CASE serverUp
    <3>1. PollOK([p EXCEPT !.at = p.todo, !.client = k])
        BY <1>1, <2>1 DEF PollOK, HasTodo, Poll, PollPlaces
    <3>2. /\ poll' = [poll EXCEPT ![k] = [p EXCEPT !.at = p.todo, !.client = k]]
          /\ Connect(k) /\ pool' = k
          /\ UNCHANGED <<queueVars, loopVars, message, serverUp, holder>>
        BY <1>7, <2>2 DEF NewBeanstalkClient
    <3>3. conn' \in [Keys -> Conns \cup {Nil}] /\ open' \subseteq Conns
        BY <3>2, ConnectType DEF Types
    <3> HIDE DEF p
    <3> QED
        BY <1>2, <1>3, <3>1, <3>2, <3>3, TypesOnePoll
  <2>3. CASE ~serverUp
    <3>1. Only(AtRest) \/ Only([AtRest EXCEPT !.at = "client", !.todo = "repair"])
        BY <1>7, <2>3 DEF NewBeanstalkClient, ToRepair, clientVars, serverVars
    <3> QED
        BY <1>5, <3>1, Restarts
  <2> QED
      BY <2>2, <2>3
<1>8. CASE reestablishConn(k)
  <2>1. conn' \in [Keys -> Conns \cup {Nil}] /\ open' \subseteq Conns
      BY <1>8, ConnectType DEF reestablishConn, Types
  <2>2. At(k, "redial") => PollOK([p EXCEPT !.at = p.todo, !.again = TRUE])
      BY <1>1 DEF PollOK, HasTodo, Poll, PollPlaces, At
  <2>3. \E new : PollOK(new) /\ poll' = [poll EXCEPT ![k] = new]
      BY <1>8, <2>2, Restarts DEF reestablishConn, ToRepair
  <2>4. UNCHANGED <<queueVars, loopVars, message, pool, serverUp, holder>>
      BY <1>8 DEF reestablishConn
  <2> QED
      BY <1>2, <1>3, <2>1, <2>3, <2>4, TypesOnePoll
<1>9. CASE Broken(k)
  <2>1. UNCHANGED <<queueVars, loopVars, message, clientVars, serverVars>>
      BY <1>9 DEF Broken
  <2>2. \/ p.at \in {"reserve", "stats", "idle", "reserving"}
           /\ poll' = [poll EXCEPT ![k] = [p EXCEPT !.at = "redial", !.on = Nil]]
        \/ ToRepair(k)
      BY <1>9 DEF Broken, At
  <2>3. p.at \in {"reserve", "stats", "idle", "reserving"} =>
           PollOK([p EXCEPT !.at = "redial", !.on = Nil])
      BY <1>1 DEF PollOK, HasTodo, Poll, PollPlaces, Commands
  <2> QED
      BY <1>5, <2>1, <2>2, <2>3, Restarts DEF ToRepair
<1>10. CASE Panic(k)
  <2>1. QueuesTypeOK' /\ UNCHANGED loopVars
      BY <1>10, ServiceAssumption DEF Panic, Forgotten, QueuesTypeOK, loopVars
  <2>2. poll' = [i \in Keys |-> AtRest]
      BY <1>10 DEF Panic
  <2>3. poll' \in [Keys -> Poll] /\ \A i \in Keys : HasTodo(poll[i])'
      BY <2>2, Restarts DEF PollOK, HasTodo, Commands
  <2>4. message' \in [Messages -> Places] /\ holder' \in [Messages -> Conns \cup {Nil}]
      BY <1>2, <1>10 DEF Panic, Released, Places
  <2>5. /\ pool' \in Keys \cup {NoClient} /\ conn' \in [Keys -> Conns \cup {Nil}]
        /\ open' \subseteq Conns /\ serverUp' \in BOOLEAN
      BY <1>2, <1>10 DEF Panic
  <2> QED
      BY <2>1, <2>3, <2>4, <2>5 DEF Types, TypeOK, ServiceTypeOK, loopVars
<1>11. CASE ListOne(k)
  <2> DEFINE long == item[k].workers = 0 /\ item[k].messages = 0
             new == [AtRest EXCEPT !.at = "client", !.todo = IF long THEN "reserve" ELSE "stats",
                                   !.waited = IF long THEN Visible ELSE {},
                                   !.lived = IF long THEN {} ELSE InQueue]
  <2>1. Only(new)
      BY <1>11 DEF ListOne
  <2>2. (IF long THEN "reserve" ELSE "stats") \in Commands
      BY DEF Commands
  <2> HIDE DEF long
  <2>3. PollOK(new)
      BY <1>4, <2>2, Restarts
  <2> QED
      BY <1>5, <2>1, <2>3
<1>12. CASE doLongPoll(k)
  <2>1. Conn(k) \in Conns
      BY <1>2, <1>12 DEF doLongPoll, Answers
  <2>2. p.todo \in Commands
      BY <1>1, <1>12 DEF doLongPoll, At, HasTodo, Commands
  <2>3. PollOK([p EXCEPT !.at = "reserving", !.on = Conn(k)])
      BY <1>1, <2>1, <2>2 DEF PollOK, HasTodo, Poll, PollPlaces
  <2> QED
      BY <1>5, <1>12, <2>3 DEF doLongPoll
<1>13. CASE TimedOut(k)
  <2>1. PollOK([p EXCEPT !.at = "none", !.on = Nil])
      BY <1>1 DEF PollOK, HasTodo, Poll, PollPlaces, Commands
  <2> QED
      BY <1>5, <1>13, <2>1 DEF TimedOut
<1>14. CASE StatsJob(k)
  <2>1. PollOK([p EXCEPT !.at = "release"])
      BY <1>1 DEF PollOK, HasTodo, Poll, PollPlaces, Commands
  <2> QED
      BY <1>5, <1>14, <2>1, Restarts DEF StatsJob, ToRepair, Go
<1>15. CASE Release(k)
  <2>1. message' \in [Messages -> Places] /\ holder' \in [Messages -> Conns \cup {Nil}]
      BY <1>2, <1>15 DEF Release, Move, Places
  <2>2. PollOK([AtRest EXCEPT !.at = "found"])
      BY Restarts
  <2>3. /\ poll' = [poll EXCEPT ![k] = [AtRest EXCEPT !.at = "found"]]
        /\ UNCHANGED <<queueVars, loopVars, clientVars, open, serverUp>>
      BY <1>15 DEF Release
  <2> QED
      BY <1>2, <1>3, <2>1, <2>2, <2>3, TypesOnePoll DEF clientVars
<1>16. ASSUME NEW m \in Messages, Reserved(k, m) PROVE Types'
  <2>1. message' \in [Messages -> Places] /\ holder' \in [Messages -> Conns \cup {Nil}]
      BY <1>1, <1>2, <1>16 DEF Reserved, Move, Places, Poll
  <2> DEFINE new == [AtRest EXCEPT !.at = "statsjob", !.client = p.client, !.job = m]
  <2>2. PollOK(new)
    <3>1. p.client \in Keys \cup {NoClient}
        BY <1>1 DEF Poll
    <3> QED
        BY <3>1, Restarts
  <2>3. \A i \in Keys : PollOK([poll[i] EXCEPT !.waited = @ \ {m}])
      BY DEF PollOK, HasTodo, Poll, Types, TypeOK
  <2>4. poll' = [i \in Keys |-> IF i = k THEN new ELSE [poll[i] EXCEPT !.waited = @ \ {m}]]
      BY <1>16 DEF Reserved
  <2> HIDE DEF new
  <2>5. poll' \in [Keys -> Poll] /\ \A i \in Keys : HasTodo(poll'[i])
      BY <2>2, <2>3, <2>4 DEF PollOK
  <2>6. \A i \in Keys : HasTodo(poll[i])'
      BY <2>5 DEF HasTodo, Commands
  <2>7. UNCHANGED <<queueVars, loopVars, clientVars, open, serverUp>>
      BY <1>16 DEF Reserved
  <2> QED
      BY <1>3, <2>1, <2>5, <2>6, <2>7 DEF Types, TypeOK, ServiceTypeOK, loopVars, clientVars
<1>17. CASE executeGetStats(k)
  <2>1. PollOK([AtRest EXCEPT !.at = "waiting", !.ready = CurrentWaiting])
      BY WaitingType, Restarts DEF Types
  <2>2. Cardinality(Visible) \in Nat /\ Cardinality(InQueue \ Visible) \in Nat
      BY <1>4, Count
  <2>3. PollOK([p EXCEPT !.at = "report", !.ready = Cardinality(Visible),
                         !.reserved = Cardinality(InQueue \ Visible)])
      BY <1>1, <2>2 DEF PollOK, HasTodo, Poll, PollPlaces, Commands
  <2>4. \/ Only([AtRest EXCEPT !.at = "waiting", !.ready = CurrentWaiting])
        \/ Only([p EXCEPT !.at = "report", !.ready = Cardinality(Visible),
                          !.reserved = Cardinality(InQueue \ Visible)])
      BY <1>17 DEF executeGetStats
  <2> QED
      BY <1>5, <2>1, <2>3, <2>4
<1>18. CASE Report(k)
  <2>1. p.ready + p.reserved \in Int
    <3>1. p.ready \in Nat /\ p.reserved \in Nat
        BY <1>1 DEF Poll
    <3> QED
        BY <3>1
  <2>2. \E n \in Int : updateMessage(k, n)
    <3> DEFINE n == CASE p.at = "found"  -> 1
                      [] p.at = "none"   -> 0
                      [] p.at = "report" -> p.ready + p.reserved
    <3>1. n \in Int
      <4> HIDE DEF p
      <4>1. p.at \in {"found", "none", "report"}
          BY <1>18 DEF Report, p
      <4> QED
          BY <2>1, <4>1
    <3>2. updateMessage(k, n)
        BY <1>18 DEF Report
    <3> HIDE DEF n
    <3> QED
        BY <3>1, <3>2
  <2>3. QueuesTypeOK'
      BY <1>2, <2>2, ReportType DEF Reported, QueuesTypeOK
  <2>4. \E new : PollOK(new) /\ poll' = [poll EXCEPT ![k] = new]
    <3> DEFINE GoOn(place, todo) == [AtRest EXCEPT !.at = place, !.todo = todo]
               new == CASE p.at # "report"                       -> GoOn("waiting", "")
                        [] p.at = "report" /\ p.ready # 0        -> GoOn("busy", "")
                        [] p.at = "report" /\ p.ready + p.reserved = 0 -> GoOn("client", "idle")
                        [] OTHER                                 -> AtRest
    <3>1. /\ PollOK(GoOn("waiting", "")) /\ PollOK(GoOn("busy", ""))
          /\ PollOK(GoOn("client", "idle")) /\ PollOK(AtRest)
        BY Restarts
    <3>2. poll' = [poll EXCEPT ![k] = new]
        BY <1>18 DEF Report
    <3> HIDE DEF GoOn
    <3>3. \/ new = GoOn("waiting", "") \/ new = GoOn("busy", "")
          \/ new = GoOn("client", "idle") \/ new = AtRest
        OBVIOUS
    <3> HIDE DEF new
    <3> QED
        BY <3>1, <3>2, <3>3
  <2>5. UNCHANGED <<loopVars, message, clientVars, serverVars>>
      BY <1>18 DEF Report
  <2> QED
      BY <1>2, <2>3, <2>4, <2>5, TypesOnePoll DEF clientVars, serverVars
<1>19. CASE ReportIdle(k)
  <2>1. \E n \in Int : updateIdleWorkers(k, n)
    <3> DEFINE n == IF At(k, "busy") THEN -1 ELSE p.ready
    <3>1. p.ready \in Nat
        BY <1>1 DEF Poll
    <3>2. n \in Int
        BY <3>1
    <3>3. updateIdleWorkers(k, n)
        BY <1>19 DEF ReportIdle
    <3> HIDE DEF n
    <3> QED
        BY <3>2, <3>3
  <2>2. QueuesTypeOK'
      BY <1>2, <2>1, ReportType DEF Reported, QueuesTypeOK
  <2>3. UNCHANGED <<loopVars, message, clientVars, serverVars>> /\ poll' = [poll EXCEPT ![k] = AtRest]
      BY <1>19 DEF ReportIdle
  <2> QED
      BY <1>2, <2>2, <2>3, Restarts, TypesOnePoll DEF clientVars, serverVars
<1> HIDE DEF p, Only
<1> QED
    BY <1>6, <1>7, <1>8, <1>9, <1>10, <1>11, <1>12, <1>13, <1>14, <1>15, <1>16, <1>17, <1>18, <1>19
       DEF PollStep

\* What the others do leaves the places of the polls.
LEMMA TypesOutdate ==
    ASSUME Types, NEW waited, NEW lived, Outdate(waited, lived)
    PROVE  poll' \in [Keys -> Poll] /\ \A k \in Keys : HasTodo(poll[k])'
<1>1. \A k \in Keys : /\ [poll[k] EXCEPT !.waited = @ \ waited, !.lived = @ \ lived] \in Poll
                      /\ HasTodo([poll[k] EXCEPT !.waited = @ \ waited, !.lived = @ \ lived])
    BY DEF Types, TypeOK, Poll, HasTodo
<1>2. poll' \in [Keys -> Poll] /\ \A k \in Keys : HasTodo(poll'[k])
    BY <1>1 DEF Outdate
<1> QED
    BY <1>2 DEF HasTodo, Commands

LEMMA TypesOthers ==
    ASSUME Types,
           \/ \E m \in Messages : \/ /\ Send(m) \/ Receive(m) \/ Remove(m)
                                     /\ UNCHANGED <<clientVars, serverVars>>
                                  \/ TimeOut(m)
           \/ \E c \in Conns : Drop(c)
           \/ ServerDown \/ ServerUp
    PROVE  Types'
<1>1. UNCHANGED <<item, call, wpa, replicas, clientVars>>
    BY DEF Send, Receive, Remove, TimeOut, Drop, ServerDown, ServerUp, loopVars, queueVars,
           clientVars
<1>2. message \in [Messages -> Places] /\ holder \in [Messages -> Conns \cup {Nil}]
    BY DEF Types, TypeOK, ServiceTypeOK
<1>3. message' \in [Messages -> Places] /\ holder' \in [Messages -> Conns \cup {Nil}]
    BY <1>2 DEF Send, Receive, Remove, TimeOut, Move, Drop, Released, ServerDown, ServerUp, Places,
                serverVars
<1>4. open' \subseteq Conns /\ serverUp' \in BOOLEAN
    BY DEF Send, Receive, Remove, TimeOut, Drop, ServerDown, ServerUp, serverVars, Types, TypeOK
<1>5. UNCHANGED poll \/ \E waited, lived : Outdate(waited, lived)
    BY DEF Send, Receive, Remove, TimeOut, Drop, ServerDown, ServerUp
<1>6. UNCHANGED poll => poll' \in [Keys -> Poll] /\ \A k \in Keys : HasTodo(poll[k])'
    BY DEF Types, TypeOK, HasTodo, Commands
<1>7. poll' \in [Keys -> Poll] /\ \A k \in Keys : HasTodo(poll[k])'
    BY <1>5, <1>6, TypesOutdate
<1> QED
    BY <1>1, <1>3, <1>4, <1>7 DEF Types, TypeOK, ServiceTypeOK, QueuesTypeOK, clientVars

LEMMA TypesNext == IsFiniteSet(Keys) /\ Types /\ [Next]_vars => Types'
<1> SUFFICES ASSUME IsFiniteSet(Keys), Types, [Next]_vars PROVE Types'
    OBVIOUS
<1>1. ASSUME UNCHANGED <<poll, clientVars, serverVars>>, ServiceTypeOK' PROVE Types'
    BY <1>1 DEF Types, TypeOK, HasTodo, Commands, clientVars, serverVars
<1>2. ASSUME NEW k \in Keys, Sync(k), UNCHANGED <<clientVars, serverVars>> PROVE Types'
  <2>1. UNCHANGED poll
      BY <1>2 DEF Sync, StartSync, FinishSync
  <2>2. ServiceTypeOK'
      BY <1>2, TypesSync DEF Types, TypeOK
  <2> QED
      BY <1>1, <1>2, <2>1, <2>2
<1>3. ASSUME NEW k \in Keys, EditSpec(k), UNCHANGED <<clientVars, serverVars>> PROVE Types'
  <2>1. UNCHANGED poll /\ ServiceTypeOK'
      BY <1>3 DEF EditSpec, Types, TypeOK, ServiceTypeOK, QueuesTypeOK
  <2> QED
      BY <1>1, <1>3, <2>1
<1>4. CASE UNCHANGED vars
  <2>1. UNCHANGED <<poll, clientVars, serverVars>> /\ ServiceTypeOK'
      BY <1>4 DEF vars, loopVars, Types, TypeOK, ServiceTypeOK, QueuesTypeOK
  <2> QED
      BY <1>1, <2>1
<1> QED
    BY <1>2, <1>3, <1>4, TypesOthers, TypesPoll DEF Next

\* Whatever connections are lost, however the server restarts and the goroutines of
\* the queues share clients, the pool and the polls refer to connections there are,
\* and the replicas stay an int32 that is not negative.
THEOREM TypeCorrect ==
    ASSUME IsFiniteSet(Keys)
    PROVE  Spec => []TypeOK
<1>1. Types => TypeOK
    BY DEF Types
<1>2. Types /\ [Next]_vars => Types'
    BY TypesNext
<1> QED
    BY <1>1, <1>2, TypesInit, PTL DEF Spec

-----------------------------------------------------------------------------
(* The counts                                                              *)

\* What a poll has yet to find is still there.
CountedBy(k) ==
    /\ poll[k].lived \subseteq InQueue
    /\ poll[k].waited \subseteq Visible
    /\ At(k, "report") => poll[k].ready + poll[k].reserved >= Cardinality(poll[k].lived)
    /\ At(k, "none") => poll[k].waited = {}

Counted == \A k \in Keys : CountedBy(k)

LEMMA CountedInit == Init => Counted
<1> SUFFICES ASSUME Init, NEW k \in Keys PROVE CountedBy(k)
    BY DEF Counted
<1>1. poll[k] = AtRest
    BY DEF Init
<1>2. AtRest.lived = {} /\ AtRest.waited = {} /\ AtRest.at = "list"
    BY DEF AtRest
<1> QED
    BY <1>1, <1>2 DEF CountedBy, At

\* A step that leaves k's poll where it is, and of what it has yet to find no more
\* than there is.
LEMMA CountedStays ==
    ASSUME Types, Counted, NEW k \in Keys,
           poll'[k].at = poll[k].at, poll'[k].ready = poll[k].ready,
           poll'[k].reserved = poll[k].reserved,
           poll'[k].lived \subseteq poll[k].lived, poll'[k].waited \subseteq poll[k].waited,
           poll'[k].lived \subseteq InQueue', poll'[k].waited \subseteq Visible'
    PROVE  CountedBy(k)'
<1>1. poll[k].lived \in SUBSET Messages /\ poll[k].ready \in Nat /\ poll[k].reserved \in Nat
    BY DEF Types, TypeOK, Poll
<1>2. /\ Cardinality(poll'[k].lived) <= Cardinality(poll[k].lived)
      /\ Cardinality(poll'[k].lived) \in Nat /\ Cardinality(poll[k].lived) \in Nat
    BY <1>1, Count
<1>3. CountedBy(k)
    BY DEF Counted
<1> QED
    BY <1>1, <1>2, <1>3 DEF CountedBy, At

\* What the others do to a poll.
LEMMA OutdateKeeps ==
    ASSUME Types, NEW waited, NEW lived, Outdate(waited, lived), NEW k \in Keys
    PROVE  /\ poll'[k].at = poll[k].at /\ poll'[k].client = poll[k].client
           /\ poll'[k].on = poll[k].on /\ poll'[k].job = poll[k].job
           /\ poll'[k].ready = poll[k].ready /\ poll'[k].reserved = poll[k].reserved
           /\ poll'[k].waited = poll[k].waited \ waited /\ poll'[k].lived = poll[k].lived \ lived
<1>1. poll[k] \in Poll
    BY DEF Types, TypeOK
<1> QED
    BY <1>1 DEF Outdate, Poll

LEMMA CountedOthers ==
    ASSUME Types, Counted,
           \/ \E m \in Messages : Send(m) \/ Receive(m) \/ Remove(m) \/ TimeOut(m)
           \/ \E c \in Conns : Drop(c)
           \/ ServerDown \/ ServerUp
    PROVE  Counted'
<1> SUFFICES ASSUME NEW k \in Keys PROVE CountedBy(k)'
    BY DEF Counted
<1>1. /\ poll[k].lived \subseteq InQueue /\ poll[k].waited \subseteq Visible
      /\ message \in [Messages -> Places]
    BY DEF Counted, CountedBy, Types, TypeOK, ServiceTypeOK
<1>2. ASSUME NEW m \in Messages, Send(m) \/ TimeOut(m) PROVE CountedBy(k)'
  <2>1. /\ \A n \in Messages : n # m => message'[n] = message[n]
        /\ message'[m] = "visible" /\ UNCHANGED poll
      BY <1>1, <1>2 DEF Send, TimeOut, Move
  <2> QED
      BY <1>1, <2>1, CountedStays DEF InQueue, Visible
<1>3. ASSUME NEW m \in Messages, Receive(m) PROVE CountedBy(k)'
  <2>1. /\ \A n \in Messages : n # m => message'[n] = message[n]
        /\ message'[m] = "taken" /\ Outdate({m}, {})
      BY <1>1, <1>3 DEF Receive, Move
  <2>2. poll'[k].lived \subseteq InQueue' /\ poll'[k].waited \subseteq Visible'
      BY <1>1, <2>1, OutdateKeeps DEF InQueue, Visible
  <2> QED
      BY <2>1, <2>2, OutdateKeeps, CountedStays
<1>4. ASSUME NEW m \in Messages, Remove(m) PROVE CountedBy(k)'
  <2>1. /\ \A n \in Messages : n # m => message'[n] = message[n]
        /\ Outdate({m}, {m})
      BY <1>1, <1>4 DEF Remove, Move
  <2>2. poll'[k].lived \subseteq InQueue' /\ poll'[k].waited \subseteq Visible'
      BY <1>1, <2>1, OutdateKeeps DEF InQueue, Visible
  <2> QED
      BY <2>1, <2>2, OutdateKeeps, CountedStays
<1>5. ASSUME NEW c \in Conns, Drop(c) PROVE CountedBy(k)'
  <2>1. UNCHANGED poll /\ \A m \in Messages : message'[m] \in {"visible", message[m]}
      BY <1>5 DEF Drop, Released
  <2> QED
      BY <1>1, <2>1, CountedStays DEF InQueue, Visible
<1>6. CASE ServerDown
  <2>1. \/ UNCHANGED poll /\ message' = [m \in Messages |-> IF m \in InQueue THEN "visible" ELSE "absent"]
        \/ Outdate(Messages, Messages)
      BY <1>6 DEF ServerDown
  <2>2. CASE UNCHANGED poll /\ message' = [m \in Messages |-> IF m \in InQueue THEN "visible" ELSE "absent"]
      BY <1>1, <2>2, CountedStays DEF InQueue, Visible
  <2>3. CASE Outdate(Messages, Messages)
    <3>1. poll'[k].lived = {} /\ poll'[k].waited = {}
        BY <1>1, <2>3, OutdateKeeps DEF InQueue, Visible
    <3> QED
        BY <2>3, <3>1, OutdateKeeps, CountedStays
  <2> QED
      BY <2>1, <2>2, <2>3
<1>7. CASE ServerUp
  <2>1. UNCHANGED <<poll, message>>
      BY <1>7 DEF ServerUp
  <2> QED
      BY <1>1, <2>1, CountedStays DEF InQueue, Visible
<1> QED
    BY <1>2, <1>3, <1>4, <1>5, <1>6, <1>7

\* Where a step of k's poll is not one of the answers that count.
LEMMA CountedPoll ==
    ASSUME Types, Counted, NEW k \in Keys, PollStep(k)
    PROVE  Counted'
<1>1. /\ poll[k] \in Poll /\ HasTodo(poll[k]) /\ CountedBy(k)
      /\ message \in [Messages -> Places]
    BY DEF Types, TypeOK, ServiceTypeOK, Counted
<1> DEFINE Others == \A i \in Keys : i # k => poll'[i] = poll[i]
           Fresh(p) == p.lived = {} /\ p.waited = {} /\ p.at # "report"
           Same(p) == /\ p.lived = poll[k].lived /\ p.waited = poll[k].waited
                      /\ p.at \notin {"report", "none"}
<1>2. poll \in [Keys -> Poll]
    BY DEF Types, TypeOK
<1>3. ASSUME NEW new, poll' = [poll EXCEPT ![k] = new], Fresh(new) \/ Same(new),
             UNCHANGED message
      PROVE  Counted'
  <2>1. poll'[k] = new /\ Others /\ InQueue' = InQueue /\ Visible' = Visible
      BY <1>2, <1>3 DEF InQueue, Visible
  <2> QED
      BY <1>1, <1>3, <2>1 DEF Counted, CountedBy, At
<1>4. Fresh(AtRest) /\ Fresh([AtRest EXCEPT !.at = "client", !.todo = "repair"])
    BY DEF AtRest
<1>5. CASE getClient(k) \/ NewBeanstalkClient(k) \/ reestablishConn(k)
  <2>1. poll[k].todo \in Commands
      BY <1>1, <1>5 DEF getClient, NewBeanstalkClient, reestablishConn, At, HasTodo, Commands
  <2>2. /\ Same([poll[k] EXCEPT !.at = "dial"])
        /\ Same([poll[k] EXCEPT !.at = poll[k].todo, !.client = pool])
        /\ Same([poll[k] EXCEPT !.at = poll[k].todo, !.client = k])
    <3>1. \A place, client : LET new == [poll[k] EXCEPT !.at = place, !.client = client]
                             IN  new.at = place /\ new.lived = poll[k].lived /\ new.waited = poll[k].waited
        BY <1>1 DEF Poll
    <3>2. LET new == [poll[k] EXCEPT !.at = "dial"]
          IN  new.at = "dial" /\ new.lived = poll[k].lived /\ new.waited = poll[k].waited
        BY <1>1 DEF Poll
    <3> QED
        BY <2>1, <3>1, <3>2 DEF Commands
  <2>3. At(k, "repair") \/ At(k, "redial") => Same([poll[k] EXCEPT !.at = poll[k].todo, !.again = TRUE])
      BY <1>1, <2>1 DEF Poll, Commands
  <2>4. \E new : /\ poll' = [poll EXCEPT ![k] = new]
                 /\ \/ new = AtRest \/ new = [AtRest EXCEPT !.at = "client", !.todo = "repair"]
                    \/ new = [poll[k] EXCEPT !.at = "dial"]
                    \/ new = [poll[k] EXCEPT !.at = poll[k].todo, !.client = pool]
                    \/ new = [poll[k] EXCEPT !.at = poll[k].todo, !.client = k]
                    \/ /\ At(k, "repair") \/ At(k, "redial")
                       /\ new = [poll[k] EXCEPT !.at = poll[k].todo, !.again = TRUE]
      BY <1>2, <1>5 DEF getClient, NewBeanstalkClient, reestablishConn, ToRepair
  <2>5. UNCHANGED message
      BY <1>5 DEF getClient, NewBeanstalkClient, reestablishConn
  <2> HIDE DEF Same, Fresh
  <2> QED
      BY <1>3, <1>4, <2>2, <2>3, <2>4, <2>5
<1>6. CASE Broken(k) \/ StatsJob(k)
  <2>1. /\ Same([poll[k] EXCEPT !.at = "redial", !.on = Nil])
        /\ Same([poll[k] EXCEPT !.at = "release"])
      BY <1>1 DEF Poll
  <2>2. \E new : /\ poll' = [poll EXCEPT ![k] = new]
                 /\ \/ new = [AtRest EXCEPT !.at = "client", !.todo = "repair"]
                    \/ new = [poll[k] EXCEPT !.at = "redial", !.on = Nil]
                    \/ new = [poll[k] EXCEPT !.at = "release"]
      BY <1>2, <1>6 DEF Broken, StatsJob, ToRepair, Go
  <2>3. UNCHANGED message
      BY <1>6 DEF Broken, StatsJob
  <2> HIDE DEF Same, Fresh
  <2> QED
      BY <1>3, <1>4, <2>1, <2>2, <2>3
<1>7. CASE doLongPoll(k) \/ ReportIdle(k)
  <2>1. Same([poll[k] EXCEPT !.at = "reserving", !.on = Conn(k)])
      BY <1>1 DEF Poll
  <2>2. \/ poll' = [poll EXCEPT ![k] = [poll[k] EXCEPT !.at = "reserving", !.on = Conn(k)]]
        \/ poll' = [poll EXCEPT ![k] = AtRest]
      BY <1>2, <1>7 DEF doLongPoll, ReportIdle
  <2>3. UNCHANGED message
      BY <1>7 DEF doLongPoll, ReportIdle
  <2> HIDE DEF Same, Fresh
  <2> QED
      BY <1>3, <1>4, <2>1, <2>2, <2>3
<1>8. CASE Report(k)
  <2>1. \A place, todo : place # "report" => Fresh([AtRest EXCEPT !.at = place, !.todo = todo])
      BY DEF AtRest
  <2>2. \E new : /\ poll' = [poll EXCEPT ![k] = new]
                 /\ \/ new = AtRest
                    \/ \E place, todo : /\ place # "report"
                                        /\ new = [AtRest EXCEPT !.at = place, !.todo = todo]
    <3> DEFINE GoOn(place, todo) == [AtRest EXCEPT !.at = place, !.todo = todo]
               p == poll[k]
               new == CASE p.at # "report"                       -> GoOn("waiting", "")
                        [] p.at = "report" /\ p.ready # 0        -> GoOn("busy", "")
                        [] p.at = "report" /\ p.ready + p.reserved = 0 -> GoOn("client", "idle")
                        [] OTHER                                 -> AtRest
    <3>1. poll' = [poll EXCEPT ![k] = new]
        BY <1>8 DEF Report
    <3>2. \A place, todo : GoOn(place, todo) = [AtRest EXCEPT !.at = place, !.todo = todo]
        OBVIOUS
    <3> HIDE DEF GoOn
    <3>3. \/ new = GoOn("waiting", "") \/ new = GoOn("busy", "")
          \/ new = GoOn("client", "idle") \/ new = AtRest
        OBVIOUS
    <3> HIDE DEF new
    <3> QED
        BY <3>1, <3>2, <3>3
  <2>3. UNCHANGED message
      BY <1>8 DEF Report
  <2> HIDE DEF Same, Fresh
  <2> QED
      BY <1>3, <1>4, <2>1, <2>2, <2>3
<1>9. CASE Panic(k)
  <2>1. AtRest.lived = {} /\ AtRest.waited = {} /\ AtRest.at = "list"
      BY DEF AtRest
  <2>2. \A i \in Keys : poll'[i] = AtRest
      BY <1>9 DEF Panic
  <2> QED
      BY <2>1, <2>2 DEF Counted, CountedBy, At
<1>10. CASE ListOne(k)
  <2> DEFINE new == poll'[k]
  <2>1. /\ new.at = "client" /\ new.waited \subseteq Visible /\ new.lived \subseteq InQueue
        /\ Others /\ UNCHANGED message
      BY <1>2, <1>10 DEF ListOne, AtRest
  <2>2. InQueue' = InQueue /\ Visible' = Visible
      BY <2>1 DEF InQueue, Visible
  <2> QED
      BY <2>1, <2>2 DEF Counted, CountedBy, At
<1>11. CASE TimedOut(k)
  <2>1. /\ poll'[k].at = "none" /\ poll'[k].waited = poll[k].waited /\ poll'[k].lived = poll[k].lived
        /\ Others /\ UNCHANGED message /\ Visible = {}
      BY <1>1, <1>2, <1>11 DEF TimedOut, Poll
  <2>2. InQueue' = InQueue /\ Visible' = Visible
      BY <2>1 DEF InQueue, Visible
  <2>3. poll[k].waited = {}
      BY <1>1, <2>1 DEF CountedBy
  <2> QED
      BY <1>1, <2>1, <2>2, <2>3 DEF Counted, CountedBy, At
<1>12. CASE executeGetStats(k)
  <2>1. CASE At(k, "stats")
    <3>1. /\ poll'[k].at = "report" /\ poll'[k].waited = poll[k].waited
          /\ poll'[k].lived = poll[k].lived
          /\ poll'[k].ready = Cardinality(Visible)
          /\ poll'[k].reserved = Cardinality(InQueue \ Visible)
          /\ Others /\ UNCHANGED message
        BY <1>1, <1>2, <1>12, <2>1 DEF executeGetStats, Poll
    <3>2. InQueue' = InQueue /\ Visible' = Visible
        BY <3>1 DEF InQueue, Visible
    <3>3. Cardinality(Visible) + Cardinality(InQueue \ Visible) = Cardinality(InQueue)
      <4>1. IsFiniteSet(Visible) /\ IsFiniteSet(InQueue \ Visible)
          BY ServiceAssumption, FS_Subset DEF Visible, InQueue
      <4>2. Visible \cup (InQueue \ Visible) = InQueue /\ Visible \cap (InQueue \ Visible) = {}
          BY DEF Visible, InQueue
      <4>3. Cardinality(Visible) \in Nat /\ Cardinality(InQueue \ Visible) \in Nat
          BY <4>1, FS_CardinalityType
      <4> QED
          BY <4>1, <4>2, <4>3, FS_Union, FS_EmptySet
    <3>4. Cardinality(InQueue) >= Cardinality(poll[k].lived)
      <4>1. poll[k].lived \in SUBSET InQueue /\ InQueue \in SUBSET Messages
          BY <1>1 DEF CountedBy, InQueue
      <4>2. /\ Cardinality(InQueue) \in Nat /\ Cardinality(poll[k].lived) \in Nat
            /\ Cardinality(poll[k].lived) <= Cardinality(InQueue)
          BY <4>1, Count
      <4> QED
          BY <4>2
    <3> QED
        BY <1>1, <3>1, <3>2, <3>3, <3>4 DEF Counted, CountedBy, At
  <2>2. CASE ~At(k, "stats")
    <3>1. poll' = [poll EXCEPT ![k] = [AtRest EXCEPT !.at = "waiting", !.ready = CurrentWaiting]]
        BY <1>12, <2>2 DEF executeGetStats
    <3>2. Fresh([AtRest EXCEPT !.at = "waiting", !.ready = CurrentWaiting])
        BY DEF AtRest
    <3>3. UNCHANGED message
        BY <1>12 DEF executeGetStats
    <3> HIDE DEF Same, Fresh
    <3> QED
        BY <1>3, <3>1, <3>2, <3>3
  <2> QED
      BY <2>1, <2>2
<1>13. CASE Release(k)
  <2>1. /\ poll'[k].at = "found" /\ poll'[k].waited = {} /\ poll'[k].lived = {}
        /\ Others
      BY <1>2, <1>13 DEF Release, AtRest
  <2>2. InQueue \subseteq InQueue' /\ Visible \subseteq Visible'
      BY <1>1, <1>13 DEF Release, Move, InQueue, Visible
  <2> QED
      BY <2>1, <2>2 DEF Counted, CountedBy, At
<1>14. ASSUME NEW m \in Messages, Reserved(k, m) PROVE Counted'
  <2>1. /\ poll'[k].at = "statsjob" /\ poll'[k].waited = {} /\ poll'[k].lived = {}
        /\ \A i \in Keys : i # k => /\ poll'[i].at = poll[i].at /\ poll'[i].lived = poll[i].lived
                                    /\ poll'[i].ready = poll[i].ready
                                    /\ poll'[i].reserved = poll[i].reserved
                                    /\ poll'[i].waited = poll[i].waited \ {m}
      BY <1>2, <1>14 DEF Reserved, AtRest, Poll
  <2>2. InQueue' = InQueue /\ Visible' = Visible \ {m}
      BY <1>1, <1>14 DEF Reserved, Move, InQueue, Visible
  <2> QED
      BY <2>1, <2>2 DEF Counted, CountedBy, At
<1> HIDE DEF Others, Fresh, Same
<1> QED
    BY <1>5, <1>6, <1>7, <1>8, <1>9, <1>10, <1>11, <1>12, <1>13, <1>14 DEF PollStep

LEMMA CountedNext == Types /\ Counted /\ [Next]_vars => Counted'
<1> SUFFICES ASSUME Types, Counted, [Next]_vars PROVE Counted'
    OBVIOUS
<1>1. CASE UNCHANGED <<message, poll>>
    BY <1>1 DEF Counted, CountedBy, At, Visible, InQueue
<1>2. ASSUME NEW k \in Keys, Sync(k) \/ EditSpec(k) PROVE UNCHANGED <<message, poll>>
    BY <1>2 DEF Sync, StartSync, FinishSync, EditSpec
<1> QED
    BY <1>1, <1>2, CountedOthers, CountedPoll DEF Next, vars

\* However many jobs a tube has, and however connections fail between the commands of
\* a poll, the count it reports is no less than the jobs that stayed in the tube; a
\* long poll that reports none has missed none that waited.
THEOREM NothingOverlooked ==
    ASSUME IsFiniteSet(Keys)
    PROVE  Spec => []NoneOverlooked
<1>1. Counted => NoneOverlooked
    BY DEF Counted, CountedBy, NoneOverlooked
<1>2. Types /\ [Next]_vars => Types'
    BY TypesNext
<1>3. Spec => [](Types /\ Counted)
    BY <1>2, TypesInit, CountedInit, CountedNext, PTL DEF Spec
<1> QED
    BY <1>1, <1>3, PTL

-----------------------------------------------------------------------------
(* The jobs the long poll reserves, when one queue uses the tube           *)

\* Its goroutine alone changes the connection of the client it has: not between the
\* reserve and the release, and not to another one while the job's is alive.
HoldsItsJob ==
    /\ \A k \in Keys : At(k, "reserving") => poll[k].on = Conn(k)
    /\ \A m \in Messages :
          message[m] = "held" => \E k \in Keys : /\ poll[k].at \in {"statsjob", "release"}
                                                 /\ poll[k].job = m
                                                 /\ holder[m] = Conn(k) /\ Conn(k) \in open

LEMMA HoldsInit == Init => HoldsItsJob
<1> SUFFICES ASSUME Init PROVE HoldsItsJob
    OBVIOUS
<1>1. \A k \in Keys : poll[k].at = "list"
    BY DEF Init, AtRest
<1>2. \A m \in Messages : message[m] = "absent"
    BY DEF Init, ServiceInit
<1> QED
    BY <1>1, <1>2 DEF HoldsItsJob, At

\* Those that may end a reservation do not keep it.
LEMMA HoldsOthers ==
    ASSUME Types, HoldsItsJob,
           \/ \E m \in Messages : \/ /\ Send(m) \/ Receive(m) \/ Remove(m)
                                     /\ UNCHANGED <<clientVars, serverVars>>
                                  \/ TimeOut(m)
           \/ \E c \in Conns : Drop(c)
           \/ ServerDown \/ ServerUp
    PROVE  HoldsItsJob'
<1>1. message \in [Messages -> Places] /\ holder \in [Messages -> Conns \cup {Nil}]
    BY DEF Types, TypeOK, ServiceTypeOK
<1>2. UNCHANGED clientVars
    BY DEF TimeOut, Drop, ServerDown, ServerUp
<1>3. \A k \in Keys : /\ poll'[k].at = poll[k].at /\ poll'[k].client = poll[k].client
                      /\ poll'[k].on = poll[k].on /\ poll'[k].job = poll[k].job
  <2>1. UNCHANGED poll \/ \E waited, lived : Outdate(waited, lived)
      BY DEF Send, Receive, Remove, TimeOut, Drop, ServerDown, ServerUp
  <2> QED
      BY <2>1, OutdateKeeps
<1>4. ASSUME NEW m \in Messages, message'[m] = "held"
      PROVE  message[m] = "held" /\ holder'[m] = holder[m] /\ (holder[m] \in open => holder[m] \in open')
  <2>1. CASE \E n \in Messages : /\ Send(n) \/ Receive(n) \/ Remove(n)
                                 /\ UNCHANGED <<clientVars, serverVars>>
      BY <1>1, <1>4, <2>1 DEF Send, Receive, Remove, Move, serverVars
  <2>2. CASE \E n \in Messages : TimeOut(n)
      BY <1>1, <1>4, <2>2 DEF TimeOut, Move
  <2>3. ASSUME NEW c \in Conns, Drop(c) PROVE holder[m] # c /\ message'[m] = message[m]
                                              /\ holder'[m] = holder[m] /\ open' = open \ {c}
      BY <1>1, <1>4, <2>3 DEF Drop, Released
  <2>4. CASE ServerDown
      BY <1>4, <2>4 DEF ServerDown
  <2>5. CASE ServerUp
      BY <1>4, <2>5 DEF ServerUp
  <2> QED
      BY <1>4, <2>1, <2>2, <2>3, <2>4, <2>5
<1>5. \A k \in Keys : Conn(k)' = Conn(k)
    BY <1>2, <1>3 DEF Conn, clientVars
<1>6. \A k \in Keys : At(k, "reserving")' => poll'[k].on = Conn(k)'
    BY <1>3, <1>5 DEF HoldsItsJob, At
<1>7. ASSUME NEW m \in Messages, message'[m] = "held"
      PROVE  \E k \in Keys : /\ poll'[k].at \in {"statsjob", "release"} /\ poll'[k].job = m
                             /\ holder'[m] = Conn(k)' /\ Conn(k)' \in open'
    BY <1>3, <1>4, <1>5, <1>7 DEF HoldsItsJob
<1> QED
    BY <1>6, <1>7 DEF HoldsItsJob

\* Where a change of a poll takes it.
LEMMA PlaceOf ==
    ASSUME NEW p \in Poll, NEW place
    PROVE  /\ [p EXCEPT !.at = place].at = place
           /\ \A client : [p EXCEPT !.at = place, !.client = client].at = place
           /\ \A again : [p EXCEPT !.at = place, !.again = again].at = place
           /\ \A on : [p EXCEPT !.at = place, !.on = on].at = place
           /\ \A todo : [p EXCEPT !.at = place, !.todo = todo].at = place
           /\ \A ready : [p EXCEPT !.at = place, !.ready = ready].at = place
           /\ \A todo, waited, lived :
                 [p EXCEPT !.at = place, !.todo = todo, !.waited = waited, !.lived = lived].at = place
BY DEF Poll

\* A step of the one poll there is.
LEMMA HoldsPoll ==
    ASSUME \A i, j \in Keys : i = j, Types, HoldsItsJob, NEW k \in Keys, PollStep(k)
    PROVE  HoldsItsJob'
<1>1. /\ poll[k] \in Poll /\ HasTodo(poll[k]) /\ poll \in [Keys -> Poll]
      /\ message \in [Messages -> Places] /\ holder \in [Messages -> Conns \cup {Nil}]
      /\ open \subseteq Conns /\ Nil \notin Conns
    BY BeanstalkAssumption DEF Types, TypeOK, ServiceTypeOK
<1> DEFINE Held(m) == /\ poll[k].at \in {"statsjob", "release"} /\ poll[k].job = m
                      /\ holder[m] = Conn(k) /\ Conn(k) \in open
<1>2. \A m \in Messages : message[m] = "held" => Held(m)
    BY DEF HoldsItsJob
<1>3. ASSUME At(k, "reserving")' => poll'[k].on = Conn(k)',
             \A m \in Messages : message'[m] = "held" =>
                /\ poll'[k].at \in {"statsjob", "release"} /\ poll'[k].job = m
                /\ holder'[m] = Conn(k)' /\ Conn(k)' \in open'
      PROVE  HoldsItsJob'
    BY <1>3 DEF HoldsItsJob
<1> DEFINE NoneHeld == \A m \in Messages : message'[m] # "held"
<1>4. ASSUME poll'[k].at # "reserving", NoneHeld PROVE HoldsItsJob'
    BY <1>3, <1>4 DEF At
<1>5. poll[k].at \notin {"statsjob", "release"} /\ UNCHANGED message => NoneHeld
    BY <1>2
<1>6. /\ AtRest.at = "list" /\ AtRest \in Poll
      /\ [AtRest EXCEPT !.at = "client", !.todo = "repair"].at = "client"
    BY DEF AtRest, Poll, PollPlaces
<1>7. CASE getClient(k) \/ NewBeanstalkClient(k) \/ reestablishConn(k)
  <2>1. poll[k].todo \in Commands /\ poll[k].at \notin {"statsjob", "release"} /\ UNCHANGED message
      BY <1>1, <1>7 DEF getClient, NewBeanstalkClient, reestablishConn, At, HasTodo, Commands
  <2>2. poll'[k].at \in Commands \cup {"dial", "list", "client"}
    <3>1. CASE getClient(k)
        BY <1>1, <2>1, <3>1, PlaceOf DEF getClient
    <3>2. CASE NewBeanstalkClient(k)
      <4>1. \E new : /\ poll' = [poll EXCEPT ![k] = new]
                     /\ \/ new = AtRest \/ new = [AtRest EXCEPT !.at = "client", !.todo = "repair"]
                        \/ new = [poll[k] EXCEPT !.at = poll[k].todo, !.client = k]
          BY <1>1, <3>2 DEF NewBeanstalkClient, ToRepair
      <4>2. [poll[k] EXCEPT !.at = poll[k].todo, !.client = k].at = poll[k].todo
          BY <1>1, PlaceOf
      <4> QED
          BY <1>1, <1>6, <2>1, <4>1, <4>2
    <3>3. CASE reestablishConn(k)
      <4>1. \E new : /\ poll' = [poll EXCEPT ![k] = new]
                     /\ \/ new = AtRest \/ new = [AtRest EXCEPT !.at = "client", !.todo = "repair"]
                        \/ new = [poll[k] EXCEPT !.at = poll[k].todo, !.again = TRUE]
          BY <1>1, <3>3 DEF reestablishConn, ToRepair
      <4>2. [poll[k] EXCEPT !.at = poll[k].todo, !.again = TRUE].at = poll[k].todo
          BY <1>1, PlaceOf
      <4> QED
          BY <1>1, <1>6, <2>1, <4>1, <4>2
    <3> QED
        BY <1>7, <3>1, <3>2, <3>3
  <2> QED
      BY <1>4, <1>5, <2>1, <2>2 DEF Commands
<1>8. CASE Broken(k)
  <2>1. poll'[k].at \in {"redial", "client"} /\ UNCHANGED message
    <3>1. \E new : /\ poll' = [poll EXCEPT ![k] = new]
                   /\ \/ new = [AtRest EXCEPT !.at = "client", !.todo = "repair"]
                      \/ new = [poll[k] EXCEPT !.at = "redial", !.on = Nil]
        BY <1>1, <1>8 DEF Broken, ToRepair
    <3>2. [poll[k] EXCEPT !.at = "redial", !.on = Nil].at = "redial"
        BY <1>1, PlaceOf
    <3>3. UNCHANGED message
        BY <1>8 DEF Broken
    <3> QED
        BY <1>1, <1>6, <3>1, <3>2, <3>3
  <2>2. poll[k].at # "release" /\ (At(k, "statsjob") => Conn(k) \notin open)
      BY <1>8 DEF Broken, At
  <2>3. NoneHeld
      BY <1>2, <2>1, <2>2 DEF At
  <2> QED
      BY <1>4, <2>1, <2>3
<1>9. CASE Panic(k)
  <2>1. poll'[k].at = "list"
      BY <1>6, <1>9 DEF Panic
  <2>2. NoneHeld
      BY <1>1, <1>2, <1>9 DEF Panic, Released
  <2> QED
      BY <1>4, <2>1, <2>2
<1>10. CASE ListOne(k) \/ TimedOut(k) \/ executeGetStats(k) \/ Report(k) \/ ReportIdle(k)
  <2>1. poll[k].at \notin {"statsjob", "release"} /\ UNCHANGED message
      BY <1>10 DEF ListOne, TimedOut, executeGetStats, Report, ReportIdle, At
  <2>2. poll'[k].at # "reserving"
    <3>1. CASE ListOne(k)
      <4> DEFINE long == item[k].workers = 0 /\ item[k].messages = 0
                 todo == IF long THEN "reserve" ELSE "stats"
                 waited == IF long THEN Visible ELSE {}
                 lived == IF long THEN {} ELSE InQueue
                 new == [AtRest EXCEPT !.at = "client", !.todo = todo, !.waited = waited,
                                       !.lived = lived]
      <4>1. poll'[k] = new
          BY <1>1, <3>1 DEF ListOne
      <4> HIDE DEF todo, waited, lived
      <4>2. new.at = "client"
          BY <1>6, PlaceOf
      <4> HIDE DEF new
      <4> QED
          BY <4>1, <4>2
    <3>5. CASE TimedOut(k)
      <4>1. poll'[k] = [poll[k] EXCEPT !.at = "none", !.on = Nil]
          BY <1>1, <3>5 DEF TimedOut
      <4> QED
          BY <1>1, <4>1, PlaceOf
    <3>2. CASE executeGetStats(k)
        BY <1>1, <3>2 DEF executeGetStats, AtRest, Poll
    <3>3. CASE ReportIdle(k)
        BY <1>1, <1>6, <3>3 DEF ReportIdle
    <3>4. CASE Report(k)
      <4> DEFINE GoOn(place, todo) == [AtRest EXCEPT !.at = place, !.todo = todo]
                 p == poll[k]
                 new == CASE p.at # "report"                       -> GoOn("waiting", "")
                          [] p.at = "report" /\ p.ready # 0        -> GoOn("busy", "")
                          [] p.at = "report" /\ p.ready + p.reserved = 0 -> GoOn("client", "idle")
                          [] OTHER                                 -> AtRest
      <4>1. poll'[k] = new
          BY <1>1, <3>4 DEF Report
      <4>2. /\ GoOn("waiting", "").at = "waiting" /\ GoOn("busy", "").at = "busy"
            /\ GoOn("client", "idle").at = "client"
          BY <1>6, PlaceOf
      <4> HIDE DEF GoOn
      <4>3. \/ new = GoOn("waiting", "") \/ new = GoOn("busy", "")
            \/ new = GoOn("client", "idle") \/ new = AtRest
          OBVIOUS
      <4> HIDE DEF new
      <4>4. new.at \in {"waiting", "busy", "client", "list"}
          BY <1>6, <4>2, <4>3
      <4> QED
          BY <4>1, <4>4
    <3> QED
        BY <1>10, <3>1, <3>2, <3>3, <3>4, <3>5
  <2> QED
      BY <1>4, <1>5, <2>1, <2>2
<1>11. CASE doLongPoll(k)
  <2>1. /\ poll[k].at = "reserve" /\ UNCHANGED <<message, conn>>
        /\ poll'[k].at = "reserving" /\ poll'[k].on = Conn(k) /\ poll'[k].client = poll[k].client
      BY <1>1, <1>11 DEF doLongPoll, At, clientVars, Poll
  <2>2. NoneHeld /\ Conn(k)' = Conn(k)
      BY <1>5, <2>1 DEF Conn
  <2> QED
      BY <1>3, <2>1, <2>2
<1>12. CASE StatsJob(k)
  <2>1. UNCHANGED <<message, clientVars, serverVars>> /\ poll[k].at = "statsjob"
      BY <1>12 DEF StatsJob, At
  <2>2. CASE message[poll[k].job] = "absent"
    <3>1. NoneHeld
        BY <1>2, <2>1, <2>2
    <3>2. poll'[k].at = "client"
        BY <1>1, <1>12, <2>2 DEF StatsJob, ToRepair, AtRest
    <3> QED
        BY <1>4, <3>1, <3>2
  <2>3. CASE message[poll[k].job] # "absent"
    <3>1. /\ poll'[k].at = "release" /\ poll'[k].job = poll[k].job
          /\ poll'[k].client = poll[k].client
      <4>1. poll'[k] = [poll[k] EXCEPT !.at = "release"]
          BY <1>1, <1>12, <2>3 DEF StatsJob, Go
      <4> QED
          BY <1>1, <4>1 DEF Poll
    <3>2. Conn(k)' = Conn(k)
        BY <2>1, <3>1 DEF Conn, clientVars
    <3> QED
        BY <1>2, <1>3, <2>1, <3>1, <3>2 DEF At, serverVars
  <2> QED
      BY <2>2, <2>3
<1>13. CASE Release(k)
  <2>1. poll[k].at = "release" /\ poll'[k].at = "found"
      BY <1>1, <1>13 DEF Release, At, AtRest
  <2>2. \A i \in Keys : ~At(i, "reserving")
      BY <2>1 DEF At
  <2>3. ASSUME NEW m \in Messages, message'[m] = "held" PROVE FALSE
    <3>1. message[m] = "held"
        BY <1>1, <1>13, <2>3 DEF Release, Move
    <3>2. poll[k].job = m /\ holder[m] = Conn(k) /\ Answers(k)
        BY <1>2, <2>2, <3>1 DEF Answers
    <3>3. Move(m, "held", "visible")
        BY <1>13, <3>2 DEF Release
    <3> QED
        BY <1>1, <2>3, <3>3 DEF Move
  <2> QED
      BY <1>4, <2>1, <2>3
<1>14. ASSUME NEW m \in Messages, Reserved(k, m) PROVE HoldsItsJob'
  <2>1. /\ poll[k].at = "reserving" /\ poll[k].on \in open /\ UNCHANGED <<clientVars, open>>
        /\ poll'[k].at = "statsjob" /\ poll'[k].job = m /\ poll'[k].client = poll[k].client
      BY <1>1, <1>14 DEF Reserved, At, AtRest
  <2>2. \A n \in Messages : n # m => message'[n] = message[n]
      BY <1>1, <1>14 DEF Reserved, Move
  <2>3. \A n \in Messages : n # m => message'[n] # "held"
      BY <1>2, <2>1, <2>2
  <2>4. holder'[m] = poll[k].on
      BY <1>1, <1>14 DEF Reserved
  <2>5. poll[k].on = Conn(k) /\ Conn(k)' = Conn(k)
      BY <2>1 DEF HoldsItsJob, At, Conn, clientVars
  <2> QED
      BY <1>3, <2>1, <2>3, <2>4, <2>5 DEF At
<1> HIDE DEF NoneHeld, Held
<1> QED
    BY <1>7, <1>8, <1>9, <1>10, <1>11, <1>12, <1>13, <1>14 DEF PollStep

\* When one queue uses the tube, a job the long poll has reserved goes back, or its
\* connection ends, before that poll does anything else, whatever fails.
THEOREM JobPutBack ==
    ASSUME \A i, j \in Keys : i = j
    PROVE  Spec => []PutBack
<1>1. IsFiniteSet(Keys)
  <2>1. CASE Keys = {}
      BY <2>1, FS_EmptySet
  <2>2. ASSUME NEW k \in Keys PROVE IsFiniteSet(Keys)
    <3>1. Keys = {k}
        OBVIOUS
    <3> QED
        BY <3>1, FS_Singleton
  <2> QED
      BY <2>1, <2>2
<1>2. Types /\ [Next]_vars => Types'
    BY <1>1, TypesNext
<1>3. Types /\ HoldsItsJob /\ [Next]_vars => HoldsItsJob'
  <2> SUFFICES ASSUME Types, HoldsItsJob, [Next]_vars PROVE HoldsItsJob'
      OBVIOUS
  <2>1. CASE UNCHANGED <<message, poll, clientVars, serverVars>>
      BY <2>1 DEF HoldsItsJob, At, Conn, clientVars, serverVars
  <2>2. ASSUME NEW k \in Keys, Sync(k) \/ EditSpec(k), UNCHANGED <<clientVars, serverVars>>
        PROVE  HoldsItsJob'
    <3>1. UNCHANGED <<message, poll>>
        BY <2>2 DEF Sync, StartSync, FinishSync, EditSpec
    <3> QED
        BY <2>1, <2>2, <3>1
  <2> QED
      BY <2>1, <2>2, HoldsOthers, HoldsPoll DEF Next, vars
<1>4. HoldsItsJob => PutBack
    BY DEF HoldsItsJob, PutBack
<1> QED
    BY <1>2, <1>3, <1>4, TypesInit, HoldsInit, PTL DEF Spec

-----------------------------------------------------------------------------
(* The nil connection                                                      *)

\* Where a goroutine has a client from the pool.
WithClient == Commands \cup {"redial", "reserving", "statsjob", "release"}

HasConn(client) == client \in Keys /\ conn[client] # Nil

\* Every client that is in use has a connection, be it a lost one.
Connected ==
    /\ pool # NoClient => HasConn(pool)
    /\ \A k \in Keys : poll[k].at \in WithClient => HasConn(poll[k].client)

LEMMA ConnectedInit == Init => Connected
<1>1. Init => pool = NoClient /\ \A k \in Keys : poll[k] = AtRest
    BY DEF Init
<1>2. AtRest.at \notin WithClient
    BY DEF AtRest, WithClient, Commands
<1> QED
    BY <1>1, <1>2 DEF Connected

\* While the server is up a dial makes a connection.
LEMMA ConnectConnects ==
    ASSUME IsFiniteSet(Keys), TypeOK, serverUp, NEW client, Connect(client)
    PROVE  /\ \A i \in Keys : HasConn(i) => HasConn(i)'
           /\ client \in Keys => HasConn(client)'
<1>1. NewConn \in Conns /\ Nil \notin Conns
    BY NewConnExists, BeanstalkAssumption
<1>2. conn' = [conn EXCEPT ![client] = NewConn] /\ conn \in [Keys -> Conns \cup {Nil}]
    BY DEF Connect, TypeOK
<1> HIDE DEF NewConn
<1> QED
    BY <1>1, <1>2 DEF HasConn

LEMMA ConnectedPoll ==
    ASSUME IsFiniteSet(Keys), Types, Connected, serverUp, NEW k \in Keys, PollStep(k)
    PROVE  Connected'
<1>1. /\ poll[k] \in Poll /\ HasTodo(poll[k]) /\ poll \in [Keys -> Poll]
      /\ conn \in [Keys -> Conns \cup {Nil}] /\ pool \in Keys \cup {NoClient}
      /\ NoClient \notin Keys
    BY BeanstalkAssumption DEF Types, TypeOK
<1>2. poll[k].at \in WithClient => HasConn(poll[k].client)
    BY DEF Connected
<1>3. ASSUME \A i \in Keys : HasConn(i) => HasConn(i)',
             pool' # NoClient => HasConn(pool)',
             \A i \in Keys \ {k} : poll'[i].at = poll[i].at /\ poll'[i].client = poll[i].client,
             poll'[k].at \in WithClient => HasConn(poll[k].client)'
      PROVE  Connected'
    BY <1>3 DEF Connected, HasConn
<1>4. UNCHANGED conn => \A i : HasConn(i) => HasConn(i)'
    BY DEF HasConn
\* A step that leaves the clients alone, and the goroutine with the one it had.
<1>5. ASSUME UNCHANGED clientVars, NEW new, poll' = [poll EXCEPT ![k] = new],
             new.at \in WithClient => HasConn(new.client)
      PROVE  Connected'
  <2>1. UNCHANGED <<conn, pool>>
      BY <1>5 DEF clientVars
  <2>2. poll'[k] = new /\ \A i \in Keys \ {k} : poll'[i] = poll[i]
      BY <1>1, <1>5
  <2> QED
      BY <1>3, <1>4, <1>5, <2>1, <2>2 DEF Connected, HasConn
<1>6. /\ AtRest.at = "list" /\ AtRest \in Poll
      /\ [AtRest EXCEPT !.at = "client", !.todo = "repair"].at = "client"
      /\ {"list", "client", "dial", "found", "none", "report", "busy", "waiting"} \cap WithClient = {}
    BY DEF AtRest, Poll, PollPlaces, WithClient, Commands
<1>7. CASE getClient(k)
  <2>1. UNCHANGED clientVars
      BY <1>7 DEF getClient
  <2>2. CASE pool = NoClient
    <3>1. poll' = [poll EXCEPT ![k] = [poll[k] EXCEPT !.at = "dial"]]
        BY <1>1, <1>7, <2>2 DEF getClient
    <3>2. [poll[k] EXCEPT !.at = "dial"].at = "dial"
        BY <1>1, PlaceOf
    <3> QED
        BY <1>5, <1>6, <2>1, <3>1, <3>2
  <2>3. CASE pool # NoClient
    <3>1. poll' = [poll EXCEPT ![k] = [poll[k] EXCEPT !.at = poll[k].todo, !.client = pool]]
        BY <1>1, <1>7, <2>3 DEF getClient
    <3>2. [poll[k] EXCEPT !.at = poll[k].todo, !.client = pool].client = pool /\ HasConn(pool)
        BY <1>1, <2>3 DEF Connected, Poll
    <3> QED
        BY <1>5, <2>1, <3>1, <3>2
  <2> QED
      BY <2>2, <2>3
<1>8. CASE NewBeanstalkClient(k)
  <2>1. /\ Connect(k) /\ pool' = k
        /\ poll' = [poll EXCEPT ![k] = [poll[k] EXCEPT !.at = poll[k].todo, !.client = k]]
      BY <1>8 DEF NewBeanstalkClient
  <2>2. /\ \A i \in Keys : HasConn(i) => HasConn(i)'
        /\ HasConn(k)'
      BY <2>1, ConnectConnects DEF Types
  <2>3. poll'[k].client = k /\ \A i \in Keys \ {k} : poll'[i] = poll[i]
      BY <1>1, <2>1 DEF Poll
  <2> QED
      BY <1>3, <2>1, <2>2, <2>3 DEF HasConn
<1>9. CASE reestablishConn(k)
  <2>1. Connect(poll[k].client) /\ pool' = pool /\ poll[k].at \in WithClient
      BY <1>9 DEF reestablishConn, At, WithClient, Commands
  <2>2. /\ \A i \in Keys : HasConn(i) => HasConn(i)'
        /\ HasConn(poll[k].client)
      BY <1>2, <2>1, ConnectConnects DEF Types
  <2>3. \E new : /\ poll' = [poll EXCEPT ![k] = new]
                 /\ new = AtRest \/ new = [poll[k] EXCEPT !.at = poll[k].todo, !.again = TRUE]
      BY <1>9 DEF reestablishConn
  <2>4. [poll[k] EXCEPT !.at = poll[k].todo, !.again = TRUE].client = poll[k].client
      BY <1>1 DEF Poll
  <2>5. /\ \A i \in Keys \ {k} : poll'[i] = poll[i]
        /\ poll'[k].at = "list" \/ poll'[k].client = poll[k].client
      BY <1>1, <1>6, <2>3, <2>4
  <2>6. HasConn(poll[k].client)'  \/ poll'[k].at = "list"
      BY <2>2, <2>5 DEF HasConn
  <2>7. pool' # NoClient => HasConn(pool)'
      BY <2>1, <2>2 DEF Connected, HasConn
  <2> QED
      BY <1>3, <1>6, <2>2, <2>5, <2>6, <2>7
<1>10. CASE Broken(k)
  <2>1. \E new : /\ poll' = [poll EXCEPT ![k] = new]
                 /\ \/ new = [AtRest EXCEPT !.at = "client", !.todo = "repair"]
                    \/ new = [poll[k] EXCEPT !.at = "redial", !.on = Nil]
      BY <1>10 DEF Broken, ToRepair
  <2>2. [poll[k] EXCEPT !.at = "redial", !.on = Nil].client = poll[k].client
      BY <1>1 DEF Poll
  <2>3. poll[k].at \in WithClient /\ UNCHANGED clientVars
      BY <1>10 DEF Broken, At, WithClient, Commands
  <2> QED
      BY <1>2, <1>5, <1>6, <2>1, <2>2, <2>3
<1>11. ~Panic(k)
    BY <1>2 DEF Panic, WithClient, Commands, HasConn, Conn
<1>12. CASE ListOne(k)
  <2> DEFINE long == item[k].workers = 0 /\ item[k].messages = 0
             todo == IF long THEN "reserve" ELSE "stats"
             waited == IF long THEN Visible ELSE {}
             lived == IF long THEN {} ELSE InQueue
             new == [AtRest EXCEPT !.at = "client", !.todo = todo, !.waited = waited,
                                   !.lived = lived]
  <2>1. poll' = [poll EXCEPT ![k] = new] /\ UNCHANGED clientVars
      BY <1>12 DEF ListOne
  <2> HIDE DEF todo, waited, lived
  <2>2. new.at = "client"
      BY <1>6, PlaceOf
  <2> HIDE DEF new
  <2> QED
      BY <1>5, <1>6, <2>1, <2>2
<1>13. CASE doLongPoll(k)
  <2>1. /\ poll' = [poll EXCEPT ![k] = [poll[k] EXCEPT !.at = "reserving", !.on = Conn(k)]]
        /\ poll[k].at \in WithClient /\ UNCHANGED clientVars
      BY <1>13 DEF doLongPoll, At, WithClient, Commands
  <2>2. [poll[k] EXCEPT !.at = "reserving", !.on = Conn(k)].client = poll[k].client
      BY <1>1 DEF Poll
  <2> QED
      BY <1>2, <1>5, <2>1, <2>2
<1>14. CASE TimedOut(k)
  <2>1. /\ poll' = [poll EXCEPT ![k] = [poll[k] EXCEPT !.at = "none", !.on = Nil]]
        /\ UNCHANGED clientVars
      BY <1>14 DEF TimedOut
  <2>2. [poll[k] EXCEPT !.at = "none", !.on = Nil].at = "none"
      BY <1>1, PlaceOf
  <2> QED
      BY <1>5, <1>6, <2>1, <2>2
<1>15. CASE StatsJob(k)
  <2>1. \E new : /\ poll' = [poll EXCEPT ![k] = new]
                 /\ \/ new = [AtRest EXCEPT !.at = "client", !.todo = "repair"]
                    \/ new = [poll[k] EXCEPT !.at = "release"]
      BY <1>15 DEF StatsJob, ToRepair, Go
  <2>2. [poll[k] EXCEPT !.at = "release"].client = poll[k].client
      BY <1>1 DEF Poll
  <2>3. poll[k].at \in WithClient /\ UNCHANGED clientVars
      BY <1>15 DEF StatsJob, At, WithClient
  <2> QED
      BY <1>2, <1>5, <1>6, <2>1, <2>2, <2>3
<1>16. CASE Release(k)
  <2>1. poll' = [poll EXCEPT ![k] = [AtRest EXCEPT !.at = "found"]] /\ UNCHANGED clientVars
      BY <1>16 DEF Release
  <2>2. [AtRest EXCEPT !.at = "found"].at = "found"
      BY <1>6, PlaceOf
  <2> QED
      BY <1>5, <1>6, <2>1, <2>2
<1>17. ASSUME NEW m \in Messages, Reserved(k, m) PROVE Connected'
  <2> DEFINE new == [AtRest EXCEPT !.at = "statsjob", !.client = poll[k].client, !.job = m]
  <2>1. /\ poll[k].at \in WithClient /\ UNCHANGED <<conn, pool>>
        /\ poll' = [i \in Keys |-> IF i = k THEN new ELSE [poll[i] EXCEPT !.waited = @ \ {m}]]
      BY <1>17 DEF Reserved, At, WithClient, clientVars
  <2>2. new.client = poll[k].client
      BY DEF AtRest
  <2> HIDE DEF new
  <2>3. \A i \in Keys : /\ [poll[i] EXCEPT !.waited = @ \ {m}].at = poll[i].at
                        /\ [poll[i] EXCEPT !.waited = @ \ {m}].client = poll[i].client
      BY <1>1 DEF Poll
  <2>4. /\ poll'[k].client = poll[k].client
        /\ \A i \in Keys \ {k} : poll'[i].at = poll[i].at /\ poll'[i].client = poll[i].client
      BY <2>1, <2>2, <2>3
  <2> QED
      BY <1>2, <1>3, <1>4, <2>1, <2>4 DEF Connected, HasConn
<1>18. CASE executeGetStats(k)
  <2>1. /\ \E new : /\ poll' = [poll EXCEPT ![k] = new]
                    /\ \/ new = [poll[k] EXCEPT !.at = "report", !.ready = Cardinality(Visible),
                                                !.reserved = Cardinality(InQueue \ Visible)]
                       \/ new = [AtRest EXCEPT !.at = "waiting", !.ready = CurrentWaiting]
        /\ UNCHANGED clientVars
      BY <1>18 DEF executeGetStats
  <2>2. [poll[k] EXCEPT !.at = "report", !.ready = Cardinality(Visible),
                        !.reserved = Cardinality(InQueue \ Visible)].at = "report"
      BY <1>1 DEF Poll
  <2>3. [AtRest EXCEPT !.at = "waiting", !.ready = CurrentWaiting].at = "waiting"
      BY <1>6, PlaceOf
  <2>4. \E new : poll' = [poll EXCEPT ![k] = new] /\ new.at \notin WithClient
      BY <1>6, <2>1, <2>2, <2>3
  <2> QED
      BY <1>5, <2>1, <2>4
<1>19. CASE Report(k)
  <2> DEFINE GoOn(place, todo) == [AtRest EXCEPT !.at = place, !.todo = todo]
             p == poll[k]
             new == CASE p.at # "report"                       -> GoOn("waiting", "")
                      [] p.at = "report" /\ p.ready # 0        -> GoOn("busy", "")
                      [] p.at = "report" /\ p.ready + p.reserved = 0 -> GoOn("client", "idle")
                      [] OTHER                                 -> AtRest
  <2>1. poll' = [poll EXCEPT ![k] = new] /\ UNCHANGED clientVars
      BY <1>19 DEF Report
  <2>2. /\ GoOn("waiting", "").at = "waiting" /\ GoOn("busy", "").at = "busy"
        /\ GoOn("client", "idle").at = "client"
      BY <1>6, PlaceOf
  <2> HIDE DEF GoOn
  <2>3. \/ new = GoOn("waiting", "") \/ new = GoOn("busy", "")
        \/ new = GoOn("client", "idle") \/ new = AtRest
      OBVIOUS
  <2> HIDE DEF new
  <2>4. new.at \notin WithClient
      BY <1>6, <2>2, <2>3
  <2> QED
      BY <1>5, <2>1, <2>4
<1>20. CASE ReportIdle(k)
  <2>1. poll' = [poll EXCEPT ![k] = AtRest] /\ UNCHANGED clientVars
      BY <1>20 DEF ReportIdle
  <2> QED
      BY <1>5, <1>6, <2>1
<1> QED
    BY <1>7, <1>8, <1>9, <1>10, <1>11, <1>12, <1>13, <1>14, <1>15, <1>16, <1>17, <1>18, <1>19,
       <1>20 DEF PollStep

LEMMA ConnectedNext ==
    IsFiniteSet(Keys) /\ Types /\ Connected /\ serverUp /\ [Next]_vars => Connected'
<1> SUFFICES ASSUME IsFiniteSet(Keys), Types, Connected, serverUp, [Next]_vars PROVE Connected'
    OBVIOUS
<1>1. ASSUME UNCHANGED clientVars,
             \A k \in Keys : poll'[k].at = poll[k].at /\ poll'[k].client = poll[k].client
      PROVE  Connected'
    BY <1>1 DEF Connected, HasConn, clientVars
<1>2. CASE UNCHANGED <<poll, clientVars>>
    BY <1>1, <1>2
<1>3. ASSUME NEW k \in Keys, Sync(k) \/ EditSpec(k), UNCHANGED <<clientVars, serverVars>>
      PROVE  Connected'
  <2>1. UNCHANGED poll
      BY <1>3 DEF Sync, StartSync, FinishSync, EditSpec
  <2> QED
      BY <1>2, <1>3, <2>1
<1>4. CASE \/ \E m \in Messages : \/ /\ Send(m) \/ Receive(m) \/ Remove(m)
                                     /\ UNCHANGED <<clientVars, serverVars>>
                                  \/ TimeOut(m)
           \/ \E c \in Conns : Drop(c)
           \/ ServerDown \/ ServerUp
  <2>1. UNCHANGED clientVars
      BY <1>4 DEF TimeOut, Drop, ServerDown, ServerUp
  <2>2. UNCHANGED poll \/ \E waited, lived : Outdate(waited, lived)
      BY <1>4 DEF Send, Receive, Remove, TimeOut, Drop, ServerDown, ServerUp
  <2> QED
      BY <1>1, <2>1, <2>2, OutdateKeeps
<1> QED
    BY <1>2, <1>3, <1>4, ConnectedPoll DEF Next, vars

\* Only an outage of the server gives a client the nil connection: as long as the
\* server is up, a poll survives whatever connections it loses, and however many
\* queues share the tube and race to make and repair its client.
THEOREM PanicNeedsOutage ==
    ASSUME IsFiniteSet(Keys)
    PROVE  Spec /\ []serverUp => NeverPanics
<1>1. Types /\ [Next]_vars => Types'
    BY TypesNext
<1>2. Types /\ Connected /\ serverUp /\ [Next]_vars => Connected'
    BY ConnectedNext
<1>3. Connected /\ [Next]_vars => [\A k \in Keys : ~Panic(k)]_vars
  <2>1. ASSUME Connected, NEW k \in Keys PROVE ~Panic(k)
      BY <2>1 DEF Connected, HasConn, Panic, WithClient, Commands, Conn
  <2> QED
      BY <2>1
<1> QED
    BY <1>1, <1>2, <1>3, TypesInit, ConnectedInit, PTL DEF Spec, NeverPanics

=============================================================================
