--------------------------- MODULE RoutingProofs ----------------------------
(***************************************************************************)
(* Proofs about Ring and Routing, for any number of helpers, users,        *)
(* handlers and failures.                                                  *)
(***************************************************************************)
EXTENDS Routing, WellFoundedInduction, TLAPS

-----------------------------------------------------------------------------
(* The ring.                                                               *)

\* The remainder of a number below twice the divisor.
LEMMA Remainder ==
    ASSUME NEW n \in Nat \ {0}, NEW z \in 0..n - 1
    PROVE  z % n = z /\ (z + n) % n = z
  OBVIOUS

\* How far the walk is.
LEMMA AheadIs ==
    ASSUME NEW k \in 0..Top - 1, NEW x \in 0..Top - 1
    PROVE  /\ Ahead(k, x) = IF x >= k THEN x - k ELSE x + Top - k
           /\ Ahead(k, x) \in Nat
<1>0. Top \in Nat \ {0}
  BY RingAssumption
<1>1. CASE x >= k
  <2>1. x - k \in 0..Top - 1 /\ x + Top - k = (x - k) + Top
    BY <1>0, <1>1
  <2> QED
    BY <1>0, <1>1, <2>1, Remainder DEF Ahead
<1>2. CASE x < k
  <2>1. x + Top - k \in 0..Top - 1
    BY <1>0, <1>2
  <2> QED
    BY <1>0, <1>2, <2>1, Remainder DEF Ahead
<1> QED
  BY <1>1, <1>2

\* A key and a distance determine the point.
LEMMA AheadInjective ==
    ASSUME NEW k \in 0..Top - 1, NEW x \in 0..Top - 1, NEW y \in 0..Top - 1,
           Ahead(k, x) = Ahead(k, y)
    PROVE  x = y
<1>1. Top \in Nat
  BY RingAssumption
<1>2. (IF x >= k THEN x - k ELSE x + Top - k) = (IF y >= k THEN y - k ELSE y + Top - k)
  BY AheadIs
<1>3. CASE x >= k
  BY <1>1, <1>2, <1>3
<1>4. CASE x < k
  BY <1>1, <1>2, <1>4
<1> QED
  BY <1>1, <1>3, <1>4

LEMMA PointIs ==
    ASSUME NEW h \in Helper, NEW i \in VNode
    PROVE  Point[<<h, i>>] \in 0..Top - 1
<1>1. Point \in [Helper \X VNode -> 0..Top - 1]
  BY RingAssumption
<1>2. <<h, i>> \in Helper \X VNode
  OBVIOUS
<1> QED
  BY <1>1, <1>2

\* Members there are: one of them is assigned, with a nearest point.
LEMMA AssignIsNearest ==
    ASSUME NEW S \in SUBSET Helper, S # {}, NEW k \in 0..Top - 1
    PROVE  /\ Assign(S, k) \in S
           /\ \E i \in VNode : \A g \in S, j \in VNode :
                 Ahead(k, Point[<<Assign(S, k), i>>]) <= Ahead(k, Point[<<g, j>>])
<1> DEFINE Nearest(h) == \E i \in VNode : \A g \in S, j \in VNode :
                            Ahead(k, Point[<<h, i>>]) <= Ahead(k, Point[<<g, j>>])
           Distance == {d \in Nat : \E g \in S, j \in VNode : d = Ahead(k, Point[<<g, j>>])}
<1>1. Assign(S, k) = CHOOSE h \in S : Nearest(h)
  BY Zenon DEF Assign
<1>2. \A g \in S, j \in VNode : Ahead(k, Point[<<g, j>>]) \in Distance
  BY AheadIs, PointIs
<1>3. PICK d \in Distance : \A e \in Distance : ~(<<e, d>> \in OpToRel(<, Nat))
  <2>1. Distance # {}
    BY <1>2, RingAssumption
  <2>2. Distance \subseteq Nat
    OBVIOUS
  <2> HIDE DEF Distance
  <2> QED
    BY <2>1, <2>2, NatLessThanWellFounded, WFMin
<1>4. \A e \in Distance : d <= e
  <2>1. SUFFICES ASSUME NEW e \in Distance PROVE ~(e < d)
    OBVIOUS
  <2>2. e \in Nat /\ d \in Nat
    OBVIOUS
  <2>3. e < d => <<e, d>> \in OpToRel(<, Nat)
    BY <2>2 DEF OpToRel
  <2> QED
    BY <1>3, <2>3
<1>5. PICK h \in S, i \in VNode : d = Ahead(k, Point[<<h, i>>])
  OBVIOUS
<1>6. Nearest(h)
  BY <1>2, <1>4, <1>5
<1> HIDE DEF Nearest
<1>7. Nearest(Assign(S, k)) /\ Assign(S, k) \in S
  BY <1>1, <1>6, Zenon
<1> QED
  BY <1>7 DEF Nearest

\* Consistent hashing: between two sets of helpers a user moves only away from a
\* helper that is gone or to one that is new.
THEOREM RingMovesLittle ==
    ASSUME NEW S \in SUBSET Helper, NEW T \in SUBSET Helper, S # {}, T # {},
           NEW k \in 0..Top - 1,
           Assign(S, k) # Assign(T, k)
    PROVE  Assign(S, k) \notin T \/ Assign(T, k) \notin S
<1> SUFFICES ASSUME Assign(S, k) \in T, Assign(T, k) \in S
             PROVE  FALSE
  OBVIOUS
<1> DEFINE s == Assign(S, k)
           t == Assign(T, k)
<1>1. PICK i \in VNode : \A g \in S, j \in VNode : Ahead(k, Point[<<s, i>>]) <= Ahead(k, Point[<<g, j>>])
  BY AssignIsNearest
<1>2. PICK l \in VNode : \A g \in T, j \in VNode : Ahead(k, Point[<<t, l>>]) <= Ahead(k, Point[<<g, j>>])
  BY AssignIsNearest
<1>3. Ahead(k, Point[<<s, i>>]) <= Ahead(k, Point[<<t, l>>]) /\ Ahead(k, Point[<<t, l>>]) <= Ahead(k, Point[<<s, i>>])
  BY <1>1, <1>2
<1>4. Point[<<s, i>>] \in 0..Top - 1 /\ Point[<<t, l>>] \in 0..Top - 1
  BY PointIs
<1>5. Ahead(k, Point[<<s, i>>]) \in Nat /\ Ahead(k, Point[<<t, l>>]) \in Nat
  BY <1>4, AheadIs
<1>6. Point[<<s, i>>] = Point[<<t, l>>]
  BY <1>3, <1>4, <1>5, AheadInjective
<1> QED
  BY <1>6, RingAssumption
-----------------------------------------------------------------------------
(* Type correctness.                                                       *)

Pc == {"idle", "lookup", "durable", "redis", "pg", "via"}
Handler == [pc : Pc, user : User, bot : Bot, why : Why]

\* The four ways in which a step changes its handler.
LEMMA HandlerTypes ==
    ASSUME TypeOK, NEW p \in Process
    PROVE  /\ \A pc \in Pc : Continue(p, pc) => proc' \in [Process -> Handler]
           /\ \A pc \in Pc, u \in User, b \in Bot, why \in Why :
                 Start(p, pc, u, b, why) => proc' \in [Process -> Handler]
           /\ Finish(p) => proc' \in [Process -> Handler]
           /\ Onward(p) => proc' \in [Process -> Handler]
<1> USE DEF Handler, Pc
<1>0. proc \in [Process -> Handler] /\ proc[p] \in Handler
  BY DEF TypeOK
<1>1. ASSUME NEW pc \in Pc, Continue(p, pc) PROVE proc' \in [Process -> Handler]
  BY <1>0, <1>1 DEF Continue
<1>2. ASSUME NEW pc \in Pc, NEW u \in User, NEW b \in Bot, NEW why \in Why, Start(p, pc, u, b, why)
      PROVE  proc' \in [Process -> Handler]
  BY <1>0, <1>2 DEF Start, Doing
<1>3. ASSUME Finish(p) PROVE proc' \in [Process -> Handler]
  <2>1. Resting \in Handler
    BY RoutingAssumption DEF Resting, Doing, Why, Bot
  <2> QED
    BY <1>0, <1>3, <2>1 DEF Finish
<1>4. ASSUME Onward(p) PROVE proc' \in [Process -> Handler]
  <2>1. "none" \in Why /\ "via" \in Pc /\ "lookup" \in Pc /\ proc[p].user \in User /\ proc[p].bot \in Bot
    BY <1>0 DEF Why
  <2>2. CASE proc[p].why = "register"
    BY <1>1, <1>4, <2>1, <2>2 DEF Onward
  <2>3. CASE proc[p].why = "classroom"
    BY <1>2, <1>4, <2>1, <2>3 DEF Onward
  <2>4. CASE proc[p].why \notin {"register", "classroom"}
    BY <1>3, <1>4, <2>4 DEF Onward
  <2> QED
    BY <2>2, <2>3, <2>4
<1> QED
  BY <1>1, <1>2, <1>3, <1>4

\* What is the matter with one action: everything but its handler.
StoreTypes ==
  /\ route \in [User -> Bot \cup {NoBot}]
  /\ reverse \in [Bot -> SUBSET User]
  /\ assigned \in [User -> Bot \cup {NoBot}]
  /\ been \in [User -> SUBSET Helper]
  /\ torn \subseteq User
  /\ mode \in [Bot -> {"PEAK", "OFFPEAK"}]
  /\ ring \subseteq Helper
  /\ at \in [User -> Bot] /\ link \subseteq User
  /\ faults \in 0..MaxFaults

LEMMA TypesAre == TypeOK <=> StoreTypes /\ proc \in [Process -> Handler]
  BY DEF TypeOK, StoreTypes, Handler, Pc

\* What a handler in a step is about.
LEMMA HandlerIs ==
    ASSUME TypeOK, NEW p \in Process
    PROVE  proc[p].pc \in Pc /\ proc[p].user \in User /\ proc[p].bot \in Bot /\ proc[p].why \in Why
  BY TypesAre DEF Handler

LEMMA SetRouteTypes ==
    ASSUME TypeOK, NEW u \in User, NEW b \in Bot, SetRoute(u, b)
    PROVE  /\ route' \in [User -> Bot \cup {NoBot}]
           /\ reverse' \in [Bot -> SUBSET User]
           /\ been' \in [User -> SUBSET Helper]
  BY DEF TypeOK, SetRoute, Bot

\* A user's update is taken.
LEMMA TypeReceive ==
    ASSUME TypeOK, NEW p \in Process, NEW u \in User, Receive(p, u)
    PROVE  TypeOK'
<1>1. /\ "redis" \in Pc /\ "lookup" \in Pc /\ "home" \in Why /\ "none" \in Why /\ "classroom" \in Why
      /\ Main \in Bot /\ at[u] \in Bot
  BY DEF Pc, Why, Bot, TypeOK
<1>2. proc' \in [Process -> Handler]
  BY <1>1, HandlerTypes DEF Receive, StartBounce, Invite, Classroom, Serve
<1>3. StoreTypes'
  <2>0. StoreTypes
    BY TypesAre
  <2>1. CASE StartBounce(p, u)
    BY <1>1, <2>0, <2>1 DEF StartBounce, StoreTypes, stores
  <2>2. CASE Invite(p, u)
    <3>1. Assign(ring, Key[u]) \in Bot
      BY <2>0, <2>2, AssignIsNearest, RoutingAssumption DEF Invite, StoreTypes, Bot
    <3> QED
      BY <2>0, <2>2, <3>1 DEF Invite, StoreTypes, stores
  <2>3. CASE Classroom(p, u)
    BY <2>0, <2>3 DEF Classroom, StoreTypes, stores
  <2>4. CASE Serve(p, u)
    BY <2>0, <2>4 DEF Serve, StoreTypes, stores, people
  <2> QED
    BY <2>1, <2>2, <2>3, <2>4 DEF Receive
<1> QED
  BY <1>2, <1>3 DEF TypeOK, StoreTypes, Handler, Pc

\* A handler goes on.
LEMMA TypeHandlerStep ==
    ASSUME TypeOK, NEW p \in Process, Step(p)
    PROVE  TypeOK'
<1> DEFINE d == proc[p]
<1>0. StoreTypes /\ MaxFaults \in Nat
  BY TypesAre, RoutingAssumption
<1>1. d.user \in User /\ d.bot \in Bot /\ d.why \in Why /\ Main \in Bot
  BY HandlerIs DEF Bot
<1>2. Pc = {"idle", "lookup", "durable", "redis", "pg", "via"}
      /\ Why = {"none", "home", "classroom", "register", "fallback"}
  BY DEF Pc, Why
<1>3. CASE Lookup(p)
  <2>1. proc' \in [Process -> Handler]
    BY <1>1, <1>2, <1>3, HandlerTypes DEF Lookup
  <2>2. StoreTypes'
    BY <1>0, <1>3 DEF Lookup, StoreTypes, stores, people, Fault
  <2> QED
    BY <2>1, <2>2 DEF TypeOK, StoreTypes, Handler, Pc
<1>4. CASE ReadAssigned(p)
  <2>1. proc' \in [Process -> Handler]
    <3>1. (IF assigned[d.user] # NoBot THEN assigned[d.user] ELSE d.bot) \in Bot
      BY <1>0, <1>1 DEF StoreTypes
    <3> QED
      BY <1>1, <1>2, <1>4, <3>1, HandlerTypes DEF ReadAssigned
  <2>2. StoreTypes'
    BY <1>0, <1>4 DEF ReadAssigned, StoreTypes, stores, people, Fault
  <2> QED
    BY <2>1, <2>2 DEF TypeOK, StoreTypes, Handler, Pc
<1>5. CASE WriteRedis(p)
  <2>1. proc' \in [Process -> Handler]
    BY <1>2, <1>5, HandlerTypes DEF WriteRedis
  <2>2. StoreTypes'
    <3>1. faults' \in 0..MaxFaults
      BY <1>0, <1>5 DEF WriteRedis, Fault, StoreTypes
    <3>2. /\ route' \in [User -> Bot \cup {NoBot}]
          /\ reverse' \in [Bot -> SUBSET User]
          /\ been' \in [User -> SUBSET Helper]
      BY <1>0, <1>1, <1>5, SetRouteTypes DEF WriteRedis, StoreTypes
    <3> QED
      BY <1>0, <1>5, <3>1, <3>2 DEF WriteRedis, StoreTypes, people
  <2> QED
    BY <2>1, <2>2 DEF TypeOK, StoreTypes, Handler, Pc
<1>6. CASE WritePostgres(p)
  <2>1. proc' \in [Process -> Handler]
    BY <1>6, HandlerTypes DEF WritePostgres
  <2>2. StoreTypes'
    BY <1>0, <1>1, <1>6 DEF WritePostgres, StoreTypes, people, Fault
  <2> QED
    BY <2>1, <2>2 DEF TypeOK, StoreTypes, Handler, Pc
<1>7. CASE DeliverVia(p)
  <2>1. proc' \in [Process -> Handler]
    BY <1>1, <1>2, <1>7, HandlerTypes DEF DeliverVia
  <2>2. StoreTypes'
    BY <1>0, <1>7 DEF DeliverVia, StoreTypes, stores, people
  <2> QED
    BY <2>1, <2>2 DEF TypeOK, StoreTypes, Handler, Pc
<1> QED
  BY <1>3, <1>4, <1>5, <1>6, <1>7 DEF Step

\* What happens around the handlers.
LEMMA TypeEnvironment ==
    ASSUME TypeOK, Environment
    PROVE  TypeOK'
<1>0. StoreTypes /\ MaxFaults \in Nat /\ proc \in [Process -> Handler]
  BY TypesAre, RoutingAssumption
<1>1. ASSUME NEW p \in Process, NEW u \in User, NEW b \in Bot, Notify(p, b, u) PROVE TypeOK'
  <2>1. proc' \in [Process -> Handler]
    BY <1>1, HandlerTypes DEF Notify, Pc, Why
  <2>2. StoreTypes'
    BY <1>0, <1>1 DEF Notify, StoreTypes, stores, people
  <2> QED
    BY <2>1, <2>2 DEF TypeOK, StoreTypes, Handler, Pc
<1>2. ASSUME NEW p \in Process, Die(p) PROVE TypeOK'
  <2>1. proc' \in [Process -> Handler]
    BY <1>2, HandlerTypes DEF Die
  <2>2. StoreTypes'
    BY <1>0, <1>2 DEF Die, StoreTypes, stores, people, Fault
  <2> QED
    BY <2>1, <2>2 DEF TypeOK, StoreTypes, Handler, Pc
<1>3. CASE Forget
  <2>1. StoreTypes'
    BY <1>0, <1>3 DEF Forget, StoreTypes, people, Fault
  <2> QED
    BY <1>0, <1>3, <2>1 DEF TypeOK, StoreTypes, Handler, Pc, Forget
<1>4. ASSUME NEW b \in Bot, ChangeMode(b) PROVE TypeOK'
  <2>1. StoreTypes'
    BY <1>0, <1>4 DEF ChangeMode, StoreTypes, stores, people
  <2> QED
    BY <1>0, <1>4, <2>1 DEF TypeOK, StoreTypes, Handler, Pc, ChangeMode
<1>5. ASSUME NEW S \in SUBSET Helper, Reconfigure(S) PROVE TypeOK'
  <2>1. StoreTypes'
    BY <1>0, <1>5 DEF Reconfigure, StoreTypes, stores, people, Fault
  <2> QED
    BY <1>0, <1>5, <2>1 DEF TypeOK, StoreTypes, Handler, Pc, Reconfigure
<1>6. ASSUME NEW U \in SUBSET User, Evict(U) PROVE TypeOK'
  <2>1. StoreTypes'
    BY <1>0, <1>6 DEF Evict, StoreTypes, people, Fault
  <2> QED
    BY <1>0, <1>6, <2>1 DEF TypeOK, StoreTypes, Handler, Pc, Evict
<1>7. ASSUME NEW b \in Bot, EvictIndex(b) PROVE TypeOK'
  <2>1. StoreTypes'
    BY <1>0, <1>7 DEF EvictIndex, StoreTypes, people, Fault
  <2> QED
    BY <1>0, <1>7, <2>1 DEF TypeOK, StoreTypes, Handler, Pc, EvictIndex
<1> QED
  BY <1>1, <1>2, <1>3, <1>4, <1>5, <1>6, <1>7 DEF Environment

LEMMA TypeStep == TypeOK /\ [Next]_vars => TypeOK'
<1> SUFFICES ASSUME TypeOK, [Next]_vars PROVE TypeOK'
  OBVIOUS
<1>1. CASE UNCHANGED vars
  BY <1>1 DEF TypeOK, vars
<1> QED
  BY <1>1, TypeHandlerStep, TypeReceive, TypeEnvironment DEF Next

LEMMA TypeInit == Init => TypeOK
<1> SUFFICES ASSUME Init PROVE TypeOK
  OBVIOUS
<1>1. Resting \in Handler
  BY RoutingAssumption DEF Resting, Doing, Handler, Pc, Why, Bot
<1>2. StoreTypes
  BY RoutingAssumption DEF Init, StoreTypes, Bot
<1> QED
  BY <1>1, <1>2, TypesAre DEF Init

\* Type correctness.
THEOREM TypeCorrect == Spec => []TypeOK
  BY TypeInit, TypeStep, PTL DEF Spec

-----------------------------------------------------------------------------
(* The reverse index.                                                      *)

\* A run of the script: what holds of u's old route holds of his new one, and
\* nobody else is touched.
LEMMA ReverseSet ==
    ASSUME TypeOK, ReverseExact, NEW u \in User, NEW b \in Bot, SetRoute(u, b), torn' = torn
    PROVE  ReverseExact'
<1>1. CASE route[u] = b
  BY <1>1 DEF SetRoute, ReverseExact
<1>2. CASE route[u] # b
  <2> SUFFICES ASSUME NEW v \in User \ torn, NEW c \in Bot
               PROVE  v \in reverse'[c] <=> route'[v] = c
    BY DEF ReverseExact
  <2>0. v \in reverse[c] <=> route[v] = c
    BY DEF ReverseExact
  <2>1. /\ route'[v] = IF v = u THEN b ELSE route[v]
        /\ c = b => reverse'[c] = reverse[c] \cup {u}
        /\ c # b /\ c = route[u] => reverse'[c] = reverse[c] \ {u}
        /\ c # b /\ c # route[u] => reverse'[c] = reverse[c]
    BY <1>2 DEF SetRoute, TypeOK
  <2>2. CASE v = u
    BY <1>2, <2>0, <2>1, <2>2
  <2>3. CASE v # u
    BY <2>0, <2>1, <2>3
  <2> QED
    BY <2>2, <2>3
<1> QED
  BY <1>1, <1>2

\* An eviction: whoever loses an entry is torn.
LEMMA ReverseEvict ==
    ASSUME TypeOK, ReverseExact, Forget \/ (\E U \in SUBSET User : Evict(U)) \/ (\E b \in Bot : EvictIndex(b))
    PROVE  ReverseExact'
<1>1. CASE Forget
  <2>1. NoBot \notin Bot
    BY RingAssumption, RoutingAssumption DEF Bot
  <2> QED
    BY <1>1, <2>1 DEF Forget, ReverseExact
<1>2. ASSUME NEW U \in SUBSET User, Evict(U) PROVE ReverseExact'
  BY <1>2 DEF Evict, ReverseExact
<1>3. ASSUME NEW b \in Bot, EvictIndex(b) PROVE ReverseExact'
  BY <1>3 DEF EvictIndex, ReverseExact, TypeOK
<1> QED
  BY <1>1, <1>2, <1>3

LEMMA ReverseStep == TypeOK /\ ReverseExact /\ [Next]_vars => ReverseExact'
<1> SUFFICES ASSUME TypeOK, ReverseExact, [Next]_vars PROVE ReverseExact'
  OBVIOUS
<1>1. CASE UNCHANGED <<route, reverse, torn>>
  BY <1>1 DEF ReverseExact
<1>2. ASSUME NEW p \in Process, WriteRedis(p) PROVE ReverseExact'
  <2>1. proc[p].user \in User /\ proc[p].bot \in Bot
    BY HandlerIs
  <2>2. torn' = torn /\ (SetRoute(proc[p].user, proc[p].bot) \/ UNCHANGED <<route, reverse>>)
    BY <1>2 DEF WriteRedis
  <2> QED
    BY <1>1, <2>1, <2>2, ReverseSet
<1>3. ASSUME NEW p \in Process, Step(p) PROVE ReverseExact'
  <2>1. WriteRedis(p) \/ UNCHANGED <<route, reverse, torn>>
    BY <1>3 DEF Step, Lookup, ReadAssigned, WritePostgres, DeliverVia, stores
  <2> QED
    BY <1>1, <1>2, <2>1
<1>4. ASSUME NEW p \in Process, NEW u \in User, Receive(p, u) PROVE ReverseExact'
  BY <1>1, <1>4 DEF Receive, StartBounce, Invite, Classroom, Serve, stores
<1>5. CASE Environment
  BY <1>1, <1>5, ReverseEvict DEF Environment, Notify, Die, ChangeMode, Reconfigure, stores
<1> QED
  BY <1>1, <1>3, <1>4, <1>5 DEF Next, vars

\* The reverse index is the inverse of the routing map, but for evicted keys.
THEOREM ReverseIsExact == Spec => []ReverseExact
<1>1. Init => ReverseExact
  <2>1. NoBot \notin Bot
    BY RingAssumption, RoutingAssumption DEF Bot
  <2> QED
    BY <2>1 DEF Init, ReverseExact
<1> QED
  BY <1>1, TypeInit, TypeStep, ReverseStep, PTL DEF Spec

-----------------------------------------------------------------------------
(* PostgreSQL after Redis.  Inductive with what a handler carries from the  *)
(* write of Redis to that of PostgreSQL: only a move home goes on after an  *)
(* error, and it names no helper.                                          *)

HomeIsMain == \A p \in Process : proc[p].why = "home" => proc[p].bot = Main
CarriesRouted ==
  \A p \in Process : proc[p].pc = "pg" /\ proc[p].bot \in Helper => proc[p].bot \in been[proc[p].user]

Carried == HomeIsMain /\ CarriesRouted /\ DurableWasRouted

\* A handler that starts anything but a write of PostgreSQL carries nothing.
LEMMA CarryNothing ==
    ASSUME TypeOK, Carried, NEW p \in Process, UNCHANGED <<assigned, been>>,
           \/ Finish(p)
           \/ \E pc \in Pc \ {"pg"} : Continue(p, pc)
           \/ \E pc \in Pc \ {"pg"}, u \in User, b \in Bot, why \in Why :
                 Start(p, pc, u, b, why) /\ (why = "home" => b = Main)
    PROVE  Carried'
<1>1. proc \in [Process -> Handler]
  BY TypesAre
<1>2. CASE Finish(p)
  BY <1>1, <1>2 DEF Carried, HomeIsMain, CarriesRouted, DurableWasRouted, Finish, Resting, Doing, Handler
<1>3. ASSUME NEW pc \in Pc \ {"pg"}, Continue(p, pc) PROVE Carried'
  BY <1>1, <1>3 DEF Carried, HomeIsMain, CarriesRouted, DurableWasRouted, Continue, Handler
<1>4. ASSUME NEW pc \in Pc \ {"pg"}, NEW u \in User, NEW b \in Bot, NEW why \in Why,
             Start(p, pc, u, b, why), why = "home" => b = Main
      PROVE  Carried'
  BY <1>1, <1>4 DEF Carried, HomeIsMain, CarriesRouted, DurableWasRouted, Start, Doing, Handler
<1> QED
  BY <1>2, <1>3, <1>4

LEMMA CarriedStep == TypeOK /\ Carried /\ [Next]_vars => Carried'
<1> SUFFICES ASSUME TypeOK, Carried, [Next]_vars PROVE Carried'
  OBVIOUS
<1> USE DEF Pc, Why
<1>0. Main \in Bot
  BY DEF Bot
<1>1. CASE UNCHANGED <<assigned, been, proc>>
  BY <1>1 DEF Carried, HomeIsMain, CarriesRouted, DurableWasRouted
<1>2. ASSUME NEW p \in Process, NEW u \in User, Receive(p, u) PROVE Carried'
  <2>1. at[u] \in Bot
    BY DEF TypeOK
  <2> QED
    BY <1>0, <1>2, <2>1, CarryNothing DEF Receive, StartBounce, Invite, Classroom, Serve, stores
<1>3. ASSUME NEW p \in Process, Step(p) PROVE Carried'
  <2> DEFINE d == proc[p]
  <2>0. d.user \in User /\ d.bot \in Bot /\ d.why \in Why /\ proc \in [Process -> Handler]
    BY HandlerIs, TypesAre
  <2>1. CASE Lookup(p)
    BY <1>0, <2>0, <2>1, CarryNothing DEF Lookup, stores
  <2>2. CASE ReadAssigned(p)
    <3>1. (IF assigned[d.user] # NoBot THEN assigned[d.user] ELSE d.bot) \in Bot
      BY <2>0 DEF TypeOK
    <3> QED
      BY <2>0, <2>2, <3>1, CarryNothing DEF ReadAssigned, stores
  <2>3. CASE WriteRedis(p)
    <3>1. \A u \in User : been[u] \subseteq been'[u]
      BY <2>3 DEF WriteRedis, SetRoute, TypeOK
    <3>2. HomeIsMain'
      BY <2>0, <2>3 DEF WriteRedis, Onward, Continue, Start, Finish, Doing, Resting, Carried, HomeIsMain, Handler
    <3>3. DurableWasRouted'
      BY <2>3, <3>1 DEF WriteRedis, Carried, DurableWasRouted
    <3>4. CarriesRouted'
      <4>1. ASSUME NEW q \in Process, q # p PROVE proc'[q] = proc[q]
        BY <2>0, <2>3, <4>1 DEF WriteRedis, Onward, Continue, Start, Finish
      <4>2. ASSUME proc'[p].pc = "pg", proc'[p].bot \in Helper
            PROVE  proc'[p].bot \in been'[proc'[p].user]
        <5>1. Continue(p, "pg") /\ d.bot \in Helper
          BY <2>0, <2>3, <4>2, RoutingAssumption
          DEF WriteRedis, Onward, Continue, Start, Finish, Doing, Resting, Handler
        <5>2. d.why # "home" /\ d.pc = "redis"
          BY <2>3, <5>1, RoutingAssumption DEF WriteRedis, Carried, HomeIsMain
        <5>3. proc'[p].pc = "pg"
          BY <4>2
        <5>4. ~Onward(p)
          BY <2>0, <5>2, <5>3 DEF Onward, Continue, Start, Finish, Doing, Resting, Handler
        <5>5. SetRoute(d.user, d.bot) /\ route[d.user] # d.bot
          <6>1. CASE d.why = "classroom"
            BY <2>0, <2>3, <5>2, <5>3, <5>4, <6>1 DEF WriteRedis, Finish, Resting, Doing, Handler
          <6>2. CASE d.why # "classroom"
            BY <2>0, <2>3, <5>2, <5>4, <6>2 DEF WriteRedis
          <6> QED
            BY <6>1, <6>2
        <5>6. d.bot \in been'[d.user]
          BY <2>0, <5>1, <5>5, RoutingAssumption DEF SetRoute, TypeOK
        <5> QED
          BY <2>0, <5>1, <5>6 DEF Continue, Handler
      <4> QED
        BY <2>0, <3>1, <4>1, <4>2 DEF Carried, CarriesRouted, Handler
    <3> QED
      BY <3>2, <3>3, <3>4 DEF Carried
  <2>4. CASE WritePostgres(p)
    <3>1. d.pc = "pg" /\ been' = been
      BY <2>4 DEF WritePostgres
    <3>2. DurableWasRouted'
      BY <2>0, <2>4, <3>1 DEF WritePostgres, Carried, DurableWasRouted, CarriesRouted, TypeOK
    <3>3. HomeIsMain' /\ CarriesRouted'
      BY <2>0, <2>4, <3>1
      DEF WritePostgres, Onward, Continue, Start, Finish, Doing, Resting, Carried, HomeIsMain, CarriesRouted, Handler
    <3> QED
      BY <3>2, <3>3 DEF Carried
  <2>5. CASE DeliverVia(p)
    BY <1>0, <2>0, <2>5, CarryNothing DEF DeliverVia, stores
  <2> QED
    BY <1>3, <2>1, <2>2, <2>3, <2>4, <2>5 DEF Step
<1>4. CASE Environment
  BY <1>1, <1>4, CarryNothing DEF Environment, Notify, Die, Forget, Evict, EvictIndex, ChangeMode, Reconfigure, stores
<1> QED
  BY <1>1, <1>2, <1>3, <1>4 DEF Next, vars, stores

\* PostgreSQL names a helper only if the user was routed there.
THEOREM DurableIsRouted == Spec => []DurableWasRouted
<1>1. Init => Carried
  BY RingAssumption, RoutingAssumption
  DEF Init, Carried, HomeIsMain, CarriesRouted, DurableWasRouted, Resting, Doing
<1>2. Carried => DurableWasRouted
  BY DEF Carried
<1> QED
  BY <1>1, <1>2, TypeInit, TypeStep, CarriedStep, PTL DEF Spec

=============================================================================
