-------------------------- MODULE GuardedPairProofs --------------------------
(***************************************************************************)
(* Proofs about GuardedPair, for every quantity, number of attempts and    *)
(* bound: types, a second leg only after a filled first one, one order of  *)
(* a leg that can fill, and what the status a request ends with says of    *)
(* the orders and positions at the venues.                                 *)
(***************************************************************************)
EXTENDS GuardedPair, SequenceTheorems, TLAPS

USE VenueAssumption, SizeAssumption, BoundAssumption

Working == req.pc \in {"send", "answer", "observe"}
Opening == req.kind = "open" /\ req.pc \in {"send", "answer", "observe", "journal"}

IsMine(v, i) == /\ i \in DOMAIN orders[v]
                /\ [venue |-> v, ord |-> i] \notin others
                /\ \A j \in DOMAIN orders[v] : j > i => [venue |-> v, ord |-> j] \in others

\* A request at work has a leg to submit, of a positive size.
WorkToDo ==
    Working => /\ req.todo # <<>>
               /\ \A i \in DOMAIN req.todo : req.size[req.todo[i]] > 0
               /\ req.kind = "open" => req.todo \in {<<first, second>>, <<second>>}

\* The order a request waits for can be told from those of other processes.
OrdersOwned ==
    /\ \A l \in others : l.ord \in DOMAIN orders[l.venue]
    /\ req.pc \in {"answer", "observe"} => \E i \in DOMAIN orders[Leg1] : IsMine(Leg1, i)

\* Until an open is journaled there are no orders but its own.
OpenAlone ==
    /\ Opening \/ req.pc = "idle" =>
          others = {} /\ entry = NoEntry /\ \A v \in Venue : \A i \in DOMAIN orders[v] : ~orders[v][i].reduce
    /\ req.pc = "idle" => \A v \in Venue : orders[v] = <<>>

\* What an open has sent, as far as it has come.
OpenProgress ==
    Opening /\ Working =>
        /\ req.todo = <<first, second>> => orders[second] = <<>>
        /\ req.todo = <<second>> => \E i \in Opens(first) : Filled(first, i)
        /\ req.pc = "send" => \A i \in DOMAIN orders[Leg1] : Unfilled(Leg1, i)
        /\ req.pc # "send" => \A i \in DOMAIN orders[Leg1] : i < Len(orders[Leg1]) => Unfilled(Leg1, i)

IInv == /\ TypeOK /\ WorkToDo /\ OrdersOwned /\ OpenAlone /\ OpenProgress
        /\ SecondLegAfterFilledFirst /\ OneOrderPerLegMayFill

-----------------------------------------------------------------------------
(* Orders that advance, and orders that are added.                         *)

\* No order is added, and closed orders stay as they are.
OrdersKept ==
    /\ orders' \in [Venue -> Seq(Order)]
    /\ \A v \in Venue :
          /\ DOMAIN orders'[v] = DOMAIN orders[v]
          /\ Len(orders'[v]) = Len(orders[v])
          /\ \A i \in DOMAIN orders[v] :
                /\ orders'[v][i].reduce = orders[v][i].reduce
                /\ orders[v][i].state = "closed" => orders'[v][i] = orders[v][i]

\* An order is added at v.
OrderAdded(v, reduce) ==
    /\ orders' \in [Venue -> Seq(Order)]
    /\ \A w \in Venue \ {v} : orders'[w] = orders[w]
    /\ Len(orders'[v]) = Len(orders[v]) + 1
    /\ DOMAIN orders'[v] = 1..(Len(orders[v]) + 1)
    /\ DOMAIN orders[v] = 1..Len(orders[v])
    /\ \A i \in DOMAIN orders[v] : orders'[v][i] = orders[v][i]
    /\ orders'[v][Len(orders[v]) + 1].reduce = reduce

\* Replacing an order that is not closed keeps the others.
LEMMA ReplaceOrder ==
    ASSUME TypeOK, NEW v \in Venue, NEW i \in DOMAIN orders[v], NEW o \in Order,
           orders[v][i].state # "closed", o.reduce = orders[v][i].reduce,
           orders' = [orders EXCEPT ![v] = [orders[v] EXCEPT ![i] = o]]
    PROVE  OrdersKept
<1>1. orders \in [Venue -> Seq(Order)] /\ orders[v] \in Seq(Order)  BY DEF TypeOK
<1> DEFINE s == [orders[v] EXCEPT ![i] = o]
<1>2. s \in Seq(Order) /\ Len(s) = Len(orders[v]) /\ DOMAIN s = DOMAIN orders[v]
      /\ \A k \in DOMAIN orders[v] : s[k] = IF k = i THEN o ELSE orders[v][k]
    BY <1>1, ExceptSeq
<1>3. \A w \in Venue : orders'[w] = IF w = v THEN s ELSE orders[w]  BY <1>1
<1>4. orders' \in [Venue -> Seq(Order)]  BY <1>1, <1>2
<1> QED  BY <1>1, <1>2, <1>3, <1>4 DEF OrdersKept

\* Appending an order keeps the others.
LEMMA AppendOrder ==
    ASSUME TypeOK, NEW v \in Venue, NEW n \in Nat \ {0}, NEW b \in BOOLEAN,
           orders' = [orders EXCEPT ![v] = Append(orders[v], NewOrder(n, b))]
    PROVE  OrderAdded(v, b)
<1>1. orders \in [Venue -> Seq(Order)] /\ orders[v] \in Seq(Order)  BY DEF TypeOK
<1>2. NewOrder(n, b) \in Order /\ NewOrder(n, b).reduce = b  BY DEF NewOrder, Order
<1>3. Append(orders[v], NewOrder(n, b)) \in Seq(Order)  BY <1>1, <1>2
<1>4. orders'[v] = Append(orders[v], NewOrder(n, b))  BY <1>1
<1>5. \A w \in Venue \ {v} : orders'[w] = orders[w]  BY <1>1
<1> QED  BY <1>1, <1>2, <1>3, <1>4, <1>5 DEF OrderAdded

\* Accept and Refuse only move an order on.
LEMMA SettleKeeps ==
    ASSUME TypeOK, NEW v \in Venue, NEW i \in DOMAIN orders[v],
           NEW from \in {"sent", "open"}, NEW to \in {"open", "refused"}, Settle(v, i, from, to)
    PROVE  OrdersKept
<1> DEFINE o == [orders[v][i] EXCEPT !.state = to]
<1>1. orders[v] \in Seq(Order) /\ orders[v][i] \in Order  BY DEF TypeOK
<1>2. o \in Order /\ o.reduce = orders[v][i].reduce  BY <1>1 DEF Order
<1>3. orders' = [orders EXCEPT ![v] = [orders[v] EXCEPT ![i] = o]]  BY DEF Settle, SetState
<1>4. orders[v][i].state # "closed"  BY DEF Settle
<1> HIDE DEF o
<1> QED  BY <1>2, <1>3, <1>4, ReplaceOrder

\* Match closes an order, filled in part or in full or not at all.
LEMMA MatchKeeps ==
    ASSUME TypeOK, NEW v \in Venue, NEW i \in DOMAIN orders[v], Match(v, i)
    PROVE  OrdersKept /\ pos' \in [Venue -> Int]
<1>1. orders[v] \in Seq(Order) /\ orders[v][i] \in Order  BY DEF TypeOK
<1>2. PICK f \in 0..orders[v][i].size :
         /\ orders' = [orders EXCEPT ![v][i].state = "closed", ![v][i].filled = f]
         /\ pos' = [pos EXCEPT ![v] = IF orders[v][i].reduce THEN pos[v] - f ELSE pos[v] + f]
    BY DEF Match
<1>3. f \in Nat  BY <1>1 DEF Order
<1> DEFINE o == [orders[v][i] EXCEPT !.state = "closed", !.filled = f]
<1>4. o \in Order /\ o.reduce = orders[v][i].reduce  BY <1>1, <1>3 DEF Order
<1>5. orders' = [orders EXCEPT ![v] = [orders[v] EXCEPT ![i] = o]]
    BY <1>1, <1>2 DEF TypeOK, Order
<1>6. orders[v][i].state # "closed"  BY DEF Match
<1>7. pos' \in [Venue -> Int]  BY <1>2, <1>3 DEF TypeOK
<1> HIDE DEF o
<1> QED  BY <1>4, <1>5, <1>6, <1>7, ReplaceOrder

-----------------------------------------------------------------------------
(* The parts of the invariant, by the kinds of steps.                      *)

Parts == /\ WorkToDo /\ OrdersOwned /\ OpenAlone /\ OpenProgress
         /\ SecondLegAfterFilledFirst /\ OneOrderPerLegMayFill

\* Orders that only advance disturb nothing.
LEMMA KeptOrders ==
    ASSUME IInv, OrdersKept, UNCHANGED <<first, second, req, entry, others>>
    PROVE  Parts'
<1>1. \A v \in Venue : \A i \in DOMAIN orders[v] :
         (Unfilled(v, i) => Unfilled(v, i)') /\ (Filled(v, i) => Filled(v, i)')
    BY DEF OrdersKept, Unfilled, Filled
<1>2. \A v \in Venue : Opens(v)' = Opens(v) /\ Opens(v) \subseteq DOMAIN orders[v]
    BY DEF OrdersKept, Opens
<1>3. first \in Venue /\ second \in Venue /\ (Working => Leg1 \in Venue) /\ others \subseteq Leg
    BY DEF IInv, TypeOK, Request, WorkToDo, Leg1
<1>4. WorkToDo'  BY DEF IInv, WorkToDo, Working
<1>5. OrdersOwned'
    BY <1>3 DEF IInv, OrdersOwned, OrdersKept, IsMine, Leg1, Leg, Working
<1>6. OpenAlone'
    <2>1. \A v \in Venue : orders[v] = <<>> => orders'[v] = <<>>
        BY EmptySeq DEF OrdersKept, IInv, TypeOK
    <2> QED  BY <2>1 DEF IInv, OpenAlone, OrdersKept, Opening
<1>7. OpenProgress'
    <2>1. orders[second] = <<>> => orders'[second] = <<>>
        BY <1>3, EmptySeq DEF OrdersKept, IInv, TypeOK
    <2> QED  BY <1>1, <1>2, <1>3, <2>1 DEF IInv, OpenProgress, OrdersKept, Opening, Working, Leg1
<1>8. SecondLegAfterFilledFirst'  BY <1>1, <1>2, <1>3 DEF IInv, SecondLegAfterFilledFirst
<1>9. OneOrderPerLegMayFill'  BY <1>1, <1>2 DEF IInv, OneOrderPerLegMayFill
<1> QED  BY <1>4, <1>5, <1>6, <1>7, <1>8, <1>9 DEF Parts

\* A request that has no leg to submit any more needs nothing of them.
LEMMA AtRest ==
    ASSUME IInv, UNCHANGED <<first, second, orders, others>>,
           req'.pc \in {"accounts", "orders", "decide", "done", "failed"}
    PROVE  Parts'
<1>1. WorkToDo' /\ OpenAlone' /\ OpenProgress'
    BY DEF WorkToDo, OpenAlone, OpenProgress, Working, Opening
<1>2. OrdersOwned'  BY DEF IInv, OrdersOwned
<1>3. SecondLegAfterFilledFirst' /\ OneOrderPerLegMayFill'
    BY DEF IInv, SecondLegAfterFilledFirst, OneOrderPerLegMayFill, Opens, Filled, Unfilled
<1> QED  BY <1>1, <1>2, <1>3 DEF Parts

\* Nor does a close or a cleanup that begins to submit.
LEMMA BeginReduce ==
    ASSUME IInv, UNCHANGED <<first, second, orders, others, entry>>,
           req'.pc = "send", req'.kind # "open", req'.todo # <<>>,
           \A i \in DOMAIN req'.todo : req'.size[req'.todo[i]] > 0
    PROVE  Parts'
<1>1. WorkToDo' /\ OpenAlone' /\ OpenProgress'
    BY DEF WorkToDo, OpenAlone, OpenProgress, Working, Opening
<1>2. OrdersOwned'  BY DEF IInv, OrdersOwned
<1>3. SecondLegAfterFilledFirst' /\ OneOrderPerLegMayFill'
    BY DEF IInv, SecondLegAfterFilledFirst, OneOrderPerLegMayFill, Opens, Filled, Unfilled
<1> QED  BY <1>1, <1>2, <1>3 DEF Parts

\* The leg a request works on, and the legs after it.
LEMMA TodoFacts ==
    ASSUME IInv, Working
    PROVE  /\ Leg1 \in Venue /\ Tail(req.todo) \in Seq(Venue) /\ req.size[Leg1] \in Nat \ {0}
           /\ \A i \in DOMAIN Tail(req.todo) : req.size[Tail(req.todo)[i]] > 0
           /\ req.todo = <<first, second>> => Leg1 = first /\ Tail(req.todo) = <<second>>
           /\ req.todo = <<second>> => Leg1 = second /\ Tail(req.todo) = <<>>
           /\ first \in Venue /\ second \in Venue /\ first # second
<1>1. req.todo \in Seq(Venue) /\ req.todo # <<>> /\ req.size \in [Venue -> Int]
      /\ \A i \in DOMAIN req.todo : req.size[req.todo[i]] > 0
    BY DEF IInv, TypeOK, Request, WorkToDo
<1>2. Leg1 = req.todo[1] /\ Len(req.todo) \in Nat \ {0} /\ DOMAIN req.todo = 1..Len(req.todo)
    BY <1>1, EmptySeq DEF Leg1
<1>3. Tail(req.todo) \in Seq(Venue) /\ Len(Tail(req.todo)) = Len(req.todo) - 1
      /\ \A i \in 1..Len(Tail(req.todo)) : Tail(req.todo)[i] = req.todo[i + 1]
    BY <1>1, <1>2, HeadTailProperties
<1>4. \A i \in DOMAIN Tail(req.todo) : i + 1 \in DOMAIN req.todo /\ Tail(req.todo)[i] = req.todo[i + 1]
    <2>1. DOMAIN Tail(req.todo) = 1..Len(Tail(req.todo))  BY <1>3
    <2> QED  BY <1>2, <1>3, <2>1
<1>5. \A i \in DOMAIN Tail(req.todo) : req.size[Tail(req.todo)[i]] > 0
    BY <1>1, <1>4
<1>6. first \in Venue /\ second \in Venue /\ first # second  BY DEF IInv, TypeOK
<1>7. req.todo = <<first, second>> => Leg1 = first /\ Tail(req.todo) = <<second>>  BY DEF Leg1
<1>8. req.todo = <<second>> => Leg1 = second /\ Tail(req.todo) = <<>>  BY DEF Leg1
<1>9. Leg1 \in Venue /\ req.size[Leg1] \in Nat \ {0}
    <2>1. 1 \in DOMAIN req.todo  BY <1>2
    <2>2. req.todo[1] \in Venue  BY <1>1, <2>1
    <2>3. req.size[req.todo[1]] > 0 /\ req.size[req.todo[1]] \in Int  BY <1>1, <2>1, <2>2
    <2> QED  BY <1>2, <2>2, <2>3
<1> QED  BY <1>3, <1>5, <1>6, <1>7, <1>8, <1>9

\* A leg that ends leads on to the second one of an open only when filled.
LEMMA LegEnds ==
    ASSUME IInv, Working, NEW ord \in Nat, NEW submitted \in BOOLEAN, NEW seen,
           LegDone(ord, submitted, seen), UNCHANGED <<first, second, orders, others, entry>>,
           req.kind = "open" /\ seen = "filled" => \E i \in Opens(Leg1) : Filled(Leg1, i)
    PROVE  Parts' /\ req' \in Request
<1> DEFINE goOn == submitted /\ (req.kind = "open" => seen = "filled")
           left == IF goOn THEN Tail(req.todo) ELSE <<>>
           pc == IF left = <<>> THEN "journal" ELSE "send"
           legs == Append(req.legs, [venue |-> Leg1, ord |-> ord])
<1>1. req' = [req EXCEPT !.legs = legs, !.todo = left, !.pc = pc, !.attempt = 1, !.market = FALSE]
    BY DEF LegDone
<1>2. left \in Seq(Venue) /\ pc \in {"send", "journal"}  BY TodoFacts
<1>3. legs \in Seq(Leg)  BY TodoFacts DEF IInv, TypeOK, Request, Leg
<1>4. req' \in Request
    <2>1. pc \in PC /\ 1 \in 1..Attempts  BY <1>2 DEF PC
    <2>2. req \in Request  BY DEF IInv, TypeOK
    <2> HIDE DEF left, pc, legs
    <2> QED  BY <1>1, <1>2, <1>3, <2>1, <2>2 DEF Request
<1>5. req \in Request  BY DEF IInv, TypeOK
<1>6. req'.pc = pc /\ req'.todo = left /\ req'.kind = req.kind /\ req'.size = req.size
    <2> HIDE DEF left, pc, legs
    <2> QED  BY <1>1, <1>5 DEF Request
<1>7. Working' => left # <<>> /\ left = Tail(req.todo) /\ goOn  BY <1>6 DEF Working
<1>8. Working' /\ req.kind = "open" => req.todo = <<first, second>> /\ left = <<second>> /\ Leg1 = first
    BY <1>7, TodoFacts DEF IInv, WorkToDo
<1>9. WorkToDo'
    <2>1. \A i \in DOMAIN Tail(req.todo) : req.size[Tail(req.todo)[i]] > 0  BY TodoFacts
    <2> HIDE DEF left, pc, goOn
    <2> QED  BY <1>6, <1>7, <1>8, <2>1 DEF WorkToDo, Working
<1>10. OrdersOwned'  BY <1>6 DEF IInv, OrdersOwned
<1>11. OpenAlone'
    BY <1>6 DEF IInv, OpenAlone, Opening, Working
<1>12. OpenProgress'
    <2> SUFFICES ASSUME Opening', Working'  PROVE OpenProgress'
        BY DEF OpenProgress
    <2>1. req.kind = "open" /\ req'.pc = "send" /\ Opening  BY <1>6 DEF Opening, Working
    <2>2. req.todo = <<first, second>> /\ req'.todo = <<second>> /\ Leg1 = first
        BY <1>6, <1>8, <2>1
    <2>3. \E i \in Opens(first) : Filled(first, i)  BY <1>7, <2>1, <2>2
    <2>4. orders[second] = <<>>  BY <2>1, <2>2 DEF IInv, OpenProgress, Working
    <2>5. Leg1' = second  BY <2>2 DEF Leg1
    <2>6. (\E i \in Opens(first) : Filled(first, i))'  BY <2>3 DEF Opens, Filled
    <2>7. first # second /\ (req'.todo = <<first, second>> => FALSE)  BY <2>2, TodoFacts
    <2>8. (\A i \in DOMAIN orders[Leg1] : Unfilled(Leg1, i))'  BY <2>4, <2>5
    <2> QED  BY <2>1, <2>6, <2>7, <2>8 DEF OpenProgress
<1>13. SecondLegAfterFilledFirst' /\ OneOrderPerLegMayFill'
    BY DEF IInv, SecondLegAfterFilledFirst, OneOrderPerLegMayFill, Opens, Filled, Unfilled
<1> QED  BY <1>4, <1>9, <1>10, <1>11, <1>12, <1>13 DEF Parts

\* The order a request waits for: for an open, the last one of its leg.
LEMMA MineFacts ==
    ASSUME IInv, req.pc \in {"answer", "observe"}
    PROVE  /\ Leg1 \in Venue /\ Mine \in DOMAIN orders[Leg1] /\ Mine \in Nat
           /\ orders[Leg1][Mine] \in Order
           /\ Opening => Mine = Len(orders[Leg1]) /\ ~orders[Leg1][Mine].reduce
<1>1. Leg1 \in Venue  BY TodoFacts DEF Working
<1>2. orders[Leg1] \in Seq(Order)  BY <1>1 DEF IInv, TypeOK
<1>3. PICK i : IsMine(Leg1, i)  BY DEF IInv, OrdersOwned
<1>4. IsMine(Leg1, Mine)  BY <1>3 DEF Mine, IsMine
<1>5. Mine \in DOMAIN orders[Leg1]  BY <1>4 DEF IsMine
<1>6. Mine \in 1..Len(orders[Leg1]) /\ orders[Leg1][Mine] \in Order  BY <1>2, <1>5
<1>7. ASSUME Opening  PROVE Mine = Len(orders[Leg1]) /\ ~orders[Leg1][Mine].reduce
    <2>1. others = {} /\ ~orders[Leg1][Mine].reduce  BY <1>1, <1>5, <1>7 DEF IInv, OpenAlone
    <2>2. \A j \in DOMAIN orders[Leg1] : ~(j > Mine)  BY <1>4, <2>1 DEF IsMine
    <2>3. Len(orders[Leg1]) \in DOMAIN orders[Leg1]  BY <1>2, <1>6
    <2> QED  BY <1>2, <1>6, <2>1, <2>2, <2>3
<1> QED  BY <1>1, <1>5, <1>6, <1>7

\* What an observation shows of the order.
LEMMA Observed ==
    ASSUME IInv, req.pc \in {"answer", "observe"}
    PROVE  /\ Classify(orders[Leg1][Mine]) = "unfilled" => Unfilled(Leg1, Mine)
           /\ Classify(orders[Leg1][Mine]) = "filled" /\ req.kind = "open"
                 => \E i \in Opens(Leg1) : Filled(Leg1, i)
<1>1. Mine \in DOMAIN orders[Leg1] /\ orders[Leg1][Mine] \in Order  BY MineFacts
<1>2. Classify(orders[Leg1][Mine]) = "unfilled" => Unfilled(Leg1, Mine)
    BY <1>1 DEF Classify, Unfilled
<1>3. Classify(orders[Leg1][Mine]) = "filled" => Filled(Leg1, Mine)
    BY <1>1 DEF Classify, Filled
<1>4. req.kind = "open" => Mine \in Opens(Leg1)  BY <1>1, MineFacts DEF Opens, Opening
<1> QED  BY <1>2, <1>3, <1>4

\* Sending an order.
LEMMA SubmitKeeps ==
    ASSUME IInv, Submit
    PROVE  IInv'
<1> DEFINE v == Leg1
           reduce == req.kind # "open"
<1>1. v \in Venue /\ Working /\ req.size[v] \in Nat \ {0} /\ first # second /\ first \in Venue /\ second \in Venue
    BY TodoFacts DEF Submit, Working
<1>2. OrderAdded(v, reduce)
    <2>1. orders' = [orders EXCEPT ![v] = Append(orders[v], NewOrder(req.size[v], reduce))]  BY DEF Submit
    <2> HIDE DEF v, reduce
    <2>2. reduce \in BOOLEAN  BY DEF reduce
    <2> QED  BY <1>1, <2>1, <2>2, AppendOrder DEF IInv
<1>3. req \in Request /\ req' = [req EXCEPT !.pc = "answer"] /\ req.pc = "send"  BY DEF Submit, IInv, TypeOK
<1>4. req'.pc = "answer" /\ req'.todo = req.todo /\ req'.kind = req.kind /\ req'.size = req.size /\ req' \in Request
    BY <1>3 DEF Request, PC
<1>5. Leg1' = v /\ UNCHANGED <<first, second, others, entry>>  BY <1>4 DEF Leg1, Submit, Stay, route
<1>6. TypeOK'  BY <1>2, <1>4 DEF IInv, TypeOK, Submit, Stay, route, OrderAdded
<1>7. WorkToDo'  BY <1>1, <1>4, <1>5 DEF IInv, WorkToDo, Working
<1>8. Len(orders[v]) \in Nat /\ others \subseteq Leg  BY <1>1 DEF IInv, TypeOK
<1>9. \A w \in Venue : DOMAIN orders[w] \subseteq DOMAIN orders'[w]
    BY <1>1, <1>2, <1>8 DEF OrderAdded
<1>10. \A w \in Venue : \A i \in DOMAIN orders'[w] :
          \/ i \in DOMAIN orders[w] /\ orders'[w][i] = orders[w][i]
          \/ w = v /\ i = Len(orders[v]) + 1 /\ orders'[w][i].reduce = reduce
    BY <1>1, <1>2, <1>8 DEF OrderAdded
<1>11. OrdersOwned'
    <2>1. \A l \in others : l.venue \in Venue /\ l.ord \in DOMAIN orders[l.venue]
        BY <1>8 DEF IInv, OrdersOwned, Leg
    <2>2. (\A l \in others : l.ord \in DOMAIN orders[l.venue])'  BY <1>5, <1>9, <2>1
    <2>0. PICK u, n : u = v /\ n = Len(orders[v]) + 1  OBVIOUS
    <2>3. n \in DOMAIN orders'[v] /\ n \notin DOMAIN orders[v] /\ \A j \in DOMAIN orders'[v] : ~(j > n)
        BY <1>2, <1>8, <2>0 DEF OrderAdded
    <2>4. [venue |-> u, ord |-> n] \notin others  BY <2>0, <2>1, <2>3
    <2>5. IsMine(u, n)'
        <3>1. others' = others  BY <1>5
        <3>2. n \in DOMAIN orders'[u] /\ \A j \in DOMAIN orders'[u] : ~(j > n)  BY <2>0, <2>3
        <3> QED  BY <2>4, <3>1, <3>2 DEF IsMine
    <2>6. n \in DOMAIN orders[Leg1]' /\ Leg1' = u  BY <1>5, <2>0, <2>3
    <2> HIDE DEF v
    <2> QED  BY <2>2, <2>5, <2>6 DEF OrdersOwned
<1>12. OpenAlone'
    <2>1. req.kind = "open" => Opening /\ ~reduce  BY <1>1, <1>3 DEF Opening
    <2> HIDE DEF v
    <2> QED  BY <1>4, <1>5, <1>10, <2>1 DEF IInv, OpenAlone, Opening
<1>13. req.kind = "open" => Opening /\ (\A i \in DOMAIN orders[v] : Unfilled(v, i))
    BY <1>1, <1>3 DEF IInv, OpenProgress, Opening
<1>14. \A w \in Venue : \A i \in DOMAIN orders[w] : orders'[w][i] = orders[w][i]
    BY <1>1, <1>2 DEF OrderAdded
<1>15. OpenProgress'
    <2> SUFFICES ASSUME Opening'  PROVE OpenProgress'  BY DEF OpenProgress
    <2>1. req.kind = "open" /\ Opening  BY <1>4, <1>13 DEF Opening
    <2>2. req.todo = <<first, second>> => v = first /\ orders[second] = <<>>
        BY <1>1, <2>1, TodoFacts DEF IInv, OpenProgress
    <2>3. req.todo = <<first, second>> => orders'[second] = <<>>
        BY <1>1, <1>2, <2>2 DEF OrderAdded
    <2>4. req.todo = <<second>> => \E i \in Opens(first) : Filled(first, i)
        BY <1>1, <2>1 DEF IInv, OpenProgress
    <2>5. req.todo = <<second>> => (\E i \in Opens(first) : Filled(first, i))'
        BY <1>1, <1>5, <1>9, <1>14, <2>4 DEF Opens, Filled
    <2>6. \A i \in DOMAIN orders'[v] : i < Len(orders'[v]) => i \in DOMAIN orders[v]
        BY <1>2, <1>8 DEF OrderAdded
    <2>7. (\A i \in DOMAIN orders[Leg1] : i < Len(orders[Leg1]) => Unfilled(Leg1, i))'
        BY <1>1, <1>5, <1>13, <1>14, <2>1, <2>6 DEF Unfilled
    <2> HIDE DEF v
    <2> QED  BY <1>4, <1>5, <2>3, <2>5, <2>7 DEF OpenProgress
<1>16. SecondLegAfterFilledFirst'
    <2>1. CASE Opens(second)' # {} /\ Opens(second) = {}
        <3>1. v = second /\ ~reduce
            BY <1>1, <1>5, <1>10, <2>1 DEF Opens
        <3>2. req.kind = "open" /\ req.todo = <<second>>
            BY <1>1, <3>1, TodoFacts DEF IInv, WorkToDo
        <3>3. \E i \in Opens(first) : Filled(first, i)
            BY <1>1, <1>13, <3>2 DEF IInv, OpenProgress
        <3> QED  BY <1>1, <1>5, <1>9, <1>14, <3>3 DEF SecondLegAfterFilledFirst, Opens, Filled
    <2>2. CASE Opens(second) # {}
        <3>1. \E i \in Opens(first) : Filled(first, i)  BY <2>2 DEF IInv, SecondLegAfterFilledFirst
        <3> QED  BY <1>1, <1>5, <1>9, <1>14, <3>1 DEF SecondLegAfterFilledFirst, Opens, Filled
    <2> QED  BY <2>1, <2>2 DEF SecondLegAfterFilledFirst
<1>17. OneOrderPerLegMayFill'
    <2> SUFFICES ASSUME NEW w \in Venue, NEW i \in Opens(w)', NEW j \in Opens(w)', i < j
                 PROVE  Unfilled(w, i)'
        BY DEF OneOrderPerLegMayFill
    <2>1. i \in DOMAIN orders'[w] /\ j \in DOMAIN orders'[w] /\ ~orders'[w][i].reduce /\ ~orders'[w][j].reduce
        BY DEF Opens
    <2>2. i \in DOMAIN orders[w] /\ orders'[w][i] = orders[w][i]
        <3>1. w = v => DOMAIN orders'[w] = 1..(Len(orders[v]) + 1)  BY <1>2 DEF OrderAdded
        <3> QED  BY <1>8, <1>10, <2>1, <3>1
    <2>3. CASE j \in DOMAIN orders[w] /\ orders'[w][j] = orders[w][j]
        <3>1. Unfilled(w, i)  BY <2>1, <2>2, <2>3 DEF IInv, OneOrderPerLegMayFill, Opens
        <3> QED  BY <2>2, <3>1 DEF Unfilled
    <2>4. CASE w = v /\ orders'[w][j].reduce = reduce
        <3>1. Unfilled(w, i)  BY <1>13, <2>1, <2>2, <2>4
        <3> QED  BY <2>2, <3>1 DEF Unfilled
    <2> QED  BY <1>10, <2>1, <2>3, <2>4
<1> QED  BY <1>6, <1>7, <1>11, <1>12, <1>15, <1>16, <1>17 DEF IInv

\* An order of another process.
LEMMA OtherSendsKeeps ==
    ASSUME IInv, NEW v \in Route, OtherSends(v)
    PROVE  IInv'
<1>1. v \in Venue /\ first \in Venue /\ second \in Venue /\ shown[v] \in Nat \ {0}
    BY DEF IInv, TypeOK, Route, OtherSends
<1>2. OrderAdded(v, TRUE)
    <2>1. orders' = [orders EXCEPT ![v] = Append(orders[v], NewOrder(shown[v], TRUE))]  BY DEF OtherSends
    <2> QED  BY <1>1, <2>1, AppendOrder DEF IInv
<1>3. UNCHANGED <<pos, shown, first, second, req, entry, closes, unclear>> /\ Leg1' = Leg1
    BY DEF OtherSends, route, Leg1
<1>4. PICK l : l = [venue |-> v, ord |-> Len(orders[v]) + 1]  OBVIOUS
<1>5. others' = others \cup {l}  BY <1>4 DEF OtherSends, Last
<1>6. Len(orders[v]) \in Nat /\ others \subseteq Leg /\ l \in Leg
    BY <1>1, <1>4 DEF IInv, TypeOK, Leg
<1>7. TypeOK'  BY <1>2, <1>3, <1>5, <1>6 DEF IInv, TypeOK, OrderAdded
<1>8. ~Opening /\ req.pc # "idle"  BY DEF IInv, OpenAlone, OtherSends, NoEntry
<1>9. \A w \in Venue : \A i \in DOMAIN orders[w] : i \in DOMAIN orders'[w] /\ orders'[w][i] = orders[w][i]
    <2>1. \A i \in DOMAIN orders[v] : i \in DOMAIN orders'[v] /\ orders'[v][i] = orders[v][i]
        BY <1>2, <1>6 DEF OrderAdded
    <2>2. \A w \in Venue \ {v} : orders'[w] = orders[w]  BY <1>2 DEF OrderAdded
    <2> QED  BY <2>1, <2>2
<1>10. \A w \in Venue : \A i \in DOMAIN orders'[w] :
          \/ i \in DOMAIN orders[w]
          \/ w = v /\ i = l.ord /\ orders'[w][i].reduce = TRUE
    <2>1. \A i \in DOMAIN orders'[v] : i \in DOMAIN orders[v] \/ i = Len(orders[v]) + 1
        BY <1>2, <1>6 DEF OrderAdded
    <2>2. orders'[v][Len(orders[v]) + 1].reduce = TRUE  BY <1>2 DEF OrderAdded
    <2>3. \A w \in Venue \ {v} : orders'[w] = orders[w]  BY <1>2 DEF OrderAdded
    <2>4. l.ord = Len(orders[v]) + 1  BY <1>4
    <2> QED  BY <2>1, <2>2, <2>3, <2>4
<1>11. \A w \in Venue : Opens(w)' = Opens(w)  BY <1>9, <1>10 DEF Opens
<1>12. WorkToDo' /\ OpenAlone' /\ OpenProgress'
    BY <1>3, <1>8 DEF IInv, WorkToDo, OpenAlone, OpenProgress, Opening, Working
<1>13. SecondLegAfterFilledFirst'
    BY <1>1, <1>3, <1>9, <1>11 DEF IInv, SecondLegAfterFilledFirst, Filled, Opens
<1>14. OneOrderPerLegMayFill'
    BY <1>9, <1>11 DEF IInv, OneOrderPerLegMayFill, Unfilled, Opens
<1>15. OrdersOwned'
    <2>1. \A k \in others : k.venue \in Venue /\ k.ord \in DOMAIN orders[k.venue]
        BY <1>6 DEF IInv, OrdersOwned, Leg
    <2>2. l.venue = v /\ l.ord \in DOMAIN orders'[v]
        BY <1>2, <1>4, <1>6 DEF OrderAdded
    <2>3. (\A k \in others : k.ord \in DOMAIN orders[k.venue])'  BY <1>5, <1>9, <2>1, <2>2
    <2>4. ASSUME req.pc \in {"answer", "observe"}
          PROVE  \E i \in DOMAIN orders'[Leg1] : IsMine(Leg1, i)'
        <3>1. PICK i \in DOMAIN orders[Leg1] : IsMine(Leg1, i)  BY <2>4 DEF IInv, OrdersOwned
        <3>2. Leg1 \in Venue  BY <2>4, TodoFacts DEF Working
        <3>3. i \in DOMAIN orders'[Leg1]  BY <1>9, <3>2
        <3>4. l.ord \notin DOMAIN orders[v]  BY <1>2, <1>4, <1>6 DEF OrderAdded
        <3>5. [venue |-> Leg1, ord |-> i] # l  BY <1>4, <3>4
        <3>6. [venue |-> Leg1, ord |-> i] \notin others'  BY <1>5, <3>1, <3>5 DEF IsMine
        <3>7. \A j \in DOMAIN orders'[Leg1] : j > i => [venue |-> Leg1, ord |-> j] \in others'
            BY <1>4, <1>5, <1>10, <3>1, <3>2 DEF IsMine
        <3>8. IsMine(Leg1, i)'  BY <1>3, <3>3, <3>6, <3>7 DEF IsMine
        <3> QED  BY <3>3, <3>8
    <2> QED  BY <1>3, <2>3, <2>4 DEF OrdersOwned
<1> QED  BY <1>7, <1>12, <1>13, <1>14, <1>15 DEF IInv

\* The venues' own steps.
LEMMA VenueKeeps ==
    ASSUME IInv, NEW v \in Route, VenueStep(v)
    PROVE  IInv'
<1>0. v \in Venue /\ TypeOK  BY DEF IInv, TypeOK, Route
<1>1. CASE \E i \in DOMAIN orders[v] : Accept(v, i) \/ Refuse(v, i)
    <2>1. PICK i \in DOMAIN orders[v] : Settle(v, i, "sent", "open") \/ Settle(v, i, "sent", "refused")
        BY <1>1 DEF Accept, Refuse
    <2>2. OrdersKept  BY <1>0, <2>1, SettleKeeps
    <2>3. UNCHANGED <<pos, shown, first, second, req, entry, closes, others, unclear>>
        BY <2>1 DEF Settle, route
    <2>4. Parts'  BY <2>2, <2>3, KeptOrders
    <2>5. TypeOK'  BY <1>0, <2>2, <2>3 DEF TypeOK, OrdersKept
    <2> QED  BY <2>4, <2>5 DEF Parts, IInv
<1>2. CASE \E i \in DOMAIN orders[v] : Match(v, i)
    <2>1. PICK i \in DOMAIN orders[v] : Match(v, i)  BY <1>2
    <2>2. OrdersKept /\ pos' \in [Venue -> Int]  BY <1>0, <2>1, MatchKeeps
    <2>3. UNCHANGED <<shown, first, second, req, entry, closes, others, unclear>>
        BY <2>1 DEF Match, route
    <2>4. Parts'  BY <2>2, <2>3, KeptOrders
    <2>5. TypeOK'  BY <1>0, <2>2, <2>3 DEF TypeOK, OrdersKept
    <2> QED  BY <2>4, <2>5 DEF Parts, IInv
<1>3. CASE Show(v)
    <2>1. OrdersKept  BY <1>3, <1>0 DEF Show, OrdersKept, TypeOK
    <2>2. UNCHANGED <<pos, orders, first, second, req, entry, closes, others, unclear>>
        BY <1>3 DEF Show, route
    <2>3. shown' \in [Venue -> Int]  BY <1>0, <1>3 DEF Show, TypeOK
    <2>4. Parts'  BY <2>1, <2>2, KeptOrders
    <2>5. TypeOK'  BY <1>0, <2>2, <2>3 DEF TypeOK
    <2> QED  BY <2>4, <2>5 DEF Parts, IInv
<1>4. CASE OtherSends(v)  BY <1>4, OtherSendsKeeps
<1> QED  BY <1>1, <1>2, <1>3, <1>4 DEF VenueStep

-----------------------------------------------------------------------------
(* Steps of the request.                                                   *)

LEMMA IdleTypes ==
    /\ Idle \in Request /\ Failed \in Request
    /\ Idle.pc = "idle" /\ Failed.pc = "failed"
<1>1. <<>> \in Seq(Venue) /\ <<>> \in Seq(Leg)  OBVIOUS
<1>2. NoVerdict \in Verdicts  BY DEF NoVerdict, Verdict, Verdicts
<1>3. [v \in Venue |-> 0] \in [Venue -> Int]  OBVIOUS
<1>4. 1 \in 1..Attempts /\ 0 \in 0..MaxSteps  OBVIOUS
<1>5. Idle \in Request  BY <1>1, <1>2, <1>3, <1>4 DEF Idle, Request, PC, Kind
<1>6. Failed \in Request  BY <1>5 DEF Failed, Request, PC
<1> QED  BY <1>5, <1>6 DEF Idle, Failed, Request

LEMMA PairStatusType ==
    ASSUME NEW e, NEW states, NEW held, NEW blocked
    PROVE  PairStatus(e, states, held, blocked) \in Verdicts
BY DEF PairStatus, Verdict, Verdicts

\* A leg that fails ends its coordinator or its cleanup.
LEMMA FailedLeg ==
    ASSUME IInv, Working, LegFails, UNCHANGED <<first, second, orders, others, entry>>
    PROVE  Parts' /\ req' \in Request
<1>1. CASE LegDone(0, FALSE, "unknown")  BY <1>1, LegEnds
<1>2. CASE req' = Failed
    <2>1. req'.pc = "failed" /\ req' \in Request  BY <1>2, IdleTypes
    <2> QED  BY <2>1, AtRest
<1> QED  BY <1>1, <1>2 DEF LegFails

\* Types and the rest, for steps that only change the request.
LEMMA OnlyRequest ==
    ASSUME IInv, Parts', req' \in Request, unclear' \in BOOLEAN, closes' \in Nat,
           entry' \in [kind : Kind \cup {"none"}, legs : Seq(Leg)],
           UNCHANGED <<pos, shown, orders, first, second, others>>
    PROVE  IInv'
BY DEF IInv, TypeOK, Parts

\* An open that starts.
LEMMA StartOpenKeeps ==
    ASSUME IInv, StartOpen
    PROVE  IInv'
<1> DEFINE todo == <<first, second>>
           size == [v \in Venue |-> Size]
<1>1. req' = [Idle EXCEPT !.pc = "send", !.todo = todo, !.size = size] /\ req.pc = "idle"
      /\ UNCHANGED <<pos, shown, orders, first, second, entry, closes, others, unclear>>
    BY DEF StartOpen, Stay, route
<1>2. first \in Venue /\ second \in Venue /\ first # second  BY DEF IInv, TypeOK
<1>3. todo \in Seq(Venue) /\ size \in [Venue -> Int]  BY <1>2
<1>4. req' \in Request /\ req'.pc = "send" /\ req'.kind = "open" /\ req'.todo = todo /\ req'.size = size
    <2> HIDE DEF todo, size
    <2>1. Idle \in Request /\ Idle.kind = "open"  BY IdleTypes DEF Idle
    <2> QED  BY <1>1, <1>3, <2>1 DEF Request, PC
<1>5. \A v \in Venue : orders[v] = <<>> /\ DOMAIN orders[v] = {}  BY <1>1 DEF IInv, OpenAlone
<1>6. WorkToDo'
    <2>1. \A i \in DOMAIN todo : todo[i] \in Venue  BY <1>3
    <2>2. \A i \in DOMAIN todo : size[todo[i]] > 0  BY <2>1
    <2>3. todo # <<>>  OBVIOUS
    <2> QED  BY <1>1, <1>4, <2>2, <2>3 DEF WorkToDo
<1>7. OrdersOwned'  BY <1>1, <1>4 DEF IInv, OrdersOwned
<1>8. OpenAlone'  BY <1>1, <1>4 DEF IInv, OpenAlone, Opening
<1>9. OpenProgress'
    <2>1. Leg1' = first  BY <1>4 DEF Leg1
    <2>2. req'.todo # <<second>>  BY <1>4
    <2> QED  BY <1>1, <1>2, <1>4, <1>5, <2>1, <2>2 DEF OpenProgress
<1>10. SecondLegAfterFilledFirst' /\ OneOrderPerLegMayFill'
    BY <1>1 DEF IInv, SecondLegAfterFilledFirst, OneOrderPerLegMayFill, Opens, Filled, Unfilled
<1> QED
    <2>1. Parts'  BY <1>6, <1>7, <1>8, <1>9, <1>10 DEF Parts
    <2> QED  BY <1>1, <1>4, <2>1, OnlyRequest DEF IInv, TypeOK

\* The answer to an order, an observation or a preparation that fails.
LEMMA AnswerKeeps ==
    ASSUME IInv,
           PreparationFails \/ AnswerAccepted \/ AnswerWithoutId \/ AnswerRefused \/ AnswerLost
              \/ ObservationFails
    PROVE  IInv'
<1>0. UNCHANGED <<pos, shown, orders, first, second, entry, closes, others>> /\ unclear' \in BOOLEAN /\ Working
    BY DEF PreparationFails, AnswerAccepted, AnswerWithoutId, AnswerRefused, AnswerLost, ObservationFails,
           Stay, route, Working, IInv, TypeOK
<1>1. ASSUME Parts' /\ req' \in Request  PROVE IInv'
    BY <1>0, <1>1, OnlyRequest DEF IInv, TypeOK
<1>2. CASE LegFails  BY <1>0, <1>1, <1>2, FailedLeg
<1>3. CASE /\ req.pc = "answer"
           /\ \E ord \in {0, Mine}, submitted \in BOOLEAN : LegDone(ord, submitted, "unknown")
    <2>1. PICK ord \in Nat, submitted \in BOOLEAN : LegDone(ord, submitted, "unknown")
        BY <1>3, MineFacts
    <2>2. Parts' /\ req' \in Request  BY <1>0, <2>1, LegEnds
    <2> QED  BY <1>1, <2>2
<1>4. CASE req.pc = "answer" /\ req' = [req EXCEPT !.pc = "observe"]
    <2>1. req \in Request  BY DEF IInv, TypeOK
    <2>2. req'.pc = "observe" /\ req'.todo = req.todo /\ req'.kind = req.kind /\ req'.size = req.size
          /\ req' \in Request
        BY <1>4, <2>1 DEF Request, PC
    <2>3. Leg1' = Leg1  BY <2>2 DEF Leg1
    <2>4. WorkToDo'  BY <1>0, <1>4, <2>2, <2>3 DEF IInv, WorkToDo, Working
    <2>5. OrdersOwned'  BY <1>0, <1>4, <2>2, <2>3 DEF IInv, OrdersOwned, IsMine
    <2>6. OpenAlone'  BY <1>0, <1>4, <2>2 DEF IInv, OpenAlone, Opening
    <2>7. OpenProgress'
        BY <1>0, <1>4, <2>2, <2>3 DEF IInv, OpenProgress, Opening, Working, Opens, Filled, Unfilled
    <2>8. SecondLegAfterFilledFirst' /\ OneOrderPerLegMayFill'
        BY <1>0 DEF IInv, SecondLegAfterFilledFirst, OneOrderPerLegMayFill, Opens, Filled, Unfilled
    <2>9. Parts'  BY <2>4, <2>5, <2>6, <2>7, <2>8 DEF Parts
    <2> QED  BY <1>1, <2>2, <2>9
<1> QED
    BY <1>2, <1>3, <1>4
    DEF PreparationFails, AnswerAccepted, AnswerWithoutId, AnswerRefused, AnswerLost, ObservationFails

\* An observation sends the order again only when nothing of it has filled.
LEMMA ObserveKeeps ==
    ASSUME IInv, ObserveSubmittedLeg
    PROVE  IInv'
<1>0. UNCHANGED <<pos, shown, orders, first, second, entry, closes, others, unclear>> /\ Working
      /\ req.pc = "observe" /\ req \in Request
    BY DEF ObserveSubmittedLeg, Stay, route, Working, IInv, TypeOK
<1>1. ASSUME Parts' /\ req' \in Request  PROVE IInv'
    BY <1>0, <1>1, OnlyRequest DEF IInv, TypeOK
<1> DEFINE seen == Classify(orders[Leg1][Mine])
<1>2. CASE LegDone(Mine, TRUE, seen)
    <2>1. Mine \in Nat  BY <1>0, MineFacts
    <2>2. req.kind = "open" /\ seen = "filled" => \E i \in Opens(Leg1) : Filled(Leg1, i)
        BY <1>0, Observed
    <2> HIDE DEF seen
    <2>3. Parts' /\ req' \in Request  BY <1>0, <1>2, <2>1, <2>2, LegEnds
    <2> QED  BY <1>1, <2>3
<1>3. CASE /\ seen = "unfilled"
           /\ \/ req' = [req EXCEPT !.pc = "send", !.attempt = req.attempt + 1] /\ req.attempt < Attempts
              \/ req' = [req EXCEPT !.pc = "send", !.market = TRUE]
    <2>1. req.attempt < Attempts => req.attempt + 1 \in 1..Attempts  BY <1>0 DEF Request
    <2>2. req'.pc = "send" /\ req'.todo = req.todo /\ req'.kind = req.kind /\ req'.size = req.size
          /\ req' \in Request
        BY <1>0, <1>3, <2>1 DEF Request, PC
    <2>3. Leg1' = Leg1  BY <2>2 DEF Leg1
    <2>4. WorkToDo'  BY <1>0, <2>2, <2>3 DEF IInv, WorkToDo, Working
    <2>5. OrdersOwned'  BY <1>0, <2>2 DEF IInv, OrdersOwned
    <2>6. OpenAlone'  BY <1>0, <2>2 DEF IInv, OpenAlone, Opening
    <2>7. Unfilled(Leg1, Mine) /\ Mine \in DOMAIN orders[Leg1]
        BY <1>0, <1>3, Observed, MineFacts
    <2>8. orders[Leg1] \in Seq(Order) /\ (Opening => Mine = Len(orders[Leg1]))
        BY <1>0, MineFacts DEF IInv, TypeOK
    <2>9. Opening => \A i \in DOMAIN orders[Leg1] : Unfilled(Leg1, i)
        <3> SUFFICES ASSUME Opening, NEW i \in DOMAIN orders[Leg1], i # Len(orders[Leg1])
                     PROVE  Unfilled(Leg1, i)
            BY <2>7, <2>8
        <3>1. i < Len(orders[Leg1])  BY <2>8
        <3> QED  BY <1>0, <3>1 DEF IInv, OpenProgress
    <2>10. OpenProgress'
        <3> SUFFICES ASSUME Opening'  PROVE OpenProgress'  BY DEF OpenProgress
        <3>1. Opening  BY <1>0, <2>2 DEF Opening
        <3>2. (\A i \in DOMAIN orders[Leg1] : Unfilled(Leg1, i))'
            BY <1>0, <2>3, <2>9, <3>1 DEF Unfilled
        <3> QED  BY <1>0, <2>2, <3>1, <3>2 DEF IInv, OpenProgress, Opens, Filled
    <2>11. SecondLegAfterFilledFirst' /\ OneOrderPerLegMayFill'
        BY <1>0 DEF IInv, SecondLegAfterFilledFirst, OneOrderPerLegMayFill, Opens, Filled, Unfilled
    <2>12. Parts'  BY <2>4, <2>5, <2>6, <2>10, <2>11 DEF Parts
    <2> QED  BY <1>1, <2>2, <2>12
<1> QED  BY <1>2, <1>3 DEF ObserveSubmittedLeg

\* The journal, the polls and the ends of a request.
LEMMA PollKeeps ==
    ASSUME IInv,
           StartClose \/ Journal \/ ReadAccounts \/ ReadOrders \/ PollAgain \/ PollFails \/ Answer
              \/ ReuseCleanup \/ CleanupFails \/ RefuseClose \/ Crash
    PROVE  IInv'
<1>0. UNCHANGED <<pos, shown, orders, first, second, others>> /\ req \in Request
      /\ closes \in Nat /\ unclear \in BOOLEAN /\ entry \in [kind : Kind \cup {"none"}, legs : Seq(Leg)]
      /\ others \subseteq Leg /\ first \in Venue /\ second \in Venue
    BY DEF StartClose, Journal, ReadAccounts, ReadOrders, PollAgain, PollFails, Answer, ReuseCleanup,
           CleanupFails, RefuseClose, Crash, Stay, route, IInv, TypeOK
<1> DEFINE Rest == /\ req' \in Request
                   /\ req'.pc \in {"accounts", "orders", "decide", "done", "failed"}
                   /\ closes' \in Nat /\ unclear' \in BOOLEAN
                   /\ entry' \in [kind : Kind \cup {"none"}, legs : Seq(Leg)]
<1>1. ASSUME Rest  PROVE IInv'
    <2>1. Parts'  BY <1>0, <1>1, AtRest
    <2> QED  BY <1>0, <1>1, <2>1, OnlyRequest
<1>2. Idle \in Request /\ Failed \in Request /\ Failed.pc = "failed"  BY IdleTypes
<1>3. CASE StartClose
    <2>1. req' = [Idle EXCEPT !.pc = "accounts", !.then = "close"]  BY <1>3 DEF StartClose
    <2>2. req' \in Request /\ req'.pc = "accounts"  BY <1>2, <2>1 DEF Request, PC
    <2> QED  BY <1>0, <1>1, <1>3, <2>2 DEF StartClose
<1>4. CASE Journal
    <2>1. req' = [Idle EXCEPT !.pc = "accounts", !.step = req.step]  BY <1>4 DEF Journal
    <2>2. req' \in Request /\ req'.pc = "accounts"  BY <1>0, <1>2, <2>1 DEF Request, PC
    <2>3. entry' \in [kind : Kind \cup {"none"}, legs : Seq(Leg)]  BY <1>0, <1>4 DEF Journal, Request
    <2> QED  BY <1>0, <1>1, <1>4, <2>2, <2>3 DEF Journal
<1>5. CASE ReadAccounts
    <2>1. PICK blocked \in BOOLEAN, held \in SUBSET Venue :
             req' = [req EXCEPT !.pc = "orders", !.blocked = blocked, !.held = held]
        BY <1>0, <1>5 DEF ReadAccounts, Route
    <2>2. req' \in Request /\ req'.pc = "orders"  BY <1>0, <2>1 DEF Request, PC
    <2>3. unclear' \in BOOLEAN  BY <1>0, <1>5 DEF ReadAccounts
    <2> QED  BY <1>0, <1>1, <1>5, <2>2, <2>3 DEF ReadAccounts
<1>6. CASE ReadOrders
    <2>1. PICK seen \in [DOMAIN entry.legs -> FillState] :
             req' = [req EXCEPT !.pc = "decide", !.states = {seen[i] : i \in DOMAIN entry.legs},
                                !.verdict = PairStatus(entry, {seen[i] : i \in DOMAIN entry.legs},
                                                       req.held, req.blocked)]
        BY <1>6 DEF ReadOrders
    <2> DEFINE states == {seen[i] : i \in DOMAIN entry.legs}
               verdict == PairStatus(entry, states, req.held, req.blocked)
    <2>2. states \in SUBSET FillState /\ verdict \in Verdicts  BY PairStatusType
    <2>3. req' \in Request /\ req'.pc = "decide"
        <3>1. req' = [req EXCEPT !.pc = "decide", !.states = states, !.verdict = verdict]  BY <2>1
        <3> HIDE DEF states, verdict
        <3> QED  BY <1>0, <2>2, <3>1 DEF Request, PC
    <2>4. unclear' \in BOOLEAN  BY <1>0, <1>6 DEF ReadOrders
    <2> QED  BY <1>0, <1>1, <1>6, <2>3, <2>4 DEF ReadOrders
<1>7. CASE PollAgain
    <2>1. NoVerdict \in Verdicts  BY DEF NoVerdict, Verdict, Verdicts
    <2>2. req' = [req EXCEPT !.pc = "accounts", !.held = {}, !.blocked = FALSE, !.states = {},
                             !.verdict = NoVerdict]
        BY <1>7 DEF PollAgain
    <2>3. req' \in Request /\ req'.pc = "accounts"  BY <1>0, <2>1, <2>2 DEF Request, PC
    <2> QED  BY <1>0, <1>1, <1>7, <2>3 DEF PollAgain, Stay
<1>8. CASE PollFails \/ CleanupFails \/ RefuseClose \/ Crash
    <2>1. req' = Failed  BY <1>8 DEF PollFails, CleanupFails, RefuseClose, Crash
    <2> QED  BY <1>0, <1>1, <1>2, <1>8, <2>1 DEF PollFails, CleanupFails, RefuseClose, Crash, Stay
<1>9. CASE Answer
    <2>1. req' = [Idle EXCEPT !.pc = "done", !.verdict = req.verdict]  BY <1>9 DEF Answer
    <2>2. req' \in Request /\ req'.pc = "done"  BY <1>0, <1>2, <2>1 DEF Request, PC
    <2> QED  BY <1>0, <1>1, <1>9, <2>2 DEF Answer, Stay
<1>10. CASE ReuseCleanup
    <2>1. PICK l \in others : entry' = [kind |-> "cleanup", legs |-> <<l>>]  BY <1>10 DEF ReuseCleanup
    <2>2. <<l>> \in Seq(Leg)  BY <1>0
    <2>3. entry' \in [kind : Kind \cup {"none"}, legs : Seq(Leg)]
        <3> HIDE DEF Rest
        <3> QED  BY <2>1, <2>2 DEF Kind
    <2>4. req' = [Idle EXCEPT !.pc = "accounts", !.then = "reused"]  BY <1>10 DEF ReuseCleanup
    <2>5. req' \in Request /\ req'.pc = "accounts"  BY <1>2, <2>4 DEF Request, PC
    <2> QED  BY <1>0, <1>1, <1>10, <2>3, <2>5 DEF ReuseCleanup
<1> QED  BY <1>3, <1>4, <1>5, <1>6, <1>7, <1>8, <1>9, <1>10

\* Closes and cleanups that begin to submit.
LEMMA BeginKeeps ==
    ASSUME IInv, StartCleanup \/ SubmitClose
    PROVE  IInv'
<1>0. UNCHANGED <<pos, shown, orders, first, second, others, entry, closes, unclear>> /\ req \in Request
      /\ closes \in Nat /\ unclear \in BOOLEAN /\ entry \in [kind : Kind \cup {"none"}, legs : Seq(Leg)]
      /\ Route \subseteq Venue /\ shown \in [Venue -> Int] /\ Idle \in Request
    BY IdleTypes DEF StartCleanup, SubmitClose, Stay, route, Route, IInv, TypeOK
<1>1. CASE StartCleanup
    <2>1. PICK v \in Route :
             /\ shown[v] > 0
             /\ req' = [Idle EXCEPT !.pc = "send", !.kind = "cleanup", !.todo = <<v>>,
                                    !.size[v] = shown[v], !.step = req.step + 1]
        BY <1>1 DEF StartCleanup
    <2> DEFINE size == [Idle.size EXCEPT ![v] = shown[v]]
               todo == <<v>>
    <2>2. size \in [Venue -> Int] /\ size[v] = shown[v] /\ todo \in Seq(Venue)
        BY <1>0, <2>1 DEF Request
    <2>3. req.step + 1 \in 0..MaxSteps
        <3>1. req.step \in 0..MaxSteps  BY <1>0 DEF Request
        <3>2. req.step < MaxSteps  BY <1>1 DEF StartCleanup
        <3> QED  BY <3>1, <3>2
    <2>4. req' = [Idle EXCEPT !.pc = "send", !.kind = "cleanup", !.todo = todo, !.size = size,
                              !.step = req.step + 1]
        BY <1>0, <2>1 DEF Request
    <2>5. req' \in Request /\ req'.pc = "send" /\ req'.kind = "cleanup" /\ req'.todo = todo /\ req'.size = size
        <3> HIDE DEF size, todo
        <3> QED  BY <1>0, <2>2, <2>3, <2>4 DEF Request, PC, Kind
    <2>6. \A i \in DOMAIN todo : size[todo[i]] > 0  BY <2>1, <2>2
    <2>7. Parts'  BY <1>0, <2>5, <2>6, BeginReduce
    <2> QED  BY <1>0, <2>5, <2>7, OnlyRequest
<1>2. CASE SubmitClose
    <2>1. PICK v \in Route, w \in Route :
             req' = [Idle EXCEPT !.pc = "send", !.kind = "close", !.todo = <<v, w>>, !.size = shown]
        BY <1>2 DEF SubmitClose
    <2>2. shown[v] > 0 /\ shown[w] > 0  BY <1>2 DEF SubmitClose
    <2> DEFINE todo == <<v, w>>
    <2>3. todo \in Seq(Venue)  BY <1>0
    <2>4. req' \in Request /\ req'.pc = "send" /\ req'.kind = "close" /\ req'.todo = todo /\ req'.size = shown
        <3> HIDE DEF todo
        <3>1. req' = [Idle EXCEPT !.pc = "send", !.kind = "close", !.todo = todo, !.size = shown]
            BY <2>1 DEF todo
        <3> QED  BY <1>0, <2>3, <3>1 DEF Request, PC, Kind
    <2>5. \A i \in DOMAIN todo : shown[todo[i]] > 0  BY <2>2
    <2>6. Parts'  BY <1>0, <2>4, <2>5, BeginReduce
    <2> QED  BY <1>0, <2>4, <2>6, OnlyRequest
<1> QED  BY <1>1, <1>2

-----------------------------------------------------------------------------
(* The invariant and what follows.                                         *)

LEMMA InitIInv == Init => IInv
<1> SUFFICES ASSUME Init  PROVE IInv  OBVIOUS
<1>1. req = Idle /\ req.pc = "idle" /\ req \in Request  BY IdleTypes DEF Init
<1>2. <<>> \in Seq(Leg) /\ <<>> \in Seq(Order) /\ DOMAIN <<>> = {}  OBVIOUS
<1>3. \A v \in Venue : orders[v] = <<>> /\ DOMAIN orders[v] = {}  BY <1>2 DEF Init
<1>4. TypeOK
    <2>1. orders \in [Venue -> Seq(Order)]  BY <1>2 DEF Init
    <2>2. entry \in [kind : Kind \cup {"none"}, legs : Seq(Leg)]  BY <1>2 DEF Init, NoEntry
    <2>3. pos \in [Venue -> Int] /\ shown \in [Venue -> Int]  BY DEF Init
    <2> QED  BY <1>1, <2>1, <2>2, <2>3 DEF Init, TypeOK
<1>5. WorkToDo /\ OrdersOwned /\ OpenProgress
    BY <1>1 DEF Init, WorkToDo, OrdersOwned, OpenProgress, Opening, Working
<1>6. OpenAlone  BY <1>3 DEF Init, OpenAlone
<1>7. SecondLegAfterFilledFirst /\ OneOrderPerLegMayFill
    BY <1>3, <1>4 DEF SecondLegAfterFilledFirst, OneOrderPerLegMayFill, Opens, TypeOK
<1> QED  BY <1>4, <1>5, <1>6, <1>7 DEF IInv

LEMMA StepIInv == IInv /\ [Next]_vars => IInv'
<1> SUFFICES ASSUME IInv, [Next]_vars  PROVE IInv'  OBVIOUS
<1>1. CASE UNCHANGED vars
    <2>1. UNCHANGED <<pos, shown, orders, first, second, req, entry, closes, others, unclear>>
        BY <1>1 DEF vars, route
    <2>2. OrdersKept  BY <2>1 DEF OrdersKept, IInv, TypeOK
    <2>3. Parts'  BY <2>1, <2>2, KeptOrders
    <2>4. TypeOK'  BY <2>1 DEF IInv, TypeOK
    <2> QED  BY <2>3, <2>4 DEF Parts, IInv
<1>2. CASE \E v \in Route : VenueStep(v)  BY <1>2, VenueKeeps
<1>3. CASE RequestStep
    BY <1>3, StartOpenKeeps, SubmitKeeps, AnswerKeeps, ObserveKeeps, PollKeeps, BeginKeeps DEF RequestStep
<1> QED  BY <1>1, <1>2, <1>3 DEF Next

\* The inductive invariant: an open is alone until it is journaled, waits for
\* its own last order, and goes on to the second leg after a filled first one.
THEOREM PairInvariant == Spec => []IInv
BY InitIInv, StepIInv, PTL DEF Spec

\* Venues, requests and journal keep their types.
THEOREM TypeCorrect == Spec => []TypeOK
<1>1. IInv => TypeOK  BY DEF IInv
<1> QED  BY <1>1, PairInvariant, PTL

\* Whatever is lost, late, refused or retried, and whenever the process dies:
\* the second leg is sent only after an order of the first filled in full.
THEOREM SecondLegSafe == Spec => []SecondLegAfterFilledFirst
<1>1. IInv => SecondLegAfterFilledFirst  BY DEF IInv
<1> QED  BY <1>1, PairInvariant, PTL

\* For any number of attempts, all opening orders of a leg but the last have
\* closed without a fill.
THEOREM LegFillsOnce == Spec => []OneOrderPerLegMayFill
<1>1. IInv => OneOrderPerLegMayFill  BY DEF IInv
<1> QED  BY <1>1, PairInvariant, PTL

-----------------------------------------------------------------------------
(* What a request learns: positions, legs and verdicts.                    *)

\* An order that is not closed has filled nothing, none fills more than its
\* size, and an opening order is of the confirmed quantity.
Shaped(o) ==
    /\ o.state # "closed" => o.filled = 0
    /\ o.filled <= o.size
    /\ ~o.reduce => o.size = Size

Shapes == \A v \in Venue : \A i \in DOMAIN orders[v] : Shaped(orders[v][i])

\* Nothing of an order has filled, and nothing can fill any more.
Dead(v, i) == orders[v][i].state \in {"closed", "refused"} /\ orders[v][i].filled = 0

NothingFilled(v) == \A i \in Opens(v) : orders[v][i].filled = 0

\* j is the only order that may have filled.
OnlyFills(v, j) ==
    /\ \A i \in DOMAIN orders[v] : ~orders[v][i].reduce
    /\ \A i \in Opens(v) \ {j} : orders[v][i].filled = 0

\* A position comes from the orders.  How it adds up is not needed: it is
\* zero as long as nothing has filled, and what the only filled order says.
Position(v) ==
    /\ pos[v] >= 0 /\ shown[v] >= 0
    /\ NothingFilled(v) => pos[v] = 0 /\ shown[v] = 0
    /\ \A j \in Opens(v) : OnlyFills(v, j) => pos[v] = orders[v][j].filled

Positions == \A v \in Venue : Position(v)

\* A leg names the one opening order at its venue that may have filled, and
\* the venue had answered.
NamedLeg(l) ==
    \A i \in Opens(l.venue) :
       IF i = l.ord THEN orders[l.venue][i].state # "sent" ELSE Dead(l.venue, i)

FirstFilled == \E i \in Opens(first) : Filled(first, i)

\* The legs of an open that ends.  Only Paradex shows a fill to a coordinator.
Named(legs) ==
    \/ /\ Len(legs) = 1 /\ legs[1].venue = first /\ NamedLeg(legs[1])
       /\ Opens(second) = {}
    \/ /\ Len(legs) = 2 /\ legs[1].venue = first /\ NamedLeg(legs[1])
       /\ legs[2].venue = second /\ NamedLeg(legs[2]) /\ FirstFilled /\ first = "paradex"

OpenSizes == Opening /\ Working => \A v \in Venue : req.size[v] = Size

OpenLegs ==
    Opening /\ ~unclear =>
        /\ req.pc = "observe" => /\ Leg1 = "paradex"
                                 /\ \A i \in Opens(Leg1) : orders[Leg1][i].state # "sent"
        /\ req.pc = "journal" => Named(req.legs)
        /\ Working /\ req.todo = <<first, second>> => req.legs = <<>>
        /\ Working /\ req.todo = <<second>> =>
              /\ first = "paradex"
              /\ \E l \in Leg : req.legs = <<l>> /\ l.venue = first /\ NamedLeg(l)

EntryLegs == entry.kind = "open" /\ ~unclear => Named(entry.legs)

\* No opening order can fill any more.
Settled == \A v \in Route : \A i \in Opens(v) : orders[v][i].state \in {"closed", "refused"}

Reducing == req.kind # "open" /\ req.pc \in {"send", "answer", "observe", "journal"}

\* Closes and cleanups come after the opening orders are settled.
PastOpen ==
    /\ ~unclear /\ (entry.kind \in {"close", "cleanup"} \/ Reducing) => Settled
    /\ req.pc \in {"accounts", "orders", "decide", "done"} => entry.kind # "none"

\* What the accounts show has filled.
HeldFilled ==
    req.pc \in {"orders", "decide"} => \A v \in req.held : v \in Route /\ ~NothingFilled(v)

Flat == \A v \in Route : pos[v] = 0

\* Accounts that show nothing after the open mean that nothing is held.
AccountsRead ==
    req.pc = "orders" /\ ~unclear /\ req.held = {} /\ entry.kind # "open" => Flat

BothFilled == \A v \in Route : \E i \in Opens(v) : Filled(v, i)

\* What a verdict says of the opening orders and of the positions.
Learned ==
    req.pc \in {"decide", "done"} /\ ~unclear =>
        /\ req.verdict.state = "hedged" \/ req.verdict.action \in CleanupAction \cup {"no_action"}
              => Settled
        /\ req.verdict.action = "no_action" => Flat
        /\ req.verdict.state = "hedged" /\ entry.kind = "open" /\ second # "extended" => BothFilled

\* Until something is cleaned up or closed, only others reduce a position.
OnlyOpens ==
    /\ entry.kind = "open"
    /\ \/ req.pc = "done"
       \/ req.pc \in {"accounts", "orders", "decide"} /\ req.then # "close"
    => \A v \in Venue : \A i \in DOMAIN orders[v] :
          orders[v][i].reduce => [venue |-> v, ord |-> i] \in others

VenueInv == Shapes /\ Positions
LegInv   == OpenSizes /\ OpenLegs /\ EntryLegs
ReadInv  == PastOpen /\ HeldFilled /\ AccountsRead /\ Learned /\ OnlyOpens
LearnInv == IInv /\ VenueInv /\ LegInv /\ ReadInv

-----------------------------------------------------------------------------
(* Orders only advance: what is settled, named or filled stays so.         *)

\* o has moved on to p.
Advances(o, p) ==
    /\ p.reduce = o.reduce /\ p.size = o.size
    /\ o.state \in {"closed", "refused"} => p = o
    /\ o.state # "sent" => p.state # "sent"
    /\ o.filled # 0 => p.filled # 0

\* No opening order is added.
OrdersAdvance ==
    \A v \in Venue :
        /\ Opens(v)' = Opens(v)
        /\ \A i \in DOMAIN orders[v] : Advances(orders[v][i], orders'[v][i])

LEMMA AdvanceKeeps ==
    ASSUME IInv, OrdersAdvance, UNCHANGED <<first, second>>
    PROVE  /\ \A v \in Venue : \A i \in Opens(v) :
                 (Dead(v, i) => Dead(v, i)') /\ (Filled(v, i) => Filled(v, i)')
           /\ \A v \in Venue : ~NothingFilled(v) => ~NothingFilled(v)'
           /\ FirstFilled => FirstFilled'
           /\ BothFilled => BothFilled'
           /\ Settled => Settled'
<1>1. first \in Venue /\ second \in Venue /\ Route = {first, second} /\ Route' = Route
    BY DEF IInv, TypeOK, Route
<1>2. \A v \in Venue : Opens(v)' = Opens(v) /\ Opens(v) \subseteq DOMAIN orders[v]
    BY DEF OrdersAdvance, Opens
<1>3. \A v \in Venue : \A i \in Opens(v) : Advances(orders[v][i], orders'[v][i])
    BY <1>2 DEF OrdersAdvance
<1>4. \A v \in Venue : \A i \in Opens(v) :
         (Dead(v, i) => Dead(v, i)') /\ (Filled(v, i) => Filled(v, i)')
    BY <1>3 DEF Advances, Dead, Filled
<1>5. \A v \in Venue : ~NothingFilled(v) => ~NothingFilled(v)'
    BY <1>2, <1>3 DEF Advances, NothingFilled
<1>6. FirstFilled => FirstFilled'
    <2>1. Opens(first)' = Opens(first)  BY <1>1, <1>2
    <2>2. \A i \in Opens(first) : Filled(first, i) => Filled(first, i)'  BY <1>1, <1>4
    <2> QED  BY <2>1, <2>2 DEF FirstFilled
<1>7. BothFilled => BothFilled'  BY <1>1, <1>2, <1>4 DEF BothFilled
<1>8. Settled => Settled'  BY <1>1, <1>2, <1>3 DEF Settled, Advances
<1> QED  BY <1>4, <1>5, <1>6, <1>7, <1>8

LEMMA AdvanceLeg ==
    ASSUME IInv, OrdersAdvance, UNCHANGED <<first, second>>, NEW l \in Leg, NamedLeg(l)
    PROVE  NamedLeg(l)'
<1> DEFINE v == l.venue
<1>1. v \in Venue  BY DEF Leg
<1>2. Opens(v)' = Opens(v) /\ Opens(v) \subseteq DOMAIN orders[v]  BY <1>1 DEF OrdersAdvance, Opens
<1>3. \A i \in Opens(v) : Dead(v, i) => Dead(v, i)'  BY <1>1, AdvanceKeeps
<1>4. \A i \in Opens(v) : orders[v][i].state # "sent" => orders'[v][i].state # "sent"
    BY <1>1, <1>2 DEF OrdersAdvance, Advances
<1>5. \A i \in Opens(v) : IF i = l.ord THEN orders[v][i].state # "sent" ELSE Dead(v, i)
    BY DEF NamedLeg
<1>6. \A i \in Opens(v)' : IF i = l.ord THEN orders'[v][i].state # "sent" ELSE Dead(v, i)'
    BY <1>2, <1>3, <1>4, <1>5
<1> QED  BY <1>6 DEF NamedLeg

LEMMA AdvanceLegs ==
    ASSUME IInv, OrdersAdvance, UNCHANGED <<first, second>>, NEW legs \in Seq(Leg), Named(legs)
    PROVE  Named(legs)'
<1>1. Opens(second)' = Opens(second)  BY DEF OrdersAdvance, IInv, TypeOK
<1>2. FirstFilled => FirstFilled'  BY AdvanceKeeps
<1>3. CASE Len(legs) = 1 /\ legs[1].venue = first /\ NamedLeg(legs[1]) /\ Opens(second) = {}
    <2>1. legs[1] \in Leg  BY <1>3
    <2>2. NamedLeg(legs[1])'  BY <1>3, <2>1, AdvanceLeg
    <2> QED  BY <1>1, <1>3, <2>2 DEF Named
<1>4. CASE /\ Len(legs) = 2 /\ legs[1].venue = first /\ NamedLeg(legs[1])
           /\ legs[2].venue = second /\ NamedLeg(legs[2]) /\ FirstFilled /\ first = "paradex"
    <2>1. legs[1] \in Leg /\ legs[2] \in Leg  BY <1>4
    <2>2. NamedLeg(legs[1])' /\ NamedLeg(legs[2])'  BY <1>4, <2>1, AdvanceLeg
    <2> QED  BY <1>2, <1>4, <2>2 DEF Named
<1> QED  BY <1>3, <1>4 DEF Named


-----------------------------------------------------------------------------
(* Steps of the venues.                                                    *)

\* Types of the orders and of the positions.
LEMMA OrderTypes ==
    ASSUME IInv
    PROVE  /\ \A v \in Venue : \A i \in DOMAIN orders[v] : orders[v][i] \in Order /\ i \in Nat
           /\ \A v \in Venue : pos[v] \in Int /\ shown[v] \in Int /\ orders[v] \in Seq(Order)
           /\ first \in Venue /\ second \in Venue /\ first # second /\ Route = {first, second}
<1>1. \A v \in Venue : orders[v] \in Seq(Order) /\ pos[v] \in Int /\ shown[v] \in Int
    BY DEF IInv, TypeOK
<1>2. \A v \in Venue : \A i \in DOMAIN orders[v] : orders[v][i] \in Order /\ i \in Nat
    BY <1>1
<1> QED  BY <1>1, <1>2 DEF IInv, TypeOK, Route

\* One order is replaced by one that it may advance to.
Replaced(v, i, o) ==
    /\ orders' \in [Venue -> Seq(Order)]
    /\ \A w \in Venue \ {v} : orders'[w] = orders[w]
    /\ DOMAIN orders'[v] = DOMAIN orders[v]
    /\ \A k \in DOMAIN orders[v] \ {i} : orders'[v][k] = orders[v][k]
    /\ orders'[v][i] = o
    /\ Shaped(o) /\ Advances(orders[v][i], o)

LEMMA ReplacedFacts ==
    ASSUME IInv, Shapes, NEW v \in Venue, NEW i \in DOMAIN orders[v], NEW o, Replaced(v, i, o)
    PROVE  OrdersAdvance /\ Shapes' /\ \A w \in Venue : DOMAIN orders'[w] = DOMAIN orders[w]
<1>1. \A w \in Venue : DOMAIN orders'[w] = DOMAIN orders[w]  BY DEF Replaced
<1>2. \A w \in Venue : \A k \in DOMAIN orders[w] :
         orders'[w][k] = orders[w][k] \/ (w = v /\ k = i /\ orders'[w][k] = o)
    BY DEF Replaced
<1>3. \A w \in Venue : \A k \in DOMAIN orders[w] : Shaped(orders'[w][k])
    BY <1>2 DEF Replaced, Shapes
<1>4. \A w \in Venue : \A k \in DOMAIN orders[w] : Advances(orders[w][k], orders'[w][k])
    <2>1. \A w \in Venue : \A k \in DOMAIN orders[w] : Advances(orders[w][k], orders[w][k])
        BY DEF Advances
    <2>2. Advances(orders[v][i], o)  BY DEF Replaced
    <2> QED  BY <1>2, <2>1, <2>2
<1>5. \A w \in Venue : Opens(w)' = Opens(w)  BY <1>1, <1>4 DEF Opens, Advances
<1> QED  BY <1>1, <1>3, <1>4, <1>5 DEF Shapes, OrdersAdvance

\* Accept and Refuse leave what has filled alone.
LEMMA SettleLearns ==
    ASSUME IInv, VenueInv, NEW v \in Venue, NEW i \in DOMAIN orders[v],
           NEW to \in {"open", "refused"}, Settle(v, i, "sent", to)
    PROVE  OrdersAdvance /\ VenueInv' /\ \A w \in Venue : DOMAIN orders'[w] = DOMAIN orders[w]
<1> DEFINE o == [orders[v][i] EXCEPT !.state = to]
<1>1. orders[v] \in Seq(Order) /\ orders[v][i] \in Order  BY OrderTypes
<1>2. orders' = [orders EXCEPT ![v][i].state = to] /\ orders[v][i].state = "sent"
      /\ pos' = pos /\ shown' = shown
    BY DEF Settle, SetState
<1>3. orders' = [orders EXCEPT ![v] = [orders[v] EXCEPT ![i] = o]]  BY <1>2
<1>4. o.reduce = orders[v][i].reduce /\ o.size = orders[v][i].size /\ o.state = to
      /\ o.filled = orders[v][i].filled /\ o \in Order
    BY <1>1 DEF Order
<1>5. Replaced(v, i, o)
    <2>1. Shaped(orders[v][i])  BY DEF VenueInv, Shapes
    <2>2. Shaped(o) /\ Advances(orders[v][i], o)
        <3> HIDE DEF o
        <3> QED  BY <1>2, <1>4, <2>1 DEF Shaped, Advances
    <2>3. orders \in [Venue -> Seq(Order)]  BY DEF IInv, TypeOK
    <2> DEFINE s == [orders[v] EXCEPT ![i] = o]
    <2>4. s \in Seq(Order) /\ DOMAIN s = DOMAIN orders[v] /\ s[i] = o
          /\ \A k \in DOMAIN orders[v] \ {i} : s[k] = orders[v][k]
        <3> HIDE DEF o
        <3> QED  BY <1>1, <1>4, ExceptSeq
    <2>5. orders' = [orders EXCEPT ![v] = s]  BY <1>3
    <2> HIDE DEF o, s
    <2> QED  BY <2>2, <2>3, <2>4, <2>5 DEF Replaced
<1>6. PICK p : p = o  OBVIOUS
<1>7. OrdersAdvance /\ Shapes' /\ \A w \in Venue : DOMAIN orders'[w] = DOMAIN orders[w]
    <2> HIDE DEF o
    <2> QED  BY <1>5, <1>6, ReplacedFacts DEF VenueInv
<1>8. \A w \in Venue : \A k \in DOMAIN orders[w] : orders'[w][k].filled = orders[w][k].filled
    <2>1. \A w \in Venue \ {v} : orders'[w] = orders[w]  BY <1>5 DEF Replaced
    <2>2. \A k \in DOMAIN orders[v] \ {i} : orders'[v][k] = orders[v][k]  BY <1>5 DEF Replaced
    <2>3. orders'[v][i].filled = orders[v][i].filled
        <3>1. orders'[v][i] = o  BY <1>5 DEF Replaced
        <3> QED  BY <1>4, <3>1
    <2> HIDE DEF o
    <2> QED  BY <2>1, <2>2, <2>3
<1>9. Positions'
    <2> SUFFICES ASSUME NEW w \in Venue  PROVE Position(w)'  BY DEF Positions
    <2>1. Position(w)  BY DEF VenueInv, Positions
    <2>2. Opens(w)' = Opens(w) /\ Opens(w) \subseteq DOMAIN orders[w]  BY <1>7 DEF OrdersAdvance, Opens
    <2>3. NothingFilled(w)' = NothingFilled(w)  BY <1>8, <2>2 DEF NothingFilled
    <2>4. \A j \in Opens(w) : OnlyFills(w, j)' => OnlyFills(w, j)
        <3>1. \A k \in DOMAIN orders[w] : orders'[w][k].reduce = orders[w][k].reduce
            BY <1>7 DEF OrdersAdvance, Advances
        <3> QED  BY <1>7, <1>8, <2>2, <3>1 DEF OnlyFills
    <2> QED  BY <1>2, <1>8, <2>1, <2>2, <2>3, <2>4 DEF Position
<1> QED  BY <1>7, <1>9 DEF VenueInv

\* Match moves the position by what it fills.
LEMMA MatchLearns ==
    ASSUME IInv, VenueInv, NEW v \in Venue, NEW i \in DOMAIN orders[v], Match(v, i)
    PROVE  /\ OrdersAdvance /\ VenueInv' /\ \A w \in Venue : DOMAIN orders'[w] = DOMAIN orders[w]
           /\ \A w \in Venue \ {v} : pos'[w] = pos[w]
           /\ pos[v] = 0 /\ i \notin Opens(v) => pos'[v] = 0
<1>1. orders[v] \in Seq(Order) /\ orders[v][i] \in Order /\ pos[v] \in Int  BY OrderTypes
<1>2. PICK f \in 0..orders[v][i].size :
         /\ orders[v][i].reduce => f <= pos[v]
         /\ orders' = [orders EXCEPT ![v][i].state = "closed", ![v][i].filled = f]
         /\ pos' = [pos EXCEPT ![v] = IF orders[v][i].reduce THEN pos[v] - f ELSE pos[v] + f]
    BY DEF Match
<1>3. f \in Nat /\ f <= orders[v][i].size  BY <1>1 DEF Order
<1> DEFINE o == [orders[v][i] EXCEPT !.state = "closed", !.filled = f]
<1>4. o.reduce = orders[v][i].reduce /\ o.size = orders[v][i].size /\ o.state = "closed"
      /\ o.filled = f /\ o \in Order
    BY <1>1, <1>3 DEF Order
<1>5. orders[v][i].state = "open" /\ orders[v][i].filled = 0 /\ shown' = shown
    BY DEF Match, VenueInv, Shapes, Shaped
<1>6. Replaced(v, i, o)
    <2>1. Shaped(orders[v][i])  BY DEF VenueInv, Shapes
    <2>2. Shaped(o) /\ Advances(orders[v][i], o)
        <3> HIDE DEF o
        <3> QED  BY <1>3, <1>4, <1>5, <2>1 DEF Shaped, Advances
    <2>3. orders \in [Venue -> Seq(Order)]  BY DEF IInv, TypeOK
    <2> DEFINE s == [orders[v] EXCEPT ![i] = o]
    <2>4. s \in Seq(Order) /\ DOMAIN s = DOMAIN orders[v] /\ s[i] = o
          /\ \A k \in DOMAIN orders[v] \ {i} : s[k] = orders[v][k]
        <3> HIDE DEF o
        <3> QED  BY <1>1, <1>4, ExceptSeq
    <2>5. orders' = [orders EXCEPT ![v] = s]  BY <1>1, <1>2 DEF Order
    <2> HIDE DEF o, s
    <2> QED  BY <2>2, <2>3, <2>4, <2>5 DEF Replaced
<1>7. PICK p : p = o  OBVIOUS
<1>8. OrdersAdvance /\ Shapes' /\ \A w \in Venue : DOMAIN orders'[w] = DOMAIN orders[w]
    <2> HIDE DEF o
    <2> QED  BY <1>6, <1>7, ReplacedFacts DEF VenueInv
<1>9. /\ \A w \in Venue \ {v} : orders'[w] = orders[w] /\ pos'[w] = pos[w]
      /\ \A k \in DOMAIN orders[v] \ {i} : orders'[v][k] = orders[v][k]
      /\ orders'[v][i].filled = f
      /\ pos'[v] = IF orders[v][i].reduce THEN pos[v] - f ELSE pos[v] + f
    <2>1. pos \in [Venue -> Int]  BY DEF IInv, TypeOK
    <2>2. orders'[v][i].filled = f
        <3>1. orders'[v][i] = o  BY <1>6 DEF Replaced
        <3> QED  BY <1>4, <3>1
    <2> HIDE DEF o
    <2> QED  BY <1>2, <1>6, <2>1, <2>2 DEF Replaced
<1>10. Opens(v)' = Opens(v) /\ Opens(v) \subseteq DOMAIN orders[v]
    BY <1>8 DEF OrdersAdvance, Opens
<1>11. Position(v)  BY DEF VenueInv, Positions
<1>12. i \in Opens(v) <=> ~orders[v][i].reduce  BY DEF Opens
<1>13. NothingFilled(v)' => pos'[v] = 0 /\ shown'[v] = 0
    <2> SUFFICES ASSUME NothingFilled(v)'  PROVE pos'[v] = 0 /\ shown'[v] = 0  OBVIOUS
    <2>1. \A k \in Opens(v) : orders[v][k].filled = 0
        <3>1. \A k \in Opens(v) : orders'[v][k].filled = 0  BY <1>10 DEF NothingFilled
        <3> QED  BY <1>5, <1>9, <1>10, <3>1
    <2>2. pos[v] = 0 /\ shown[v] = 0  BY <1>11, <2>1 DEF Position, NothingFilled
    <2>3. i \in Opens(v) => f = 0  BY <1>9, <1>10 DEF NothingFilled
    <2>4. orders[v][i].reduce => f = 0  BY <1>2, <1>3, <2>2
    <2> QED  BY <1>5, <1>9, <1>12, <2>2, <2>3, <2>4
<1>14. ASSUME NEW j \in Opens(v), OnlyFills(v, j)'
       PROVE  pos'[v] = orders'[v][j].filled
    <2>1. ~orders[v][i].reduce
        <3>1. \A k \in DOMAIN orders'[v] : ~orders'[v][k].reduce  BY <1>14 DEF OnlyFills
        <3> QED  BY <1>8, <3>1 DEF OrdersAdvance, Advances
    <2>2. i \in Opens(v) /\ pos'[v] = pos[v] + f  BY <1>9, <1>12, <2>1
    <2>3. \A k \in Opens(v) \ {j} : orders'[v][k].filled = 0  BY <1>10, <1>14 DEF OnlyFills
    <2>4. \A k \in Opens(v) \ {j} : orders[v][k].filled = 0
        BY <1>5, <1>9, <1>10, <2>3
    <2>5. CASE j = i
        <3>1. NothingFilled(v)  BY <1>5, <2>4, <2>5 DEF NothingFilled
        <3>2. pos[v] = 0  BY <1>11, <3>1 DEF Position
        <3> QED  BY <1>3, <1>9, <2>2, <2>5, <3>2
    <2>6. CASE j # i
        <3>1. f = 0  BY <1>9, <2>2, <2>3, <2>6
        <3>2. \A k \in DOMAIN orders[v] : ~orders[v][k].reduce
            <4>1. \A k \in DOMAIN orders[v] : orders'[v][k].reduce = orders[v][k].reduce
                BY <1>8 DEF OrdersAdvance, Advances
            <4> QED  BY <1>8, <1>14, <4>1 DEF OnlyFills
        <3>3. pos[v] = orders[v][j].filled  BY <1>11, <2>4, <3>2 DEF Position, OnlyFills
        <3>4. j \in DOMAIN orders[v]  BY <1>10
        <3>5. orders'[v][j] = orders[v][j]  BY <1>9, <2>6, <3>4
        <3> QED  BY <1>1, <2>2, <3>1, <3>3, <3>5
    <2> QED  BY <2>5, <2>6
<1>15. Position(v)'
    <2>1. pos'[v] >= 0  BY <1>1, <1>2, <1>3, <1>9, <1>11 DEF Position
    <2> QED  BY <1>5, <1>10, <1>11, <1>13, <1>14, <2>1 DEF Position
<1>16. \A w \in Venue \ {v} : Position(w)'
    BY <1>5, <1>9 DEF VenueInv, Positions, Position, NothingFilled, OnlyFills, Opens
<1>17. Positions'  BY <1>15, <1>16 DEF Positions
<1>18. pos[v] = 0 /\ i \notin Opens(v) => pos'[v] = 0  BY <1>2, <1>3, <1>9, <1>12
<1> QED  BY <1>8, <1>9, <1>17, <1>18 DEF VenueInv

\* A late position shows.
LEMMA ShowLearns ==
    ASSUME IInv, VenueInv, NEW v \in Venue, Show(v)
    PROVE  VenueInv'
<1>1. UNCHANGED <<pos, orders>> /\ shown' = [shown EXCEPT ![v] = pos[v]] /\ shown \in [Venue -> Int]
    BY DEF Show, IInv, TypeOK
<1>2. \A w \in Venue : shown'[w] = shown[w] \/ shown'[w] = pos[w]  BY <1>1
<1>3. Positions'
    <2> SUFFICES ASSUME NEW w \in Venue  PROVE Position(w)'  BY DEF Positions
    <2>1. Position(w)  BY DEF VenueInv, Positions
    <2>2. NothingFilled(w)' = NothingFilled(w) /\ Opens(w)' = Opens(w)
          /\ \A j \in Opens(w) : OnlyFills(w, j)' = OnlyFills(w, j)
        BY <1>1 DEF NothingFilled, OnlyFills, Opens
    <2> QED  BY <1>1, <1>2, <2>1, <2>2 DEF Position
<1> QED  BY <1>1, <1>3 DEF VenueInv, Shapes

\* An order that is added has filled nothing.
LEMMA AddedLearns ==
    ASSUME IInv, VenueInv, NEW v \in Venue, NEW n \in Nat \ {0}, NEW b \in BOOLEAN,
           ~b => n = Size,
           orders' = [orders EXCEPT ![v] = Append(orders[v], NewOrder(n, b))],
           UNCHANGED <<pos, shown>>
    PROVE  VenueInv' /\ (b => OrdersAdvance)
<1>1. OrderAdded(v, b)  BY AppendOrder DEF IInv
<1>2. orders[v] \in Seq(Order) /\ orders \in [Venue -> Seq(Order)]  BY DEF IInv, TypeOK
<1>3. orders'[v][Len(orders[v]) + 1] = NewOrder(n, b)  BY <1>2
<1> DEFINE last == Len(orders[v]) + 1
<1>4. /\ \A w \in Venue \ {v} : orders'[w] = orders[w]
      /\ DOMAIN orders'[v] = DOMAIN orders[v] \cup {last} /\ last \notin DOMAIN orders[v]
      /\ \A k \in DOMAIN orders[v] : orders'[v][k] = orders[v][k]
      /\ orders'[v][last].filled = 0 /\ orders'[v][last].reduce = b
      /\ orders'[v][last].size = n /\ orders'[v][last].state = "sent"
    <2>1. Len(orders[v]) \in Nat  BY <1>2
    <2>2. DOMAIN orders'[v] = DOMAIN orders[v] \cup {last} /\ last \notin DOMAIN orders[v]
        BY <1>1, <2>1 DEF OrderAdded
    <2> QED  BY <1>1, <1>3, <2>2 DEF OrderAdded, NewOrder
<1> HIDE DEF last
<1>5. Shapes'
    <2>1. Shaped(orders'[v][last])  BY <1>4 DEF Shaped
    <2>2. \A w \in Venue : \A k \in DOMAIN orders[w] : Shaped(orders[w][k])  BY DEF VenueInv, Shapes
    <2> QED  BY <1>4, <2>1, <2>2 DEF Shapes
<1>6. Opens(v) \subseteq Opens(v)' /\ Opens(v)' \subseteq Opens(v) \cup {last} /\ (b => Opens(v)' = Opens(v))
    BY <1>4 DEF Opens
<1>7. Position(v)  BY DEF VenueInv, Positions
<1>8. Opens(v) \subseteq DOMAIN orders[v]  BY DEF Opens
<1>9. NothingFilled(v)' => NothingFilled(v)
    BY <1>4, <1>6, <1>8 DEF NothingFilled
<1>10. ASSUME NEW j \in Opens(v)', OnlyFills(v, j)'
       PROVE  pos[v] = orders'[v][j].filled
    <2>1. \A k \in DOMAIN orders[v] : ~orders[v][k].reduce  BY <1>4, <1>10 DEF OnlyFills
    <2>2. \A k \in Opens(v) \ {j} : orders[v][k].filled = 0
        BY <1>4, <1>6, <1>8, <1>10 DEF OnlyFills
    <2>3. CASE j = last
        <3>1. NothingFilled(v)  BY <1>4, <1>8, <2>2, <2>3 DEF NothingFilled
        <3> QED  BY <1>4, <1>7, <2>3, <3>1 DEF Position
    <2>4. CASE j \in Opens(v)
        <3>1. pos[v] = orders[v][j].filled  BY <1>7, <2>1, <2>2, <2>4 DEF Position, OnlyFills
        <3> QED  BY <1>4, <1>8, <2>4, <3>1
    <2> QED  BY <1>6, <2>3, <2>4
<1>11. Position(v)'  BY <1>7, <1>9, <1>10 DEF Position
<1>12. \A w \in Venue \ {v} : Position(w)'
    BY <1>4 DEF VenueInv, Positions, Position, NothingFilled, OnlyFills, Opens
<1>13. ASSUME b  PROVE OrdersAdvance
    <2>0. \A w \in Venue \ {v} : Opens(w)' = Opens(w)  BY <1>4 DEF Opens
    <2>1. \A w \in Venue : Opens(w)' = Opens(w)  BY <1>6, <1>13, <2>0
    <2>2. \A w \in Venue : \A k \in DOMAIN orders[w] : orders'[w][k] = orders[w][k]  BY <1>4
    <2> QED  BY <2>1, <2>2 DEF OrdersAdvance, Advances
<1> QED  BY <1>5, <1>11, <1>12, <1>13 DEF VenueInv, Positions


\* Whatever the venues do, what the request has learned stays true.
LEMMA AdvanceLearns ==
    ASSUME LearnInv, OrdersAdvance, UNCHANGED <<first, second, req, entry, unclear>>,
           Settled /\ Flat => Flat',
           others \subseteq others',
           \A v \in Venue : \A i \in DOMAIN orders'[v] :
              orders'[v][i].reduce => \/ i \in DOMAIN orders[v] /\ orders[v][i].reduce
                                      \/ [venue |-> v, ord |-> i] \in others'
    PROVE  LegInv' /\ ReadInv'
<1>1. req \in Request /\ entry \in [kind : Kind \cup {"none"}, legs : Seq(Leg)]
      /\ first \in Venue /\ second \in Venue /\ first # second /\ Route = {first, second} /\ Route' = Route
      /\ Leg1' = Leg1
    BY DEF LearnInv, IInv, TypeOK, Route, Leg1
<1>2. OpenSizes'  BY DEF LearnInv, LegInv, OpenSizes, Opening, Working
<1>3. OpenLegs'
    <2> SUFFICES ASSUME Opening, ~unclear  PROVE OpenLegs'  BY DEF OpenLegs, Opening
    <2>1. ASSUME req.pc = "observe"
          PROVE  Leg1 = "paradex" /\ (\A i \in Opens(Leg1) : orders[Leg1][i].state # "sent")'
        <3>1. Leg1 \in Venue  BY <2>1, TodoFacts DEF LearnInv, Working
        <3>2. Leg1 = "paradex" /\ \A i \in Opens(Leg1) : orders[Leg1][i].state # "sent"
            BY <2>1 DEF LearnInv, LegInv, OpenLegs
        <3>3. Opens(Leg1)' = Opens(Leg1) /\ Opens(Leg1) \subseteq DOMAIN orders[Leg1]
            BY <1>1, <3>1 DEF OrdersAdvance, Opens
        <3> QED  BY <1>1, <3>1, <3>2, <3>3 DEF OrdersAdvance, Advances
    <2>2. ASSUME req.pc = "journal"  PROVE Named(req.legs)'
        <3>1. PICK legs : legs = req.legs  OBVIOUS
        <3>2. legs \in Seq(Leg) /\ Named(legs)
            BY <1>1, <2>2, <3>1 DEF LearnInv, LegInv, OpenLegs, Request
        <3>3. Named(legs)'  BY <3>2, AdvanceLegs DEF LearnInv
        <3> QED  BY <3>1, <3>3 DEF Named
    <2>3. ASSUME Working, req.todo = <<second>>
          PROVE  first = "paradex" /\ \E l \in Leg : req.legs = <<l>> /\ l.venue = first /\ NamedLeg(l)'
        <3>0. first = "paradex"  BY <2>3 DEF LearnInv, LegInv, OpenLegs
        <3>1. PICK l \in Leg : req.legs = <<l>> /\ l.venue = first /\ NamedLeg(l)
            BY <2>3 DEF LearnInv, LegInv, OpenLegs
        <3>2. NamedLeg(l)'  BY <3>1, AdvanceLeg DEF LearnInv
        <3> QED  BY <3>0, <3>1, <3>2
    <2>4. Working /\ req.todo = <<first, second>> => req.legs = <<>>
        BY DEF LearnInv, LegInv, OpenLegs
    <2> QED  BY <1>1, <2>1, <2>2, <2>3, <2>4 DEF OpenLegs, Opening, Working
<1>4. EntryLegs'
    <2>1. ASSUME entry.kind = "open", ~unclear  PROVE Named(entry.legs)'
        <3>1. PICK legs : legs = entry.legs  OBVIOUS
        <3>2. legs \in Seq(Leg) /\ Named(legs)
            BY <1>1, <2>1, <3>1 DEF LearnInv, LegInv, EntryLegs
        <3>3. Named(legs)'  BY <3>2, AdvanceLegs DEF LearnInv
        <3> QED  BY <3>1, <3>3 DEF Named
    <2> QED  BY <2>1 DEF EntryLegs
<1>5. Settled => Settled'  BY AdvanceKeeps DEF LearnInv
<1>6. PastOpen'  BY <1>5 DEF LearnInv, ReadInv, PastOpen, Reducing
<1>7. HeldFilled'
    <2>1. \A v \in Venue : ~NothingFilled(v) => ~NothingFilled(v)'  BY AdvanceKeeps DEF LearnInv
    <2> QED  BY <1>1, <2>1 DEF LearnInv, ReadInv, HeldFilled
<1>8. AccountsRead'
    <2> SUFFICES ASSUME req.pc = "orders", ~unclear, req.held = {}, entry.kind # "open"  PROVE Flat'
        BY DEF AccountsRead
    <2>1. Flat  BY DEF LearnInv, ReadInv, AccountsRead
    <2>2. entry.kind \in {"close", "cleanup"}  BY <1>1 DEF LearnInv, ReadInv, PastOpen, Kind
    <2>3. Settled  BY <2>2 DEF LearnInv, ReadInv, PastOpen
    <2> QED  BY <2>1, <2>3
<1>9. Learned'
    <2>1. BothFilled => BothFilled'  BY AdvanceKeeps DEF LearnInv
    <2>2. Learned  BY DEF LearnInv, ReadInv
    <2> QED  BY <1>5, <2>1, <2>2 DEF Learned
<1>10. OnlyOpens'  BY DEF LearnInv, ReadInv, OnlyOpens
<1> QED  BY <1>2, <1>3, <1>4, <1>6, <1>7, <1>8, <1>9, <1>10 DEF LegInv, ReadInv

\* The venues' own steps.
LEMMA VenueLearns ==
    ASSUME LearnInv, NEW v \in Route, VenueStep(v)
    PROVE  VenueInv' /\ LegInv' /\ ReadInv'
<1>1. v \in Venue /\ Route' = Route /\ UNCHANGED <<first, second, req, entry, unclear>>
      /\ IInv /\ VenueInv /\ Route \subseteq Venue
    BY DEF VenueStep, Accept, Refuse, Settle, Match, Show, OtherSends, route, LearnInv, IInv, TypeOK, Route
<1>2. CASE \E i \in DOMAIN orders[v] : Accept(v, i) \/ Refuse(v, i)
    <2>1. PICK i \in DOMAIN orders[v], to \in {"open", "refused"} : Settle(v, i, "sent", to)
        BY <1>2 DEF Accept, Refuse
    <2>2. OrdersAdvance /\ VenueInv' /\ \A w \in Venue : DOMAIN orders'[w] = DOMAIN orders[w]
        BY <1>1, <2>1, SettleLearns
    <2>3. pos' = pos /\ others' = others  BY <2>1 DEF Settle
    <2>4. Flat => Flat'  BY <1>1, <2>3 DEF Flat
    <2>6. \A w \in Venue : \A k \in DOMAIN orders'[w] :
             orders'[w][k].reduce => k \in DOMAIN orders[w] /\ orders[w][k].reduce
        BY <2>2 DEF OrdersAdvance, Advances
    <2> QED  BY <1>1, <2>2, <2>3, <2>4, <2>6, AdvanceLearns
<1>3. CASE \E i \in DOMAIN orders[v] : Match(v, i)
    <2>1. PICK i \in DOMAIN orders[v] : Match(v, i)  BY <1>3
    <2>2. /\ OrdersAdvance /\ VenueInv' /\ \A w \in Venue : DOMAIN orders'[w] = DOMAIN orders[w]
          /\ \A w \in Venue \ {v} : pos'[w] = pos[w]
          /\ pos[v] = 0 /\ i \notin Opens(v) => pos'[v] = 0
        BY <1>1, <2>1, MatchLearns
    <2>3. others' = others /\ orders[v][i].state = "open"  BY <2>1 DEF Match
    <2>4. Settled => i \notin Opens(v)  BY <2>3 DEF Settled
    <2>5. Settled /\ Flat => Flat'  BY <1>1, <2>2, <2>4 DEF Flat
    <2>6. \A w \in Venue : \A k \in DOMAIN orders'[w] :
             orders'[w][k].reduce => k \in DOMAIN orders[w] /\ orders[w][k].reduce
        BY <2>2 DEF OrdersAdvance, Advances
    <2> QED  BY <1>1, <2>2, <2>3, <2>5, <2>6, AdvanceLearns
<1>4. CASE Show(v)
    <2>1. VenueInv'  BY <1>1, <1>4, ShowLearns
    <2>2. UNCHANGED <<pos, orders, others>>  BY <1>4 DEF Show
    <2>3. OrdersAdvance  BY <2>2 DEF OrdersAdvance, Advances, Opens
    <2>4. Flat => Flat'  BY <1>1, <2>2 DEF Flat
    <2> QED  BY <1>1, <2>1, <2>2, <2>3, <2>4, AdvanceLearns
<1>5. CASE OtherSends(v)
    <2>1. shown[v] \in Nat \ {0} /\ pos' = pos /\ shown' = shown
          /\ orders' = [orders EXCEPT ![v] = Append(orders[v], NewOrder(shown[v], TRUE))]
          /\ others' = others \cup {[venue |-> v, ord |-> Len(orders[v]) + 1]}
        BY <1>1, <1>5, OrderTypes DEF OtherSends, Last
    <2>2. VenueInv' /\ OrdersAdvance  BY <1>1, <2>1, AddedLearns
    <2>3. OrderAdded(v, TRUE)  BY <1>1, <2>1, AppendOrder DEF IInv
    <2>4. \A w \in Venue : \A i \in DOMAIN orders'[w] :
             \/ i \in DOMAIN orders[w] /\ orders'[w][i] = orders[w][i]
             \/ [venue |-> w, ord |-> i] \in others'
        <3>0. Len(orders[v]) \in Nat  BY <1>1, OrderTypes
        <3>1. \A i \in DOMAIN orders'[v] : i \in DOMAIN orders[v] \/ i = Len(orders[v]) + 1
            BY <2>3, <3>0 DEF OrderAdded
        <3>2. \A w \in Venue \ {v} : orders'[w] = orders[w]  BY <2>3 DEF OrderAdded
        <3>3. \A i \in DOMAIN orders[v] : orders'[v][i] = orders[v][i]  BY <2>3 DEF OrderAdded
        <3>4. [venue |-> v, ord |-> Len(orders[v]) + 1] \in others'  BY <2>1
        <3> QED  BY <3>1, <3>2, <3>3, <3>4
    <2>5. Flat => Flat'  BY <1>1, <2>1 DEF Flat
    <2>6. others \subseteq others'  BY <2>1
    <2> QED  BY <1>1, <2>2, <2>4, <2>5, <2>6, AdvanceLearns
<1> QED  BY <1>2, <1>3, <1>4, <1>5, <1>1 DEF VenueStep


-----------------------------------------------------------------------------
(* Steps of the request that submits.                                      *)

LEMMA StillAdvances ==
    ASSUME IInv, UNCHANGED orders
    PROVE  OrdersAdvance
BY DEF OrdersAdvance, Advances, Opens

LEMMA QuietVenues ==
    ASSUME VenueInv, UNCHANGED <<pos, shown, orders>>
    PROVE  VenueInv'
<1>1. Shapes'  BY DEF VenueInv, Shapes
<1>2. Positions'  BY DEF VenueInv, Positions, Position, NothingFilled, OnlyFills, Opens
<1> QED  BY <1>1, <1>2 DEF VenueInv

\* A request at work has read nothing yet.
LEMMA BusyLearns ==
    ASSUME LearnInv, OrdersAdvance, UNCHANGED <<first, second, entry>>,
           req'.pc \in {"send", "answer", "observe", "journal", "failed"},
           unclear' = unclear \/ unclear' = TRUE,
           Reducing' /\ ~unclear => Reducing \/ Settled
    PROVE  EntryLegs' /\ ReadInv'
<1>0. unclear \in BOOLEAN /\ entry.legs \in Seq(Leg)  BY DEF LearnInv, IInv, TypeOK
<1>1. Settled => Settled'  BY AdvanceKeeps DEF LearnInv
<1>2. PastOpen'  BY <1>0, <1>1 DEF LearnInv, ReadInv, PastOpen
<1>3. HeldFilled' /\ AccountsRead' /\ Learned' /\ OnlyOpens'
    BY DEF HeldFilled, AccountsRead, Learned, OnlyOpens
<1>4. EntryLegs'
    <2>1. ASSUME entry.kind = "open", ~unclear  PROVE Named(entry.legs)'
        <3>1. PICK legs : legs = entry.legs  OBVIOUS
        <3>2. legs \in Seq(Leg) /\ Named(legs)
            BY <1>0, <2>1, <3>1 DEF LearnInv, LegInv, EntryLegs
        <3>3. Named(legs)'  BY <3>2, AdvanceLegs DEF LearnInv
        <3> QED  BY <3>1, <3>3 DEF Named
    <2> QED  BY <1>0, <2>1 DEF EntryLegs
<1> QED  BY <1>2, <1>3, <1>4 DEF ReadInv

\* What is no open has no legs to name.
LEMMA NotOpening ==
    ASSUME ~Opening'
    PROVE  OpenSizes' /\ OpenLegs'
BY DEF OpenSizes, OpenLegs

\* How a leg ends.
LEMMA LegDoneFields ==
    ASSUME IInv, Working, NEW ord \in Nat, NEW submitted \in BOOLEAN, NEW seen,
           LegDone(ord, submitted, seen)
    PROVE  /\ req'.kind = req.kind /\ req'.size = req.size
           /\ req'.legs = Append(req.legs, [venue |-> Leg1, ord |-> ord])
           /\ \/ req'.pc = "journal"
              \/ /\ req'.pc = "send" /\ req'.todo = Tail(req.todo) /\ req'.todo # <<>>
                 /\ req.kind = "open" => seen = "filled"
<1> DEFINE left == IF submitted /\ (req.kind = "open" => seen = "filled") THEN Tail(req.todo) ELSE <<>>
           pc == IF left = <<>> THEN "journal" ELSE "send"
           legs == Append(req.legs, [venue |-> Leg1, ord |-> ord])
<1>1. req' = [req EXCEPT !.legs = legs, !.todo = left, !.pc = pc, !.attempt = 1, !.market = FALSE]
    BY DEF LegDone
<1>2. req \in Request  BY DEF IInv, TypeOK
<1>3. req'.kind = req.kind /\ req'.size = req.size /\ req'.legs = legs /\ req'.pc = pc /\ req'.todo = left
    <2> HIDE DEF legs, left, pc
    <2> QED  BY <1>1, <1>2 DEF Request
<1>4. pc = "journal" \/ (pc = "send" /\ left = Tail(req.todo) /\ left # <<>>
                         /\ (req.kind = "open" => seen = "filled"))
    OBVIOUS
<1> HIDE DEF left, pc
<1> QED  BY <1>3, <1>4

\* A leg of an open that ends: the next one, or the journal.
LEMMA OpenLegEnds ==
    ASSUME LearnInv, Working, req.kind = "open",
           NEW ord \in Nat, NEW submitted \in BOOLEAN, NEW seen, LegDone(ord, submitted, seen),
           UNCHANGED <<first, second, orders>>, unclear' = unclear \/ unclear' = TRUE,
           ~unclear' => NamedLeg([venue |-> Leg1, ord |-> ord]),
           seen = "filled" /\ ~unclear' => Leg1 = "paradex"
    PROVE  OpenSizes' /\ OpenLegs'
<1>0. unclear \in BOOLEAN /\ Opening /\ IInv  BY DEF LearnInv, IInv, TypeOK, Opening, Working
<1>00. PICK l : l = [venue |-> Leg1, ord |-> ord]  OBVIOUS
<1>1. /\ req'.kind = "open" /\ req'.size = req.size /\ req'.legs = Append(req.legs, l)
      /\ \/ req'.pc = "journal"
         \/ /\ req'.pc = "send" /\ req'.todo = Tail(req.todo) /\ req'.todo # <<>>
            /\ seen = "filled"
    BY <1>0, <1>00, LegDoneFields
<1>2. l \in Leg /\ l.venue = Leg1  BY <1>0, <1>00, TodoFacts DEF Leg
<1>3. OpenSizes'  BY <1>0, <1>1 DEF LearnInv, LegInv, OpenSizes, Opening, Working
<1>4. \A k : NamedLeg(k)' <=> NamedLeg(k)  BY DEF NamedLeg, Opens, Dead
<1>5. FirstFilled => FirstFilled'  BY DEF FirstFilled, Opens, Filled
<1>6. CASE req.todo = <<first, second>>
    <2>1. Leg1 = first /\ Tail(req.todo) = <<second>> /\ first # second  BY <1>0, <1>6, TodoFacts
    <2>2. OpenLegs'
        <3> SUFFICES ASSUME ~unclear'  PROVE OpenLegs'  BY DEF OpenLegs
        <3>1. ~unclear  BY <1>0
        <3>2. req.legs = <<>>  BY <1>0, <1>6, <3>1 DEF LearnInv, LegInv, OpenLegs
        <3>3. req'.legs = <<l>>  BY <1>1, <3>2
        <3>4. NamedLeg(l)  BY <1>00
        <3>5. Opens(second)' = {}
            <4>1. orders[second] = <<>>  BY <1>0, <1>6 DEF IInv, OpenProgress
            <4> QED  BY <4>1 DEF Opens
        <3>6. Named(req.legs)'
            <4>1. Len(<<l>>) = 1 /\ <<l>>[1] = l  OBVIOUS
            <4>2. l.venue = first'  BY <1>2, <2>1
            <4>3. NamedLeg(l)'  BY <1>4, <3>4
            <4>4. PICK legs : legs = <<l>>  OBVIOUS
            <4>5. Named(legs)'  BY <3>5, <4>1, <4>2, <4>3, <4>4 DEF Named
            <4> QED  BY <3>3, <4>4, <4>5 DEF Named
        <3>10. req'.pc = "send" => first = "paradex"  BY <1>1, <2>1
        <3>7. (\E k \in Leg : req.legs = <<k>> /\ k.venue = first /\ NamedLeg(k))'
            BY <1>2, <1>4, <2>1, <3>3, <3>4
        <3>8. Working' => req'.pc = "send" /\ req'.todo = <<second>>  BY <1>1, <2>1 DEF Working
        <3>9. req'.pc # "observe"  BY <1>1
        <3> QED  BY <2>1, <3>6, <3>7, <3>8, <3>9, <3>10 DEF OpenLegs
    <2> QED  BY <1>3, <2>2
<1>7. CASE req.todo = <<second>>
    <2>1. Leg1 = second /\ Tail(req.todo) = <<>> /\ first # second  BY <1>0, <1>7, TodoFacts
    <2>2. req'.pc = "journal"  BY <1>1, <2>1
    <2>3. OpenLegs'
        <3> SUFFICES ASSUME ~unclear'  PROVE OpenLegs'  BY DEF OpenLegs
        <3>1. ~unclear  BY <1>0
        <3>2. PICK k \in Leg : req.legs = <<k>> /\ k.venue = first /\ NamedLeg(k)
            BY <1>0, <1>7, <3>1 DEF LearnInv, LegInv, OpenLegs
        <3>3. Len(req'.legs) = 2 /\ req'.legs[1] = k /\ req'.legs[2] = l
            <4>1. PICK s : s = <<k>>  OBVIOUS
            <4>2. s \in Seq(Leg) /\ Len(s) = 1 /\ s[1] = k  BY <4>1
            <4>3. Len(Append(s, l)) = 2 /\ Append(s, l)[1] = k /\ Append(s, l)[2] = l
                <5>1. /\ Len(Append(s, l)) = Len(s) + 1
                      /\ \A i \in 1..Len(s) : Append(s, l)[i] = s[i]
                      /\ Append(s, l)[Len(s) + 1] = l
                    <6>1. l \in Leg /\ s \in Seq(Leg)  BY <1>2, <4>2
                    <6> QED  BY <6>1, AppendProperties
                <5>2. 1 \in 1..Len(s) /\ Len(s) + 1 = 2  BY <4>2
                <5>3. Append(s, l)[1] = s[1]  BY <5>1, <5>2
                <5> QED  BY <4>2, <5>1, <5>2, <5>3
            <4> QED  BY <1>1, <3>2, <4>1, <4>3
        <3>4. NamedLeg(l)  BY <1>00
        <3>5. FirstFilled /\ first = "paradex"
            BY <1>0, <1>7, <3>1 DEF LearnInv, LegInv, OpenLegs, IInv, OpenProgress, FirstFilled
        <3>6. Named(req.legs)'
            <4>1. PICK legs : legs = req'.legs  OBVIOUS
            <4>2. k.venue = first' /\ l.venue = second'  BY <1>2, <2>1, <3>2
            <4>3. NamedLeg(k)' /\ NamedLeg(l)' /\ FirstFilled'  BY <1>4, <1>5, <3>2, <3>4, <3>5
            <4>4. Named(legs)'  BY <3>3, <3>5, <4>1, <4>2, <4>3 DEF Named
            <4> QED  BY <4>1, <4>4 DEF Named
        <3> QED  BY <2>2, <3>6 DEF OpenLegs, Working
    <2> QED  BY <1>3, <2>3
<1> QED  BY <1>0, <1>6, <1>7 DEF IInv, WorkToDo

\* The leg of an open that ends names what its orders may have filled.
LEMMA LegIsNamed ==
    ASSUME LearnInv, Working, req.kind = "open", NEW ord \in Nat,
           \/ req.pc = "send"
           \/ /\ req.pc \in {"answer", "observe"} /\ ord = Mine
              /\ orders[Leg1][Mine].state # "sent"
           \/ req.pc = "answer" /\ orders[Leg1][Mine].state = "refused"
    PROVE  NamedLeg([venue |-> Leg1, ord |-> ord])
<1>1. IInv /\ Opening /\ VenueInv /\ Leg1 \in Venue /\ OpenProgress
    BY TodoFacts DEF LearnInv, Opening, Working, IInv
<1>2. orders[Leg1] \in Seq(Order)  BY <1>1, OrderTypes
<1>3. \A i \in DOMAIN orders[Leg1] : Unfilled(Leg1, i) => Dead(Leg1, i) /\ orders[Leg1][i].state # "sent"
    BY DEF Unfilled, Dead
<1>4. CASE req.pc = "send"
    <2>1. \A i \in DOMAIN orders[Leg1] : Unfilled(Leg1, i)  BY <1>1, <1>4 DEF OpenProgress, Working
    <2> QED  BY <1>3, <2>1 DEF NamedLeg, Opens
<1>5. CASE req.pc \in {"answer", "observe"}
    <2>1. Mine = Len(orders[Leg1]) /\ Mine \in DOMAIN orders[Leg1]  BY <1>1, <1>5, MineFacts
    <2>2. \A i \in DOMAIN orders[Leg1] : i < Len(orders[Leg1]) => Unfilled(Leg1, i)
        BY <1>1, <1>5 DEF OpenProgress, Working
    <2>3. \A i \in DOMAIN orders[Leg1] : i # Mine => Unfilled(Leg1, i)
        BY <1>2, <2>1, <2>2
    <2>4. CASE ord = Mine /\ orders[Leg1][Mine].state # "sent"
        BY <1>3, <2>3, <2>4 DEF NamedLeg, Opens
    <2>5. CASE orders[Leg1][Mine].state = "refused"
        <3>1. Dead(Leg1, Mine)  BY <1>1, <2>1, <2>5 DEF VenueInv, Shapes, Shaped, Dead
        <3> QED  BY <1>3, <2>3, <2>5, <3>1 DEF NamedLeg, Opens
    <2> QED  BY <1>5, <2>4, <2>5
<1> QED  BY <1>4, <1>5


\* A leg that ends, of any request.
LEMMA LegEndsLearns ==
    ASSUME LearnInv, Working, NEW ord \in Nat, NEW submitted \in BOOLEAN, NEW seen,
           LegDone(ord, submitted, seen),
           UNCHANGED <<pos, shown, orders, first, second, entry>>, unclear' = unclear \/ unclear' = TRUE,
           req.kind = "open" /\ ~unclear' => NamedLeg([venue |-> Leg1, ord |-> ord]),
           req.kind = "open" /\ seen = "filled" /\ ~unclear' => Leg1 = "paradex"
    PROVE  VenueInv' /\ LegInv' /\ ReadInv'
<1>1. VenueInv'  BY QuietVenues DEF LearnInv
<1>2. req'.kind = req.kind /\ req'.pc \in {"send", "journal"}  BY LegDoneFields DEF LearnInv
<1>3. Reducing' => Reducing  BY <1>2 DEF Reducing, Working
<1>4. EntryLegs' /\ ReadInv'  BY <1>2, <1>3, StillAdvances, BusyLearns DEF LearnInv
<1>5. OpenSizes' /\ OpenLegs'
    <2>1. CASE req.kind = "open"  BY <2>1, OpenLegEnds
    <2>2. CASE req.kind # "open"  BY <1>2, <2>2, NotOpening DEF Opening
    <2> QED  BY <2>1, <2>2
<1> QED  BY <1>1, <1>4, <1>5 DEF LegInv

\* A request that fails.
LEMMA FailedLearns ==
    ASSUME LearnInv, req' = Failed, UNCHANGED <<pos, shown, orders, first, second, entry>>,
           unclear' = unclear \/ unclear' = TRUE
    PROVE  VenueInv' /\ LegInv' /\ ReadInv'
<1>1. VenueInv'  BY QuietVenues DEF LearnInv
<1>2. req'.pc = "failed"  BY IdleTypes
<1>3. ~Opening' /\ ~Reducing'  BY <1>2 DEF Opening, Reducing
<1>4. EntryLegs' /\ ReadInv'  BY <1>2, <1>3, StillAdvances, BusyLearns DEF LearnInv
<1> QED  BY <1>1, <1>3, <1>4, NotOpening DEF LegInv

\* An open works on, on the same leg.
LEMMA SameLegLearns ==
    ASSUME LearnInv, Working, UNCHANGED <<pos, shown, orders, first, second, entry, unclear>>,
           req'.pc \in {"send", "observe"}, req'.todo = req.todo, req'.kind = req.kind,
           req'.size = req.size, req'.legs = req.legs,
           Opening /\ req'.pc = "observe" =>
              Leg1 = "paradex" /\ \A i \in Opens(Leg1) : orders[Leg1][i].state # "sent"
    PROVE  VenueInv' /\ LegInv' /\ ReadInv'
<1>1. VenueInv'  BY QuietVenues DEF LearnInv
<1>2. Reducing' => Reducing  BY DEF Reducing, Working
<1>3. EntryLegs' /\ ReadInv'  BY <1>2, StillAdvances, BusyLearns DEF LearnInv
<1>4. Opening' => Opening  BY DEF Opening, Working
<1>5. OpenSizes'  BY <1>4 DEF LearnInv, LegInv, OpenSizes
<1>6. OpenLegs'
    <2> SUFFICES ASSUME Opening, ~unclear  PROVE OpenLegs'  BY <1>4 DEF OpenLegs
    <2>1. Working /\ req.todo = <<first, second>> => req.legs = <<>>
        BY DEF LearnInv, LegInv, OpenLegs
    <2>2. req.todo = <<second>> =>
             first = "paradex" /\ \E l \in Leg : req.legs = <<l>> /\ l.venue = first /\ NamedLeg(l)
        BY DEF LearnInv, LegInv, OpenLegs
    <2>3. \A l \in Leg : NamedLeg(l)' <=> NamedLeg(l)  BY DEF NamedLeg, Opens, Dead
    <2>4. Leg1' = Leg1  BY DEF Leg1
    <2>5. req'.pc = "observe" =>
             Leg1 = "paradex" /\ (\A i \in Opens(Leg1) : orders[Leg1][i].state # "sent")'
        BY <2>4 DEF Opens
    <2>6. req'.todo = <<second>> =>
             first = "paradex" /\ \E l \in Leg : req'.legs = <<l>> /\ l.venue = first /\ NamedLeg(l)'
        BY <2>2, <2>3
    <2> QED  BY <2>1, <2>4, <2>5, <2>6 DEF OpenLegs
<1> QED  BY <1>1, <1>3, <1>5, <1>6 DEF LegInv

\* Sending an order.
LEMMA SubmitLearns ==
    ASSUME LearnInv, Submit
    PROVE  VenueInv' /\ LegInv' /\ ReadInv'
<1>0. IInv /\ VenueInv /\ Working /\ req \in Request  BY DEF LearnInv, Submit, Working, IInv, TypeOK
<1>1. PICK v, b : v = Leg1 /\ b = (req.kind # "open")  OBVIOUS
<1>2. v \in Venue /\ req.size[v] \in Nat \ {0} /\ b \in BOOLEAN /\ first \in Venue /\ second \in Venue
      /\ first # second
    BY <1>0, <1>1, TodoFacts
<1>3. /\ orders' = [orders EXCEPT ![v] = Append(orders[v], NewOrder(req.size[v], b))]
      /\ UNCHANGED <<pos, shown, first, second, entry, unclear>> /\ req' = [req EXCEPT !.pc = "answer"]
    BY <1>1 DEF Submit, Stay, route
<1>4. req'.pc = "answer" /\ req'.kind = req.kind /\ req'.todo = req.todo /\ req'.size = req.size
      /\ req'.legs = req.legs
    BY <1>0, <1>3 DEF Request
<1>5. ~b => Opening /\ req.size[v] = Size
    BY <1>0, <1>1, <1>2 DEF LearnInv, LegInv, OpenSizes, Opening, Working
<1>6. PICK n \in Nat \ {0} : n = req.size[v]  BY <1>2
<1>7. VenueInv' /\ (b => OrdersAdvance)  BY <1>0, <1>2, <1>3, <1>5, <1>6, AddedLearns
<1>8. CASE b
    <2>1. Reducing /\ ~Opening'  BY <1>0, <1>1, <1>4, <1>8 DEF Reducing, Opening, Working
    <2>2. EntryLegs' /\ ReadInv'  BY <1>3, <1>4, <1>7, <1>8, <2>1, BusyLearns
    <2> QED  BY <1>7, <2>1, <2>2, NotOpening DEF LegInv
<1>9. CASE ~b
    <2>1. req.kind = "open" /\ Opening /\ entry = NoEntry
        BY <1>0, <1>1, <1>5, <1>9 DEF IInv, OpenAlone
    <2>2. EntryLegs' /\ ReadInv'
        BY <1>3, <1>4, <2>1
        DEF NoEntry, EntryLegs, ReadInv, PastOpen, Reducing, HeldFilled, AccountsRead, Learned, OnlyOpens
    <2>3. OpenSizes'  BY <1>0, <1>4, <2>1 DEF LearnInv, LegInv, OpenSizes
    <2>4. OpenLegs'
        <3> SUFFICES ASSUME ~unclear  PROVE OpenLegs'  BY <1>3 DEF OpenLegs
        <3>1. req.todo = <<first, second>> => req.legs = <<>>
            BY <1>0, <2>1 DEF LearnInv, LegInv, OpenLegs
        <3>2. ASSUME req.todo = <<second>>
              PROVE  first = "paradex" /\ \E l \in Leg : req.legs = <<l>> /\ l.venue = first /\ NamedLeg(l)'
            <4>0. first = "paradex"  BY <1>0, <2>1, <3>2 DEF LearnInv, LegInv, OpenLegs
            <4>1. PICK l \in Leg : req.legs = <<l>> /\ l.venue = first /\ NamedLeg(l)
                BY <1>0, <2>1, <3>2 DEF LearnInv, LegInv, OpenLegs
            <4>2. v = second  BY <1>0, <1>1, <3>2, TodoFacts
            <4>3. orders'[first] = orders[first]
                <5>1. orders \in [Venue -> Seq(Order)]  BY <1>0 DEF IInv, TypeOK
                <5> QED  BY <1>2, <1>3, <4>2, <5>1
            <4>4. NamedLeg(l)'  BY <4>1, <4>3 DEF NamedLeg, Opens, Dead
            <4> QED  BY <4>0, <4>1, <4>4
        <3> QED  BY <1>3, <1>4, <3>1, <3>2 DEF OpenLegs
    <2> QED  BY <1>7, <2>2, <2>3, <2>4 DEF LegInv
<1> QED  BY <1>1, <1>8, <1>9

\* The answer to an order, an observation or a preparation that fails.
LEMMA AnswerLearns ==
    ASSUME LearnInv,
           PreparationFails \/ AnswerAccepted \/ AnswerWithoutId \/ AnswerRefused \/ AnswerLost
              \/ ObservationFails
    PROVE  VenueInv' /\ LegInv' /\ ReadInv'
<1>0. UNCHANGED <<pos, shown, orders, first, second, entry>> /\ (unclear' = unclear \/ unclear' = TRUE)
      /\ Working /\ IInv /\ req \in Request
    BY DEF PreparationFails, AnswerAccepted, AnswerWithoutId, AnswerRefused, AnswerLost, ObservationFails,
           Stay, route, Working, LearnInv, IInv, TypeOK
<1>1. CASE PreparationFails \/ ((AnswerLost \/ ObservationFails) /\ LegFails)
    <2>1. CASE LegDone(0, FALSE, "unknown")
        <3>1. req.pc = "send" \/ unclear' = TRUE
            BY <1>1 DEF PreparationFails, AnswerLost, ObservationFails
        <3>2. req.kind = "open" /\ ~unclear' => NamedLeg([venue |-> Leg1, ord |-> 0])
            BY <1>0, <3>1, LegIsNamed
        <3> QED  BY <1>0, <2>1, <3>2, LegEndsLearns
    <2>2. CASE req' = Failed  BY <1>0, <2>2, FailedLearns
    <2> QED  BY <1>1, <2>1, <2>2 DEF PreparationFails, LegFails
<1>2. CASE AnswerAccepted /\ Leg1 = "paradex" /\ req' = [req EXCEPT !.pc = "observe"]
    <2>1. req'.pc = "observe" /\ req'.todo = req.todo /\ req'.kind = req.kind /\ req'.size = req.size
          /\ req'.legs = req.legs
        BY <1>0, <1>2 DEF Request
    <2>2. ASSUME Opening
          PROVE  Leg1 = "paradex" /\ \A i \in Opens(Leg1) : orders[Leg1][i].state # "sent"
        <3>1. req.pc = "answer" /\ orders[Leg1][Mine].state \in {"open", "closed"}
            BY <1>2 DEF AnswerAccepted
        <3>2. Mine = Len(orders[Leg1]) /\ Leg1 \in Venue  BY <1>0, <2>2, <3>1, MineFacts
        <3>3. \A i \in DOMAIN orders[Leg1] : i < Len(orders[Leg1]) => Unfilled(Leg1, i)
            BY <1>0, <2>2, <3>1 DEF IInv, OpenProgress
        <3>4. orders[Leg1] \in Seq(Order)  BY <1>0, <3>2, OrderTypes
        <3>5. \A i \in DOMAIN orders[Leg1] : i = Mine \/ i < Len(orders[Leg1])  BY <3>2, <3>4
        <3> QED  BY <1>2, <3>1, <3>3, <3>5 DEF Opens, Unfilled
    <2>3. unclear' = unclear  BY <1>2 DEF AnswerAccepted, Stay
    <2> QED  BY <1>0, <2>1, <2>2, <2>3, SameLegLearns
<1>3. CASE AnswerAccepted /\ LegDone(Mine, TRUE, "unknown")
    <2>1. req.pc = "answer" /\ orders[Leg1][Mine].state # "sent"  BY <1>3 DEF AnswerAccepted
    <2>2. PICK ord \in Nat : ord = Mine  BY <1>0, <2>1, MineFacts
    <2>3. req.kind = "open" => NamedLeg([venue |-> Leg1, ord |-> ord])
        BY <1>0, <2>1, <2>2, LegIsNamed
    <2> QED  BY <1>0, <1>3, <2>2, <2>3, LegEndsLearns
<1>4. CASE AnswerWithoutId
    <2>1. LegDone(0, TRUE, "unknown") /\ unclear' = TRUE  BY <1>4 DEF AnswerWithoutId
    <2> QED  BY <1>0, <2>1, LegEndsLearns
<1>5. CASE AnswerRefused
    <2>1. req.pc = "answer" /\ orders[Leg1][Mine].state = "refused"  BY <1>5 DEF AnswerRefused
    <2>2. PICK ord \in Nat : LegDone(ord, FALSE, "unknown")
        BY <1>0, <1>5, <2>1, MineFacts DEF AnswerRefused
    <2>3. req.kind = "open" => NamedLeg([venue |-> Leg1, ord |-> ord])
        BY <1>0, <2>1, LegIsNamed
    <2> QED  BY <1>0, <2>2, <2>3, LegEndsLearns
<1>6. CASE AnswerLost /\ LegDone(Mine, FALSE, "unknown")
    <2>1. req.pc = "answer" /\ unclear' = TRUE  BY <1>6 DEF AnswerLost
    <2>2. PICK ord \in Nat : ord = Mine  BY <1>0, <2>1, MineFacts
    <2> QED  BY <1>0, <1>6, <2>1, <2>2, LegEndsLearns
<1> QED
    BY <1>1, <1>2, <1>3, <1>4, <1>5, <1>6
    DEF PreparationFails, AnswerAccepted, AnswerLost, ObservationFails

\* An observation sends the order again or ends the leg.
LEMMA ObserveLearns ==
    ASSUME LearnInv, ObserveSubmittedLeg
    PROVE  VenueInv' /\ LegInv' /\ ReadInv'
<1>0. UNCHANGED <<pos, shown, orders, first, second, entry, unclear>> /\ Working /\ IInv
      /\ req.pc = "observe" /\ req \in Request /\ unclear \in BOOLEAN
    BY DEF ObserveSubmittedLeg, Stay, route, Working, LearnInv, IInv, TypeOK
<1>1. PICK seen : seen = Classify(orders[Leg1][Mine])  OBVIOUS
<1>2. CASE LegDone(Mine, TRUE, seen)
    <2>1. PICK ord \in Nat : ord = Mine  BY <1>0, MineFacts
    <2>2. req.kind = "open" /\ ~unclear => Leg1 = "paradex"
        BY <1>0 DEF LearnInv, LegInv, OpenLegs, Opening
    <2>3. ASSUME req.kind = "open", ~unclear
          PROVE  NamedLeg([venue |-> Leg1, ord |-> ord])
        <3>1. Opening  BY <1>0, <2>3 DEF Opening
        <3>2. Mine \in Opens(Leg1)  BY <1>0, <3>1, MineFacts DEF Opens
        <3>3. orders[Leg1][Mine].state # "sent"
            BY <1>0, <2>3, <3>1, <3>2 DEF LearnInv, LegInv, OpenLegs
        <3> QED  BY <1>0, <2>1, <2>3, <3>3, LegIsNamed
    <2> QED  BY <1>0, <1>2, <2>1, <2>2, <2>3, LegEndsLearns
<1>3. CASE \/ req' = [req EXCEPT !.pc = "send", !.attempt = req.attempt + 1]
           \/ req' = [req EXCEPT !.pc = "send", !.market = TRUE]
    <2>1. req'.pc = "send" /\ req'.todo = req.todo /\ req'.kind = req.kind /\ req'.size = req.size
          /\ req'.legs = req.legs
        BY <1>0, <1>3 DEF Request
    <2> QED  BY <1>0, <2>1, SameLegLearns
<1> QED  BY <1>1, <1>2, <1>3 DEF ObserveSubmittedLeg


\* An open that starts.
LEMMA StartOpenLearns ==
    ASSUME LearnInv, StartOpen
    PROVE  VenueInv' /\ LegInv' /\ ReadInv'
<1> DEFINE todo == <<first, second>>
           size == [v \in Venue |-> Size]
<1>1. req' = [Idle EXCEPT !.pc = "send", !.todo = todo, !.size = size] /\ req.pc = "idle"
      /\ UNCHANGED <<pos, shown, orders, first, second, entry, closes, others, unclear>>
    BY DEF StartOpen, Stay, route
<1>2. req'.pc = "send" /\ req'.kind = "open" /\ req'.todo = todo /\ req'.size = size /\ req'.legs = <<>>
    <2> HIDE DEF todo, size
    <2>1. Idle \in Request /\ Idle.kind = "open" /\ Idle.legs = <<>>  BY IdleTypes DEF Idle
    <2> QED  BY <1>1, <2>1 DEF Request
<1>3. VenueInv'  BY <1>1, QuietVenues DEF LearnInv
<1>4. EntryLegs' /\ ReadInv'
    <2>1. ~Reducing'  BY <1>2 DEF Reducing
    <2> QED  BY <1>1, <1>2, <2>1, StillAdvances, BusyLearns DEF LearnInv
<1>5. OpenSizes'  BY <1>2 DEF OpenSizes
<1>6. first # second  BY DEF LearnInv, IInv, TypeOK
<1>7. OpenLegs'  BY <1>1, <1>2, <1>6 DEF OpenLegs
<1> QED  BY <1>3, <1>4, <1>5, <1>7 DEF LegInv

\* Closes and cleanups begin when the opening orders are settled.
LEMMA BeginLearns ==
    ASSUME LearnInv, StartCleanup \/ SubmitClose
    PROVE  VenueInv' /\ LegInv' /\ ReadInv'
<1>0. UNCHANGED <<pos, shown, orders, first, second, entry, unclear>> /\ req.pc = "decide"
    BY DEF StartCleanup, SubmitClose, Stay, route
<1>1. req'.pc = "send" /\ req'.kind # "open"
    <2>1. CASE StartCleanup
        <3>1. PICK v : req' = [Idle EXCEPT !.pc = "send", !.kind = "cleanup", !.todo = <<v>>,
                                           !.size[v] = shown[v], !.step = req.step + 1]
            BY <2>1 DEF StartCleanup
        <3>2. PICK size, todo, n : size = [Idle.size EXCEPT ![v] = shown[v]] /\ todo = <<v>> /\ n = req.step + 1
            OBVIOUS
        <3>3. req' = [Idle EXCEPT !.pc = "send", !.kind = "cleanup", !.todo = todo, !.size = size, !.step = n]
            BY <3>1, <3>2, IdleTypes DEF Request
        <3> QED  BY <3>3, IdleTypes DEF Request
    <2>2. CASE SubmitClose
        <3>1. PICK v, w : req' = [Idle EXCEPT !.pc = "send", !.kind = "close", !.todo = <<v, w>>,
                                              !.size = shown]
            BY <2>2 DEF SubmitClose
        <3>2. PICK todo : todo = <<v, w>>  OBVIOUS
        <3>3. req' = [Idle EXCEPT !.pc = "send", !.kind = "close", !.todo = todo, !.size = shown]
            BY <3>1, <3>2
        <3> QED  BY <3>3, IdleTypes DEF Request
    <2> QED  BY <2>1, <2>2
<1>2. ~unclear => Settled
    BY <1>0 DEF LearnInv, ReadInv, Learned, StartCleanup, SubmitClose, MayCleanUp
<1>3. VenueInv'  BY <1>0, QuietVenues DEF LearnInv
<1>4. EntryLegs' /\ ReadInv'  BY <1>0, <1>1, <1>2, StillAdvances, BusyLearns DEF LearnInv
<1> QED  BY <1>1, <1>3, <1>4, NotOpening DEF LegInv, Opening

-----------------------------------------------------------------------------
(* Steps of the request that reads.                                        *)

\* What a status is derived from.
LEMMA StatusMeans ==
    ASSUME NEW e, NEW states, NEW held, NEW blocked \in BOOLEAN
    PROVE  LET verdict == PairStatus(e, states, held, blocked)
           IN  /\ verdict.state = "hedged" \/ verdict.action \in CleanupAction \cup {"no_action"}
                     => "open" \notin states
               /\ verdict.action = "no_action" =>
                     /\ held = {}
                     /\ e.kind = "open" => "filled" \notin states /\ ("unfilled" \in states \/ states = {})
               /\ verdict.state = "hedged" =>
                     "partial_fill" \notin states /\ Len(e.legs) >= 2 /\ held = Route
<1>1. PICK verdict : verdict = PairStatus(e, states, held, blocked)  OBVIOUS
<1>2. verdict.state = "hedged" \/ verdict.action \in {"close_open_leg", "complete_or_unwind_missing_leg", "no_action"}
         => "open" \notin states
    BY <1>1 DEF PairStatus, Verdict
<1>3. verdict.action = "no_action" =>
         /\ held = {}
         /\ e.kind = "open" => "filled" \notin states /\ ("unfilled" \in states \/ states = {})
    BY <1>1 DEF PairStatus, Verdict
<1>4. verdict.state = "hedged" =>
         "partial_fill" \notin states /\ Len(e.legs) >= 2 /\ held = Route
    BY <1>1 DEF PairStatus, Verdict
<1> QED  BY <1>1, <1>2, <1>3, <1>4 DEF CleanupAction

\* What the state of a leg says of the opening orders at its venue, unless it
\* was read late.
LEMMA LegSeen ==
    ASSUME LearnInv, NEW l \in Leg, NamedLeg(l), NEW s \in Observations(l),
           s = "unknown" => Observations(l) = {"unknown"}
    PROVE  /\ s # "open" => \A i \in Opens(l.venue) : orders[l.venue][i].state \in {"closed", "refused"}
           /\ s = "unfilled" => NothingFilled(l.venue)
           /\ l.venue # "extended" /\ s \notin {"open", "partial_fill"} /\ ~NothingFilled(l.venue)
                 => \E i \in Opens(l.venue) : Filled(l.venue, i)
           /\ l.venue # "extended" /\ s # "filled" => \A i \in Opens(l.venue) : ~Filled(l.venue, i)
<1>1. PICK v : v = l.venue  OBVIOUS
<1>2. v \in Venue /\ l.ord \in Nat  BY <1>1 DEF Leg
<1>3. Opens(v) \subseteq DOMAIN orders[v] /\ \A i \in DOMAIN orders[v] : i \in Nat /\ orders[v][i] \in Order
    BY <1>2, OrderTypes DEF Opens, LearnInv
<1>4. \A i \in Opens(v) : IF i = l.ord THEN orders[v][i].state # "sent" ELSE Dead(v, i)
    BY <1>1 DEF NamedLeg
<1>5. \A i \in Opens(v) : orders[v][i].size \in Nat \ {0} /\ orders[v][i].filled \in Nat
                          /\ orders[v][i].state \in {"sent", "open", "closed", "refused"}
    BY <1>3 DEF Order
<1>6. \A i \in Opens(v) : Shaped(orders[v][i])  BY <1>2, <1>3 DEF LearnInv, VenueInv, Shapes
<1>7. CASE l.ord \notin Opens(v)
    <2>1. \A i \in Opens(v) : Dead(v, i)  BY <1>4, <1>7
    <2> QED  BY <1>1, <1>5, <2>1 DEF Dead, NothingFilled, Filled
<1>8. CASE l.ord \in Opens(v)
    <2>1. PICK o : o = orders[v][l.ord]  OBVIOUS
    <2>2. o.size \in Nat \ {0} /\ o.filled \in Nat /\ o.state \in {"open", "closed", "refused"}
          /\ o.filled <= o.size /\ (o.state # "closed" => o.filled = 0)
        BY <1>4, <1>5, <1>6, <1>8, <2>1 DEF Shaped
    <2>3. l.ord # 0
        <3>1. orders[v] \in Seq(Order)  BY <1>2, OrderTypes DEF LearnInv
        <3>2. DOMAIN orders[v] = 1..Len(orders[v])  BY <3>1
        <3> QED  BY <1>3, <1>8, <3>2
    <2>4. Observations(l) = {"unknown"} \cup (IF v = "extended" THEN {Classify(o)} \cap {"open"}
                                                               ELSE {Classify(o)})
        BY <1>1, <2>1, <2>3 DEF Observations
    <2>5. /\ Classify(o) = "open" <=> o.state = "open"
          /\ Classify(o) = "unfilled" <=> o.state = "closed" /\ o.filled = 0
          /\ Classify(o) = "filled" <=> o.state = "closed" /\ o.filled = o.size
          /\ Classify(o) = "partial_fill" <=> o.state = "closed" /\ 0 < o.filled /\ o.filled < o.size
          /\ Classify(o) = "unknown" <=> o.state = "refused"
        BY <2>2 DEF Classify
    <2>6. \A i \in Opens(v) \ {l.ord} : orders[v][i].state \in {"closed", "refused"} /\ orders[v][i].filled = 0
        BY <1>4 DEF Dead
    <2>7. s # "open" => o.state # "open"  BY <2>4, <2>5
    <2>8. s = "unfilled" => o.filled = 0  BY <2>4, <2>5
    <2>9. v # "extended" => s = Classify(o)  BY <2>4
    <2>10. s # "open" => \A i \in Opens(v) : orders[v][i].state \in {"closed", "refused"}
        BY <2>1, <2>2, <2>6, <2>7
    <2>11. s = "unfilled" => NothingFilled(v)  BY <2>1, <2>6, <2>8 DEF NothingFilled
    <2>12. ASSUME v # "extended", s \notin {"open", "partial_fill"}, ~NothingFilled(v)
           PROVE  \E i \in Opens(v) : Filled(v, i)
        <3>1. o.filled # 0  BY <2>1, <2>6, <2>12 DEF NothingFilled
        <3>2. o.state = "closed" /\ o.filled = o.size  BY <2>2, <2>5, <2>9, <2>12, <3>1
        <3> QED  BY <1>8, <2>1, <3>2 DEF Filled
    <2>13. ASSUME v # "extended", s # "filled", NEW i \in Opens(v)
           PROVE  ~Filled(v, i)
        <3>1. i # l.ord => orders[v][i].filled # orders[v][i].size  BY <1>5, <2>6
        <3>2. i = l.ord => ~(o.state = "closed" /\ o.filled = o.size)  BY <2>5, <2>9, <2>13
        <3> QED  BY <2>1, <3>1, <3>2 DEF Filled
    <2> QED  BY <1>1, <2>10, <2>11, <2>12, <2>13
<1> QED  BY <1>7, <1>8


\* The verdict of a poll.
LEMMA ReadOrdersLearns ==
    ASSUME LearnInv, ReadOrders
    PROVE  VenueInv' /\ LegInv' /\ ReadInv'
<1>0. /\ UNCHANGED <<pos, shown, orders, first, second, entry, others>> /\ req.pc = "orders"
      /\ IInv /\ VenueInv /\ req \in Request /\ unclear \in BOOLEAN
      /\ entry \in [kind : Kind \cup {"none"}, legs : Seq(Leg)]
    BY DEF ReadOrders, route, LearnInv, IInv, TypeOK
<1>1. PICK seen, verdict :
         /\ seen \in [DOMAIN entry.legs -> FillState]
         /\ \A i \in DOMAIN entry.legs : seen[i] \in Observations(entry.legs[i])
         /\ verdict = PairStatus(entry, {seen[i] : i \in DOMAIN entry.legs}, req.held, req.blocked)
         /\ req' = [req EXCEPT !.pc = "decide", !.states = {seen[i] : i \in DOMAIN entry.legs},
                               !.verdict = verdict]
         /\ unclear' = (unclear \/ \E i \in DOMAIN entry.legs :
                                      seen[i] = "unknown" /\ Observations(entry.legs[i]) # {"unknown"})
    BY DEF ReadOrders
<1>2. PICK states : states = {seen[i] : i \in DOMAIN entry.legs}  OBVIOUS
<1>3. req'.pc = "decide" /\ req'.verdict = verdict /\ req'.held = req.held /\ req'.then = req.then
    <2>1. req' = [req EXCEPT !.pc = "decide", !.states = states, !.verdict = verdict]  BY <1>1, <1>2
    <2> QED  BY <1>0, <2>1 DEF Request
<1>4. /\ verdict.state = "hedged" \/ verdict.action \in CleanupAction \cup {"no_action"}
             => "open" \notin states
      /\ verdict.action = "no_action" =>
            /\ req.held = {}
            /\ entry.kind = "open" =>
                  "filled" \notin states /\ ("unfilled" \in states \/ states = {})
      /\ verdict.state = "hedged" =>
            "partial_fill" \notin states /\ Len(entry.legs) >= 2 /\ req.held = Route
    <2>1. req.blocked \in BOOLEAN  BY <1>0 DEF Request
    <2> QED  BY <1>1, <1>2, <2>1, StatusMeans
<1>5. first \in Venue /\ second \in Venue /\ first # second /\ Route = {first, second}
    BY <1>0, OrderTypes
<1>6. VenueInv'  BY <1>0, QuietVenues
<1>7. LegInv'
    <2>1. ~Opening'  BY <1>3 DEF Opening
    <2>2. EntryLegs'
        <3>1. ASSUME entry.kind = "open", ~unclear  PROVE Named(entry.legs)'
            <4>1. PICK legs : legs = entry.legs  OBVIOUS
            <4>2. legs \in Seq(Leg) /\ Named(legs)
                BY <1>0, <3>1, <4>1 DEF LearnInv, LegInv, EntryLegs
            <4>3. Named(legs)'  BY <1>0, <4>2, StillAdvances, AdvanceLegs
            <4> QED  BY <1>0, <4>1, <4>3 DEF Named
        <3> QED  BY <1>0, <1>1, <3>1 DEF EntryLegs
    <2> QED  BY <2>1, <2>2, NotOpening DEF LegInv
<1>8. Settled' = Settled /\ Flat' = Flat /\ BothFilled' = BothFilled
    BY <1>0 DEF Settled, Flat, BothFilled, Filled, Opens, Route
<1>9. PastOpen'
    BY <1>0, <1>1, <1>3, <1>8 DEF LearnInv, ReadInv, PastOpen, Reducing
<1>10. HeldFilled'
    <2>1. \A v : NothingFilled(v)' = NothingFilled(v)  BY <1>0 DEF NothingFilled, Opens
    <2> QED  BY <1>0, <1>3, <2>1 DEF LearnInv, ReadInv, HeldFilled, Route
<1>11. AccountsRead'  BY <1>3 DEF AccountsRead
<1>12. OnlyOpens'  BY <1>0, <1>3 DEF LearnInv, ReadInv, OnlyOpens
<1>13. Learned'
    <2> SUFFICES ASSUME ~unclear'
                 PROVE  /\ verdict.state = "hedged" \/ verdict.action \in CleanupAction \cup {"no_action"}
                              => Settled
                        /\ verdict.action = "no_action" => Flat
                        /\ verdict.state = "hedged" /\ entry.kind = "open" /\ second # "extended" => BothFilled
        BY <1>0, <1>3, <1>8 DEF Learned
    <2>1. ~unclear /\ \A i \in DOMAIN entry.legs :
                         seen[i] = "unknown" => Observations(entry.legs[i]) = {"unknown"}
        BY <1>0, <1>1
    <2>2. CASE entry.kind # "open"
        <3>1. entry.kind \in {"close", "cleanup"}
            BY <1>0, <2>2 DEF LearnInv, ReadInv, PastOpen, Kind
        <3>2. Settled  BY <2>1, <3>1 DEF LearnInv, ReadInv, PastOpen
        <3>3. verdict.action = "no_action" => Flat
            BY <1>0, <1>4, <2>1, <2>2 DEF LearnInv, ReadInv, AccountsRead
        <3> QED  BY <2>2, <3>2, <3>3
    <2>3. CASE entry.kind = "open"
        <3>0. PICK legs \in Seq(Leg) : legs = entry.legs  BY <1>0
        <3>1. Named(legs)  BY <2>1, <2>3, <3>0 DEF LearnInv, LegInv, EntryLegs
        <3>2. ASSUME NEW i \in DOMAIN legs, NamedLeg(legs[i])
              PROVE  LET v == legs[i].venue
                     IN  /\ seen[i] # "open" => \A k \in Opens(v) : orders[v][k].state \in {"closed", "refused"}
                         /\ seen[i] = "unfilled" => NothingFilled(v)
                         /\ v # "extended" /\ seen[i] \notin {"open", "partial_fill"} /\ ~NothingFilled(v)
                               => \E k \in Opens(v) : Filled(v, k)
                         /\ v # "extended" /\ seen[i] # "filled" => \A k \in Opens(v) : ~Filled(v, k)
            <4>1. PICK l \in Leg : l = legs[i]  BY <3>2
            <4>2. PICK s \in Observations(l) : s = seen[i]  BY <1>1, <3>0, <4>1
            <4>3. s = "unknown" => Observations(l) = {"unknown"}  BY <2>1, <3>0, <4>1, <4>2
            <4>4. NamedLeg(l)  BY <3>2, <4>1
            <4> HIDE DEF LearnInv
            <4> QED  BY <4>1, <4>2, <4>3, <4>4, LegSeen
        <3>3. \A i \in DOMAIN legs : seen[i] \in states  BY <1>2, <3>0
        <3>4. CASE /\ Len(legs) = 1 /\ legs[1].venue = first /\ NamedLeg(legs[1])
                   /\ Opens(second) = {}
            <4>1. DOMAIN legs = {1}  BY <3>4
            <4>2. states = {seen[1]}  BY <1>2, <3>0, <4>1
            <4>3. "open" \notin states => Settled
                BY <1>5, <3>2, <3>4, <4>1, <4>2 DEF Settled
            <4>4. ASSUME verdict.action = "no_action"  PROVE Flat
                <5>1. seen[1] = "unfilled"  BY <1>4, <2>3, <4>2, <4>4
                <5>2. NothingFilled(first) /\ NothingFilled(second)
                    BY <3>2, <3>4, <4>1, <5>1 DEF NothingFilled
                <5>3. pos[first] = 0 /\ pos[second] = 0
                    BY <1>0, <1>5, <5>2 DEF VenueInv, Positions, Position
                <5> QED  BY <1>5, <5>3 DEF Flat
            <4>5. verdict.state # "hedged"  BY <1>4, <3>0, <3>4
            <4> QED  BY <1>4, <4>3, <4>4, <4>5
        <3>5. CASE /\ Len(legs) = 2 /\ legs[1].venue = first /\ NamedLeg(legs[1])
                   /\ legs[2].venue = second /\ NamedLeg(legs[2]) /\ FirstFilled /\ first = "paradex"
            <4>1. 1 \in DOMAIN legs /\ 2 \in DOMAIN legs  BY <3>5
            <4>2. "open" \notin states => Settled
                <5>1. seen[1] \in states /\ seen[2] \in states  BY <3>3, <4>1
                <5> QED  BY <1>5, <3>2, <3>5, <4>1, <5>1 DEF Settled
            <4>3. seen[1] = "filled"  BY <3>2, <3>5, <4>1 DEF FirstFilled
            <4>4. verdict.action # "no_action"  BY <1>4, <2>3, <3>3, <4>1, <4>3
            <4>5. ASSUME verdict.state = "hedged", second # "extended"  PROVE BothFilled
                <5>1. seen[2] \notin {"open", "partial_fill"}  BY <1>4, <3>3, <4>1, <4>5
                <5>2. second \in req.held  BY <1>4, <1>5, <4>5
                <5>3. ~NothingFilled(second)  BY <1>0, <5>2 DEF LearnInv, ReadInv, HeldFilled
                <5>4. \E k \in Opens(second) : Filled(second, k)
                    BY <3>2, <3>5, <4>1, <4>5, <5>1, <5>3
                <5> QED  BY <1>5, <3>5, <5>4 DEF BothFilled, FirstFilled
            <4> QED  BY <1>4, <4>2, <4>4, <4>5
        <3> QED  BY <3>1, <3>4, <3>5 DEF Named
    <2> QED  BY <2>2, <2>3
<1> QED  BY <1>6, <1>7, <1>9, <1>10, <1>11, <1>12, <1>13 DEF ReadInv

\* Nothing of the venues or the legs changes when a poll begins or ends.
LEMMA PollLegs ==
    ASSUME LearnInv, UNCHANGED <<pos, shown, orders, first, second>>,
           unclear' = unclear \/ unclear' = TRUE, ~Opening',
           entry'.kind = "open" /\ ~unclear => entry' = entry \/ Named(entry'.legs)
    PROVE  VenueInv' /\ LegInv' /\ Settled' = Settled /\ Flat' = Flat /\ BothFilled' = BothFilled
           /\ \A v : NothingFilled(v)' = NothingFilled(v)
<1>0. unclear \in BOOLEAN  BY DEF LearnInv, IInv, TypeOK
<1>1. VenueInv'  BY QuietVenues DEF LearnInv
<1>2. EntryLegs'
    <2>1. ASSUME entry'.kind = "open", ~unclear  PROVE Named(entry.legs)'
        <3>1. PICK legs : legs = entry'.legs  OBVIOUS
        <3>2. Named(legs)  BY <2>1, <3>1 DEF LearnInv, LegInv, EntryLegs
        <3>3. Named(legs)'
            <4>1. \A l : NamedLeg(l)' = NamedLeg(l)  BY DEF NamedLeg, Opens, Dead
            <4>2. FirstFilled' = FirstFilled /\ Opens(second)' = Opens(second)
                BY DEF FirstFilled, Filled, Opens
            <4>3. NamedLeg(legs[1])' = NamedLeg(legs[1]) /\ NamedLeg(legs[2])' = NamedLeg(legs[2])
                BY DEF NamedLeg, Opens, Dead
            <4> QED  BY <3>2, <4>2, <4>3 DEF Named
        <3> QED  BY <3>1, <3>3 DEF Named
    <2> QED  BY <1>0, <2>1 DEF EntryLegs
<1>3. Settled' = Settled /\ Flat' = Flat /\ BothFilled' = BothFilled
    BY DEF Settled, Flat, BothFilled, Filled, Opens, Route
<1>4. \A v : NothingFilled(v)' = NothingFilled(v)  BY DEF NothingFilled, Opens
<1> QED  BY <1>1, <1>2, <1>3, <1>4, NotOpening DEF LegInv

\* The accounts are read.
LEMMA ReadAccountsLearns ==
    ASSUME LearnInv, ReadAccounts
    PROVE  VenueInv' /\ LegInv' /\ ReadInv'
<1>0. /\ UNCHANGED <<pos, shown, orders, first, second, entry, others>> /\ req.pc = "accounts"
      /\ IInv /\ VenueInv /\ req \in Request /\ unclear \in BOOLEAN
    BY DEF ReadAccounts, route, LearnInv, IInv, TypeOK
<1>00. PICK held : held = {v \in Route : shown[v] > 0}  OBVIOUS
<1>1. PICK blocked \in BOOLEAN :
         /\ held = {v \in Route : shown[v] > 0}
         /\ req' = [req EXCEPT !.pc = "orders", !.blocked = blocked, !.held = held]
         /\ unclear' = (unclear \/ \E v \in Route : pos[v] > 0 /\ shown[v] = 0)
    BY <1>00 DEF ReadAccounts
<1>2. req'.pc = "orders" /\ req'.held = held /\ req'.then = req.then  BY <1>0, <1>1 DEF Request
<1>3. ~Opening' /\ ~Reducing'  BY <1>2 DEF Opening, Reducing
<1>4. VenueInv' /\ LegInv' /\ Settled' = Settled /\ Flat' = Flat /\ \A v : NothingFilled(v)' = NothingFilled(v)
    BY <1>0, <1>1, <1>3, PollLegs
<1>5. Route \subseteq Venue /\ \A v \in Venue : pos[v] \in Int /\ shown[v] \in Int /\ Position(v)
    BY <1>0, OrderTypes DEF VenueInv, Positions
<1>6. PastOpen'  BY <1>0, <1>1, <1>2, <1>3, <1>4 DEF LearnInv, ReadInv, PastOpen
<1>7. HeldFilled'
    <2>1. \A v \in held : v \in Route /\ ~NothingFilled(v)  BY <1>1, <1>5 DEF Position
    <2> QED  BY <1>0, <1>2, <1>4, <2>1 DEF HeldFilled, Route
<1>8. AccountsRead'
    <2>1. ASSUME ~unclear', held = {}  PROVE Flat
        <3> SUFFICES ASSUME NEW v \in Route  PROVE pos[v] = 0  BY DEF Flat
        <3>1. ~(shown[v] > 0) /\ ~(pos[v] > 0 /\ shown[v] = 0)  BY <1>1, <2>1
        <3>2. pos[v] \in Int /\ shown[v] \in Int /\ pos[v] >= 0 /\ shown[v] >= 0  BY <1>5 DEF Position
        <3> QED  BY <3>1, <3>2
    <2> QED  BY <1>2, <1>4, <2>1 DEF AccountsRead
<1>9. Learned'  BY <1>2 DEF Learned
<1>10. OnlyOpens'  BY <1>0, <1>2 DEF LearnInv, ReadInv, OnlyOpens
<1> QED  BY <1>4, <1>6, <1>7, <1>8, <1>9, <1>10 DEF ReadInv


\* The other steps of a request that does not submit.
LEMMA PollLearns ==
    ASSUME LearnInv,
           StartClose \/ Journal \/ PollAgain \/ Answer \/ ReuseCleanup
    PROVE  VenueInv' /\ LegInv' /\ ReadInv'
<1>0. /\ UNCHANGED <<pos, shown, orders, first, second, others, unclear>>
      /\ IInv /\ req \in Request /\ entry \in [kind : Kind \cup {"none"}, legs : Seq(Leg)]
    BY DEF StartClose, Journal, PollAgain, Answer, ReuseCleanup, Stay, route, LearnInv, IInv, TypeOK
<1>1. CASE StartClose
    <2>1. req'.pc = "accounts" /\ req'.then = "close"  BY <1>1, IdleTypes DEF StartClose, Request
    <2>2. entry' = entry /\ entry.kind # "none"  BY <1>1 DEF StartClose
    <2>3. ~Opening' /\ ~Reducing'  BY <2>1 DEF Opening, Reducing
    <2>4. VenueInv' /\ LegInv' /\ Settled' = Settled  BY <1>0, <2>2, <2>3, PollLegs
    <2>5. PastOpen'  BY <1>0, <2>2, <2>3, <2>4 DEF LearnInv, ReadInv, PastOpen
    <2>6. HeldFilled' /\ AccountsRead' /\ Learned' /\ OnlyOpens'
        BY <2>1 DEF HeldFilled, AccountsRead, Learned, OnlyOpens
    <2> QED  BY <2>4, <2>5, <2>6 DEF ReadInv
<1>2. CASE Journal
    <2>1. req'.pc = "accounts"
        <3>1. req' = [Idle EXCEPT !.pc = "accounts", !.step = req.step]  BY <1>2 DEF Journal
        <3> QED  BY <3>1, IdleTypes DEF Request
    <2>2. entry' = [kind |-> req.kind, legs |-> req.legs] /\ req.pc = "journal" /\ req.kind \in Kind
        BY <1>0, <1>2 DEF Journal, Request
    <2>3. entry'.kind = req.kind /\ entry'.legs = req.legs  BY <2>2
    <2>4. ~Opening' /\ ~Reducing'  BY <2>1 DEF Opening, Reducing
    <2>5. req.kind = "open" /\ ~unclear => Named(entry'.legs)
        BY <2>2, <2>3 DEF LearnInv, LegInv, OpenLegs, Opening, Working
    <2>6. VenueInv' /\ LegInv' /\ Settled' = Settled  BY <1>0, <2>3, <2>4, <2>5, PollLegs
    <2>7. req.kind # "open" => Reducing  BY <2>2 DEF Reducing
    <2>8. PastOpen'  BY <1>0, <2>2, <2>3, <2>4, <2>6, <2>7 DEF LearnInv, ReadInv, PastOpen, Kind
    <2>9. HeldFilled' /\ AccountsRead' /\ Learned'
        BY <2>1 DEF HeldFilled, AccountsRead, Learned
    <2>10. OnlyOpens'
        <3>1. req.kind = "open" => \A v \in Venue : \A i \in DOMAIN orders[v] : ~orders[v][i].reduce
            BY <1>0, <2>2 DEF IInv, OpenAlone, Opening
        <3> QED  BY <1>0, <2>3, <3>1 DEF OnlyOpens
    <2> QED  BY <2>6, <2>8, <2>9, <2>10 DEF ReadInv
<1>3. CASE PollAgain
    <2>1. req'.pc = "accounts" /\ req'.then = req.then /\ req.pc = "decide"
        BY <1>0, <1>3 DEF PollAgain, Request
    <2>2. entry' = entry  BY <1>3 DEF PollAgain, Stay
    <2>3. ~Opening' /\ ~Reducing'  BY <2>1 DEF Opening, Reducing
    <2>4. VenueInv' /\ LegInv' /\ Settled' = Settled  BY <1>0, <2>2, <2>3, PollLegs
    <2>5. PastOpen'  BY <1>0, <2>1, <2>2, <2>3, <2>4 DEF LearnInv, ReadInv, PastOpen
    <2>6. HeldFilled' /\ AccountsRead' /\ Learned'
        BY <2>1 DEF HeldFilled, AccountsRead, Learned
    <2>7. OnlyOpens'  BY <1>0, <2>1, <2>2 DEF LearnInv, ReadInv, OnlyOpens
    <2> QED  BY <2>4, <2>5, <2>6, <2>7 DEF ReadInv
<1>4. CASE Answer
    <2>1. req'.pc = "done" /\ req'.verdict = req.verdict /\ req.pc = "decide" /\ req.then # "close"
        BY <1>4, IdleTypes DEF Answer, Request
    <2>2. entry' = entry  BY <1>4 DEF Answer, Stay
    <2>3. ~Opening' /\ ~Reducing'  BY <2>1 DEF Opening, Reducing
    <2>4. VenueInv' /\ LegInv' /\ Settled' = Settled /\ Flat' = Flat /\ BothFilled' = BothFilled
        BY <1>0, <2>2, <2>3, PollLegs
    <2>5. PastOpen'  BY <1>0, <2>1, <2>2, <2>3, <2>4 DEF LearnInv, ReadInv, PastOpen
    <2>6. HeldFilled' /\ AccountsRead'  BY <2>1 DEF HeldFilled, AccountsRead
    <2>7. Learned'  BY <1>0, <2>1, <2>2, <2>4 DEF LearnInv, ReadInv, Learned
    <2>8. OnlyOpens'  BY <1>0, <2>1, <2>2 DEF LearnInv, ReadInv, OnlyOpens
    <2> QED  BY <2>4, <2>5, <2>6, <2>7, <2>8 DEF ReadInv
<1>5. CASE ReuseCleanup
    <2>1. req'.pc = "accounts"  BY <1>5, IdleTypes DEF ReuseCleanup, Request
    <2>2. entry'.kind = "cleanup" /\ req.pc = "decide" /\ req.verdict.action \in CleanupAction
        BY <1>5 DEF ReuseCleanup, MayCleanUp
    <2>3. ~Opening' /\ ~Reducing'  BY <2>1 DEF Opening, Reducing
    <2>4. VenueInv' /\ LegInv' /\ Settled' = Settled  BY <1>0, <2>2, <2>3, PollLegs
    <2>5. ~unclear => Settled  BY <2>2 DEF LearnInv, ReadInv, Learned
    <2>6. PastOpen'  BY <1>0, <2>2, <2>3, <2>4, <2>5 DEF PastOpen
    <2>7. HeldFilled' /\ AccountsRead' /\ Learned' /\ OnlyOpens'
        BY <2>1, <2>2 DEF HeldFilled, AccountsRead, Learned, OnlyOpens
    <2> QED  BY <2>4, <2>6, <2>7 DEF ReadInv
<1> QED  BY <1>1, <1>2, <1>3, <1>4, <1>5

-----------------------------------------------------------------------------
(* The invariant of what is learned, and what follows.                     *)

LEMMA InitLearnInv == Init => LearnInv
<1> SUFFICES ASSUME Init  PROVE LearnInv  OBVIOUS
<1>1. req = Idle /\ req.pc = "idle" /\ entry.kind = "none"  BY IdleTypes DEF Init, NoEntry
<1>2. \A v \in Venue : pos[v] = 0 /\ shown[v] = 0 /\ orders[v] = <<>> /\ DOMAIN orders[v] = {}
    BY DEF Init
<1>3. VenueInv
    BY <1>2 DEF VenueInv, Shapes, Positions, Position, NothingFilled, OnlyFills, Opens
<1>4. LegInv  BY <1>1 DEF LegInv, OpenSizes, OpenLegs, EntryLegs, Opening
<1>5. ReadInv
    BY <1>1 DEF ReadInv, PastOpen, Reducing, HeldFilled, AccountsRead, Learned, OnlyOpens
<1> QED  BY <1>3, <1>4, <1>5, InitIInv DEF LearnInv

LEMMA StepLearnInv == LearnInv /\ [Next]_vars => LearnInv'
<1> SUFFICES ASSUME LearnInv, [Next]_vars  PROVE LearnInv'  OBVIOUS
<1>0. IInv'  BY StepIInv DEF LearnInv
<1>1. CASE UNCHANGED vars
    <2>1. UNCHANGED <<pos, shown, orders, first, second, req, entry, closes, others, unclear>>
        BY <1>1 DEF vars, route
    <2>2. VenueInv'  BY <2>1, QuietVenues DEF LearnInv
    <2>3. Flat => Flat'  BY <2>1 DEF Flat, Route
    <2>4. LegInv' /\ ReadInv'  BY <2>1, <2>3, StillAdvances, AdvanceLearns DEF LearnInv
    <2> QED  BY <1>0, <2>2, <2>4 DEF LearnInv
<1>2. CASE \E v \in Route : VenueStep(v)  BY <1>0, <1>2, VenueLearns DEF LearnInv
<1>3. CASE PollFails \/ CleanupFails \/ RefuseClose \/ Crash
    <2>1. req' = Failed /\ UNCHANGED <<pos, shown, orders, first, second, entry, unclear>>
        BY <1>3 DEF PollFails, CleanupFails, RefuseClose, Crash, Stay, route
    <2> QED  BY <1>0, <2>1, FailedLearns DEF LearnInv
<1>4. CASE RequestStep
    <2>1. \/ VenueInv' /\ LegInv' /\ ReadInv'
          \/ PollFails \/ CleanupFails \/ RefuseClose \/ Crash
        BY <1>4, StartOpenLearns, SubmitLearns, AnswerLearns, ObserveLearns, PollLearns, BeginLearns,
           ReadAccountsLearns, ReadOrdersLearns DEF RequestStep
    <2> QED  BY <1>0, <1>3, <2>1 DEF LearnInv
<1> QED  BY <1>1, <1>2, <1>4 DEF Next

\* The inductive invariant of what a request learns: positions come from
\* orders, the legs of an open name the orders that may have filled, and a
\* verdict says something of what can still fill.
THEOREM LearnedInvariant == Spec => []LearnInv
BY InitLearnInv, StepLearnInv, PTL DEF Spec

\* A status that asks for no action means that nothing is held at either venue
\* and nothing will be, unless an answer was lost or an account or order read
\* late, whatever fills between the two reads and whoever cleans up.
THEOREM LearnedFlat == Spec => []LearnedNoActionMeansFlat
<1>1. LearnInv => LearnedNoActionMeansFlat
    BY DEF LearnInv, ReadInv, Learned, LearnedNoActionMeansFlat, Answered, Flat
<1> QED  BY <1>1, LearnedInvariant, PTL

\* An open that is reported as hedged holds the confirmed quantity at both
\* venues, unless its second leg is on Extended.
THEOREM HedgedHoldsBoth == Spec => []HedgedMeansBothFilled
<1>1. LearnInv => HedgedMeansBothFilled
    <2> SUFFICES ASSUME LearnInv, Answered, req.verdict.state = "hedged", entry.kind = "open",
                        others = {}, ~unclear, second # "extended", NEW v \in Route
                 PROVE  pos[v] = Size
        BY DEF HedgedMeansBothFilled
    <2>1. PICK j \in Opens(v) : Filled(v, j)
        BY DEF LearnInv, ReadInv, Learned, BothFilled, Answered
    <2>2. v \in Venue  BY OrderTypes DEF LearnInv
    <2>3. \A i \in DOMAIN orders[v] : ~orders[v][i].reduce
        <3> SUFFICES ASSUME NEW i \in DOMAIN orders[v], orders[v][i].reduce  PROVE FALSE  OBVIOUS
        <3>1. [venue |-> v, ord |-> i] \in others  BY <2>2 DEF LearnInv, ReadInv, OnlyOpens, Answered
        <3> QED  BY <3>1
    <2>4. Opens(v) \subseteq DOMAIN orders[v] /\ \A i \in DOMAIN orders[v] : i \in Nat /\ orders[v][i] \in Order
        BY <2>2, OrderTypes DEF LearnInv, Opens
    <2>5. \A i \in Opens(v) \ {j} : orders[v][i].filled = 0
        <3> SUFFICES ASSUME NEW i \in Opens(v), i # j  PROVE orders[v][i].filled = 0  OBVIOUS
        <3>1. orders[v][j].filled > 0  BY <2>1, <2>4 DEF Filled, Order
        <3>2. ~(j < i)  BY <2>2, <3>1 DEF LearnInv, IInv, OneOrderPerLegMayFill, Unfilled
        <3>3. i < j  BY <2>4, <3>2
        <3> QED  BY <2>2, <3>3 DEF LearnInv, IInv, OneOrderPerLegMayFill, Unfilled
    <2>6. pos[v] = orders[v][j].filled
        BY <2>2, <2>3, <2>5 DEF LearnInv, VenueInv, Positions, Position, OnlyFills
    <2>7. orders[v][j].size = Size
        BY <2>2, <2>3, <2>4 DEF LearnInv, VenueInv, Shapes, Shaped
    <2> QED  BY <2>1, <2>6, <2>7 DEF Filled
<1> QED  BY <1>1, LearnedInvariant, PTL
=============================================================================
