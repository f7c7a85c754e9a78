-------------------------- MODULE IncludedAiProofs --------------------------
(***************************************************************************)
(* Theorems about IncludedAi, for any requests, holds, usages, windows,    *)
(* clock and number of faults.                                             *)
(*                                                                         *)
(* ServedIsCharged: what was served is charged or stays held.  What makes  *)
(* it inductive is what is on its way while a request ends (Inv).          *)
(* BooksBalance: windows and days add up to their requests.  What makes it *)
(* inductive is when a reservation was made: in windows that began no      *)
(* later than those there are now, so a fresh window is nobody's yet       *)
(* (BookInv).                                                              *)
(***************************************************************************)
EXTENDS IncludedAi, SumLemmas, TLAPS

Windows == [start : Int, end : Int, used : Int, held : Int]
Reservations == [day : Int, start : [Kinds -> Int], settled : BOOLEAN,
                 failed : BOOLEAN, charged : Nat]
Handlers == [pc : {"none", "asked", "upstream", "refused", "streamed", "over"},
             now : Nat, settled : BOOLEAN, served : Nat]
Calls == [failed : BOOLEAN, used : Nat, again : BOOLEAN]

Shape ==
    /\ clock \in Nat
    /\ win \in [Kinds -> Windows]
    /\ resv \in [Requests -> Reservations]
    /\ req \in [Requests -> Handlers]
    /\ call \in [Requests -> [Callers -> Calls]]

(* A settlement on its way is free for a refusal only, which is not repeated. *)
Owed(r, c) ==
    call[r][c] # NoCall =>
        IF call[r][c].failed THEN req[r].pc = "refused" /\ ~call[r][c].again
        ELSE call[r][c].used > 0 /\ call[r][c].used >= req[r].served

NoneOnTheWay(r) == \A c \in Callers : call[r][c] = NoCall

(* Until a request ends nothing is settled, and nothing is on its way.       *)
Untouched(r) ==
    req[r].pc \in {"none", "asked", "upstream"} =>
        ~resv[r].settled /\ req[r].served = 0 /\ NoneOnTheWay(r)

(* Nobody cancels a refused request, so its one free settlement is the last. *)
RefusalIsLast(r) ==
    /\ req[r].pc = "refused" => call[r]["cancel"] = NoCall
    /\ resv[r].settled /\ resv[r].failed => NoneOnTheWay(r)

Charged(r) ==
    resv[r].settled =>
        IF resv[r].failed THEN req[r].pc = "refused"
        ELSE resv[r].charged > 0 /\ resv[r].charged >= req[r].served

Accounted(r) ==
    /\ Untouched(r)
    /\ \A c \in Callers : Owed(r, c)
    /\ RefusalIsLast(r)
    /\ Charged(r)

Inv == Shape /\ \A r \in Requests : Accounted(r)

-----------------------------------------------------------------------------
(* Holds and usages are amounts.                                            *)
LEMMA Amounts == Hold \in Nat /\ Hold > 0 /\ \A u \in Usages : u \in Nat /\ u > 0
  BY AmountsAssumption

(* No call is a call of the shape that a settlement has.                    *)
LEMMA NoCallShape == NoCall \in Calls
  BY DEF NoCall, Calls

(* No reservation is one that nothing was settled for.                      *)
LEMMA NoReservationShape ==
    /\ NoReservation \in Reservations
    /\ ~NoReservation.settled
<1>1. -1 \in Int /\ 0 \in Nat
  OBVIOUS
<1>2. [k \in Kinds |-> -1] \in [Kinds -> Int]
  BY <1>1
<1> QED
  BY <1>1, <1>2, Zenon DEF NoReservation, Reservations

(* A request whose handler, calls and reservation a step leaves alone stays   *)
(* accounted for.                                                           *)
LEMMA OthersKept ==
    ASSUME NEW r \in Requests, Accounted(r),
           req'[r] = req[r], call'[r] = call[r], resv'[r] = resv[r]
    PROVE  Accounted(r)'
  BY DEF Accounted, Untouched, RefusalIsLast, Charged, NoneOnTheWay, Owed

-----------------------------------------------------------------------------
(* Before the first request there is nothing to account for.                *)
LEMMA InvInit == Init => Inv
<1> SUFFICES ASSUME Init PROVE Inv
  OBVIOUS
<1>1. clock \in Nat
  BY DEF Init
<1>2. win \in [Kinds -> Windows]
  BY DEF Init, NoWindow, Windows
<1>3. resv \in [Requests -> Reservations]
  BY NoReservationShape, Zenon DEF Init
<1>4. req \in [Requests -> Handlers]
  BY DEF Init, Handlers
<1>5. call \in [Requests -> [Callers -> Calls]]
  BY NoCallShape, Zenon DEF Init
<1>6. ASSUME NEW r \in Requests PROVE Accounted(r)
  <2>1. req[r].pc = "none" /\ req[r].served = 0
    BY DEF Init
  <2>2. ~resv[r].settled
    BY NoReservationShape, Zenon DEF Init
  <2>3. NoneOnTheWay(r)
    BY DEF Init, NoneOnTheWay
  <2> QED
    BY <2>1, <2>2, <2>3
    DEF Accounted, Untouched, RefusalIsLast, Charged, NoneOnTheWay, Owed
<1> QED
  BY <1>1, <1>2, <1>3, <1>4, <1>5, <1>6 DEF Inv, Shape

-----------------------------------------------------------------------------
(* A reservation is made for its own request, and is not settled.           *)
LEMMA Reservation ==
    ASSUME Shape, NEW r \in Requests, NEW ms \in SessionMs, ReserveUnlimited(r, ms)
    PROVE  /\ win' \in [Kinds -> Windows]
           /\ resv' \in [Requests -> Reservations]
           /\ ~resv'[r].settled
           /\ \A x \in Requests \ {r} : resv'[x] = resv[x]
<1> DEFINE now == req[r].now
           length(k) == IF k = "session" THEN ms ELSE WeekMs
           opened == [k \in Kinds |-> Opened(win[k], now, length(k))]
           today == now \div DayMs
           starts == [k \in Kinds |-> opened[k].start]
           made == [NoReservation EXCEPT !.day = today, !.start = starts]
<1>1. now \in Nat /\ ms \in Nat /\ WeekMs \in Nat /\ today \in Int
  <2>1. now \in Nat
    BY DEF Shape, Handlers
  <2>2. ms \in Nat /\ WeekMs \in Nat /\ DayMs \in Nat /\ DayMs > 0
    BY LengthsAssumption
  <2> QED
    BY <2>1, <2>2
<1>2. opened \in [Kinds -> Windows]
  <2>1. ASSUME NEW k \in Kinds PROVE Opened(win[k], now, length(k)) \in Windows
    BY <1>1 DEF Shape, Windows, Opened
  <2> QED
    BY <2>1
<1>3. win' = [k \in Kinds |-> [opened[k] EXCEPT !.held = @ + Hold]]
  BY DEF ReserveUnlimited
<1>4. resv' = [resv EXCEPT ![r] = made]
  BY DEF ReserveUnlimited
<1> HIDE DEF opened, today, now
<1>5. starts \in [Kinds -> Int]
  BY <1>2 DEF Windows
<1>6. ASSUME NEW k \in Kinds
      PROVE  [opened[k] EXCEPT !.held = @ + Hold] \in Windows
  BY <1>2, Amounts DEF Windows
<1> HIDE DEF starts
<1>7. made \in Reservations /\ ~made.settled
  BY <1>1, <1>5, NoReservationShape, Zenon DEF Reservations
<1> HIDE DEF made
<1> QED
  BY <1>3, <1>4, <1>6, <1>7 DEF Shape

(* A settlement settles its own request at most, and only the first time.    *)
LEMMA Settlement ==
    ASSUME Shape, NEW r \in Requests, NEW what \in Calls,
           SettleIncluded(r, what) \/ UNCHANGED <<win, day, resv>>
    PROVE  /\ win' \in [Kinds -> Windows]
           /\ resv' \in [Requests -> Reservations]
           /\ \A x \in Requests \ {r} : resv'[x] = resv[x]
           /\ \/ resv'[r] = resv[r]
              \/ /\ ~resv[r].settled
                 /\ resv'[r].failed = what.failed
                 /\ resv'[r].charged = what.used
<1>1. CASE UNCHANGED <<win, day, resv>>
  BY <1>1 DEF Shape
<1>2. CASE SettleIncluded(r, what) /\ Settles(r)
  <2>1. win' \in [Kinds -> Windows]
    <3>1. win' = [k \in Kinds |->
                 IF HeldIn(r, k)
                 THEN [win[k] EXCEPT !.held = AtLeastZero(@ - Hold),
                                     !.used = @ + what.used]
                 ELSE win[k]]
      BY <1>2 DEF SettleIncluded
    <3>2. ASSUME NEW k \in Kinds
          PROVE  [win[k] EXCEPT !.held = AtLeastZero(@ - Hold),
                                !.used = @ + what.used] \in Windows
      <4>1. win[k] \in Windows /\ win[k].held \in Int /\ win[k].used \in Int
        BY DEF Shape, Windows
      <4>2. AtLeastZero(win[k].held - Hold) \in Int /\ win[k].used + what.used \in Int
        BY <4>1, Amounts DEF AtLeastZero, Calls
      <4> QED
        BY <4>1, <4>2, Zenon DEF Windows
    <3> QED
      BY <3>1, <3>2 DEF Shape
  <2>2. resv' = [resv EXCEPT ![r] = [resv[r] EXCEPT
                    !.settled = TRUE, !.failed = what.failed, !.charged = what.used]]
    BY <1>2, Zenon DEF SettleIncluded
  <2>3. resv[r] \in Reservations /\ what.failed \in BOOLEAN /\ what.used \in Nat
    BY Zenon DEF Shape, Calls
  <2> DEFINE now == [resv[r] EXCEPT !.settled = TRUE, !.failed = what.failed,
                                    !.charged = what.used]
  <2>4. /\ now \in Reservations
        /\ now.failed = what.failed /\ now.charged = what.used
    BY <2>3, Zenon DEF Reservations
  <2> HIDE DEF now
  <2>5. ~resv[r].settled
    BY <1>2 DEF Settles
  <2> QED
    BY <2>1, <2>2, <2>4, <2>5 DEF Shape, now
<1> QED
  BY <1>1, <1>2 DEF SettleIncluded

(* The relay's settle puts one call of one request on its way, or none.       *)
LEMMA SettleCalls ==
    ASSUME call \in [Requests -> [Callers -> Calls]],
           NEW r \in Requests, NEW c \in Callers, NEW what \in Calls,
           Settle(r, c, what)
    PROVE  /\ call' \in [Requests -> [Callers -> Calls]]
           /\ \A x \in Requests \ {r} : call'[x] = call[x]
           /\ \A d \in Callers \ {c} : call'[r][d] = call[r][d]
           /\ call'[r][c] \in {NoCall, what}
<1> DEFINE new == IF req[r].settled THEN NoCall ELSE what
<1>1. new \in Calls /\ new \in {NoCall, what}
  BY NoCallShape
<1>2. call' = [call EXCEPT ![r] = [call[r] EXCEPT ![c] = new]]
  BY DEF Settle
<1> HIDE DEF new
<1> QED
  BY <1>1, <1>2

(* The settlements that are asked for.                                      *)
LEMMA Settlements ==
    ASSUME NEW n \in Nat, NEW b \in BOOLEAN
    PROVE  /\ [NoCall EXCEPT !.failed = TRUE] \in Calls
           /\ [NoCall EXCEPT !.failed = TRUE].failed
           /\ ~[NoCall EXCEPT !.failed = TRUE].again
           /\ [NoCall EXCEPT !.used = n, !.again = b] \in Calls
           /\ ~[NoCall EXCEPT !.used = n, !.again = b].failed
           /\ [NoCall EXCEPT !.used = n, !.again = b].used = n
           /\ [NoCall EXCEPT !.used = n] \in Calls
           /\ ~[NoCall EXCEPT !.used = n].failed
           /\ [NoCall EXCEPT !.used = n].used = n
           /\ [[NoCall EXCEPT !.used = n] EXCEPT !.again = TRUE] \in Calls
           /\ ~[[NoCall EXCEPT !.used = n] EXCEPT !.again = TRUE].failed
           /\ [[NoCall EXCEPT !.used = n] EXCEPT !.again = TRUE].used = n
  BY DEF NoCall, Calls

(* How a request that is upstream may end.                                  *)
Ending(pc, served, what) ==
    IF what.failed THEN pc = "refused" /\ ~what.again /\ served = 0
    ELSE what.used > 0 /\ what.used >= served

(* What may be charged is an amount, and enough.                            *)
LEMMA ChargesEnough ==
    ASSUME Shape, NEW r \in Requests, NEW u \in Charges(r)
    PROVE  u \in Nat /\ u > 0 /\ u >= req[r].served
  BY Amounts DEF Charges, Shape, Handlers

(* Where a request's handler, calls and reservation are typed.               *)
LEMMA Typed ==
    ASSUME Shape, NEW r \in Requests
    PROVE  /\ req[r] \in Handlers /\ resv[r] \in Reservations
           /\ call[r] \in [Callers -> Calls]
  BY DEF Shape

-----------------------------------------------------------------------------
(* Every step keeps every request accounted for.                            *)
LEMMA InvStep == Inv /\ [Next]_vars => Inv'
<1> SUFFICES ASSUME Inv, [Next]_vars PROVE Inv'
  OBVIOUS
<1> USE Amounts
<1>0. Shape /\ \A x \in Requests : Accounted(x)
  BY DEF Inv
<1>1. CASE UNCHANGED vars
  BY <1>0, <1>1, OthersKept DEF vars, Inv, Shape
<1>2. CASE Tick
  BY <1>0, <1>2, OthersKept DEF Tick, Inv, Shape
<1>a. ASSUME NEW r \in Requests, Shape', Accounted(r)',
             \A x \in Requests \ {r} : /\ req'[x] = req[x] /\ call'[x] = call[x]
                                       /\ resv'[x] = resv[x]
      PROVE  Inv'
  BY <1>0, <1>a, OthersKept DEF Inv
<1>3. ASSUME NEW r \in Requests, Ask(r) PROVE Inv'
  <2>1. req' = [req EXCEPT ![r] = [req[r] EXCEPT !.pc = "asked", !.now = clock]]
    BY <1>3 DEF Ask
  <2>2. Shape'
    BY <1>0, <1>3, <2>1 DEF Ask, Shape, Handlers
  <2>3. req'[r].pc = "asked" /\ req'[r].served = req[r].served
    BY <1>0, <2>1 DEF Shape, Handlers
  <2>4. Accounted(r)'
    BY <1>0, <1>3, <2>3
    DEF Ask, Accounted, Untouched, RefusalIsLast, Charged, NoneOnTheWay, Owed
  <2> QED
    BY <1>0, <1>3, <1>a, <2>1, <2>2, <2>4 DEF Ask, Shape
<1>4. ASSUME NEW r \in Requests, Reserve(r) PROVE Inv'
  <2>1. PICK pc \in {"upstream", "over"} :
            req' = [req EXCEPT ![r] = [req[r] EXCEPT !.pc = pc]]
    BY <1>4 DEF Reserve
  <2>2. PICK ms \in SessionMs : ReserveUnlimited(r, ms)
    BY <1>4 DEF Reserve
  <2>3. /\ win' \in [Kinds -> Windows] /\ resv' \in [Requests -> Reservations]
        /\ ~resv'[r].settled /\ \A x \in Requests \ {r} : resv'[x] = resv[x]
    BY <1>0, <2>2, Reservation
  <2>5. req' \in [Requests -> Handlers] /\ req'[r].pc = pc
        /\ req'[r].served = req[r].served
    BY <1>0, <2>1 DEF Shape, Handlers
  <2>6. req[r].pc = "asked" /\ UNCHANGED <<clock, call>>
    BY <1>4 DEF Reserve
  <2>7. Accounted(r)'
    BY <1>0, <2>3, <2>5, <2>6
    DEF Accounted, Untouched, RefusalIsLast, Charged, NoneOnTheWay, Owed
  <2> QED
    BY <1>0, <1>a, <2>1, <2>3, <2>5, <2>6, <2>7 DEF Shape
<1>5. ASSUME NEW r \in Requests, ReserveFails(r) PROVE Inv'
  <2>1. req' = [req EXCEPT ![r] = [req[r] EXCEPT !.pc = "over"]]
    BY <1>5 DEF ReserveFails
  <2>2. Shape'
    BY <1>0, <1>5, <2>1 DEF ReserveFails, Shape, Handlers
  <2>3. req'[r].pc = "over" /\ req'[r].served = req[r].served
    BY <1>0, <2>1 DEF Shape, Handlers
  <2>4. Accounted(r)'
    BY <1>0, <1>5, <2>3
    DEF ReserveFails, Accounted, Untouched, RefusalIsLast, Charged,
        NoneOnTheWay, Owed
  <2> QED
    BY <1>0, <1>5, <1>a, <2>1, <2>2, <2>4 DEF ReserveFails, Shape
<1>b. ASSUME NEW r \in Requests, req[r].pc = "upstream",
             NEW pc \in {"refused", "streamed", "over"}, NEW served \in Nat,
             NEW what \in Calls,
             Ending(pc, served, what),
             req' = [req EXCEPT ![r] = [req[r] EXCEPT !.pc = pc, !.served = served]],
             Settle(r, "pull", what),
             UNCHANGED <<clock, win, resv>>
      PROVE  Inv'
  <2>1. /\ call' \in [Requests -> [Callers -> Calls]]
        /\ \A x \in Requests \ {r} : call'[x] = call[x]
        /\ call'[r]["cancel"] = call[r]["cancel"]
        /\ call'[r]["pull"] \in {NoCall, what}
    BY <1>0, <1>b, SettleCalls DEF Shape, Callers
  <2>2. /\ req' \in [Requests -> Handlers]
        /\ req'[r].pc = pc /\ req'[r].served = served
    BY <1>0, <1>b DEF Shape, Handlers
  <2>3. NoneOnTheWay(r) /\ ~resv'[r].settled
    BY <1>0, <1>b DEF Accounted, Untouched
  <2>4. call'[r]["cancel"] = NoCall
    BY <2>1, <2>3 DEF NoneOnTheWay, Callers
  <2>5. Accounted(r)'
    BY <1>b, <2>1, <2>2, <2>3, <2>4
    DEF Ending, Accounted, Untouched, RefusalIsLast, Charged, Owed, Callers
  <2> QED
    BY <1>0, <1>a, <1>b, <2>1, <2>2, <2>5 DEF Shape
<1>c. ASSUME NEW r \in Requests, req[r].pc = "upstream"
      PROVE  /\ req[r].served = 0
             /\ \A pc : [req EXCEPT ![r].pc = pc]
                        = [req EXCEPT ![r] = [req[r] EXCEPT !.pc = pc, !.served = 0]]
  <2>1. req[r].served = 0 /\ req[r] \in Handlers
    BY <1>0, <1>c, Typed DEF Accounted, Untouched
  <2>2. ASSUME NEW pc
        PROVE  [req[r] EXCEPT !.pc = pc] = [req[r] EXCEPT !.pc = pc, !.served = 0]
    BY <2>1 DEF Handlers
  <2> QED
    BY <2>1, <2>2
<1>6. ASSUME NEW r \in Requests, Refuse(r) PROVE Inv'
  <2> DEFINE what == [NoCall EXCEPT !.failed = TRUE]
  <2>1. what \in Calls /\ what.failed /\ ~what.again
    BY Settlements
  <2>2. req[r].pc = "upstream" /\ Settle(r, "pull", what)
        /\ UNCHANGED <<clock, win, resv>>
    BY <1>6 DEF Refuse
  <2>3. req' = [req EXCEPT ![r] = [req[r] EXCEPT !.pc = "refused", !.served = 0]]
    BY <1>6, <1>c DEF Refuse
  <2> HIDE DEF what
  <2>4. Ending("refused", 0, what)
    BY <2>1 DEF Ending
  <2> QED
    BY <1>b, <2>1, <2>2, <2>3, <2>4
<1>7. ASSUME NEW r \in Requests, Finish(r) PROVE Inv'
  <2>1. PICK used \in Usages, stream \in BOOLEAN :
          /\ req' = [req EXCEPT ![r].pc = IF stream THEN "streamed" ELSE "over",
                                ![r].served = used]
          /\ Settle(r, "pull", [NoCall EXCEPT !.used = used, !.again = stream])
    BY <1>7 DEF Finish
  <2> DEFINE pc == IF stream THEN "streamed" ELSE "over"
  <2>2. req' = [req EXCEPT ![r] = [req[r] EXCEPT !.pc = pc, !.served = used]]
    BY <2>1
  <2>3. pc \in {"refused", "streamed", "over"} /\ used \in Nat /\ used > 0
    OBVIOUS
  <2> DEFINE what == [NoCall EXCEPT !.used = used, !.again = stream]
  <2>4. what \in Calls /\ ~what.failed /\ what.used = used
    BY <2>3, Settlements
  <2>5. Settle(r, "pull", what)
    BY <2>1
  <2>6. req[r].pc = "upstream" /\ UNCHANGED <<clock, win, resv>>
    BY <1>7 DEF Finish
  <2> HIDE DEF pc, what
  <2>7. Ending(pc, used, what)
    BY <2>3, <2>4 DEF Ending
  <2> QED
    BY <1>b, <2>2, <2>3, <2>4, <2>5, <2>6, <2>7, Zenon
<1>8. ASSUME NEW r \in Requests, Breaks(r) PROVE Inv'
  <2> DEFINE what == [NoCall EXCEPT !.used = Hold]
  <2>1. what \in Calls /\ ~what.failed /\ what.used = Hold
    BY Settlements
  <2>2. req[r].pc = "upstream" /\ Settle(r, "pull", what)
        /\ UNCHANGED <<clock, win, resv>>
    BY <1>8 DEF Breaks
  <2>3. req' = [req EXCEPT ![r] = [req[r] EXCEPT !.pc = "over", !.served = 0]]
    BY <1>8, <1>c DEF Breaks
  <2> HIDE DEF what
  <2>4. Ending("over", 0, what)
    BY <2>1 DEF Ending
  <2> QED
    BY <1>b, <2>1, <2>2, <2>3, <2>4
<1>9. ASSUME NEW r \in Requests, Cancel(r) PROVE Inv'
  <2>1. /\ req[r].pc \in {"upstream", "streamed"}
        /\ req' = [req EXCEPT ![r] = [req[r] EXCEPT !.pc = "over"]]
        /\ UNCHANGED <<clock, win, resv>>
    BY <1>9 DEF Cancel
  <2>2. PICK used \in Charges(r) :
          call' = [call EXCEPT ![r] = [c \in Callers |->
                     IF req[r].settled THEN NoCall
                     ELSE IF c = "cancel" THEN [NoCall EXCEPT !.used = used]
                     ELSE IF req[r].pc = "upstream"
                     THEN [[NoCall EXCEPT !.used = used] EXCEPT !.again = TRUE]
                     ELSE call[r][c]]]
    BY <1>9 DEF Cancel
  <2> DEFINE what == [NoCall EXCEPT !.used = used]
             twice == [[NoCall EXCEPT !.used = used] EXCEPT !.again = TRUE]
  <2>3. used \in Nat /\ used > 0 /\ used >= req[r].served
    BY <1>0, ChargesEnough
  <2>4. /\ what \in Calls /\ ~what.failed /\ what.used = used
        /\ twice \in Calls /\ ~twice.failed /\ twice.used = used
    BY <2>3, Settlements
  <2> HIDE DEF what, twice
  <2> DEFINE each == [c \in Callers |-> IF req[r].settled THEN NoCall
                        ELSE IF c = "cancel" THEN what
                        ELSE IF req[r].pc = "upstream" THEN twice
                        ELSE call[r][c]]
  <2>5. call' = [call EXCEPT ![r] = each]
    BY <2>2, Zenon DEF what, twice
  <2>6. /\ call' \in [Requests -> [Callers -> Calls]]
        /\ \A x \in Requests \ {r} : call'[x] = call[x]
        /\ \A c \in Callers : call'[r][c] \in {NoCall, what, twice, call[r][c]}
    BY <1>0, <2>4, <2>5, NoCallShape DEF Shape
  <2>7. /\ req' \in [Requests -> Handlers]
        /\ req'[r].pc = "over" /\ req'[r].served = req[r].served
    BY <1>0, <2>1 DEF Shape, Handlers
  <2>8. ASSUME NEW c \in Callers PROVE  Owed(r, c)'
    <3>1. CASE call'[r][c] \in {what, twice}
      BY <2>3, <2>4, <2>7, <3>1 DEF Owed
    <3>2. CASE call'[r][c] = call[r][c]
      BY <1>0, <2>1, <2>7, <2>8, <3>2 DEF Owed, Accounted
    <3> QED
      BY <2>6, <3>1, <3>2 DEF Owed
  <2>9. ~(resv[r].settled /\ resv[r].failed)
    BY <1>0, <2>1 DEF Accounted, Charged
  <2>10. Accounted(r)'
    BY <1>0, <2>1, <2>7, <2>8, <2>9
    DEF Accounted, Untouched, RefusalIsLast, Charged
  <2> QED
    BY <1>0, <1>a, <2>1, <2>6, <2>7, <2>10 DEF Shape
<1>10. ASSUME NEW r \in Requests, WorkerDies(r) PROVE Inv'
  <2>1. req' = [req EXCEPT ![r] = [req[r] EXCEPT !.pc = "over"]]
    BY <1>10 DEF WorkerDies
  <2>2. call' = [call EXCEPT ![r] = [c \in Callers |-> NoCall]]
    BY <1>10 DEF WorkerDies
  <2>3. /\ req' \in [Requests -> Handlers]
        /\ req'[r].pc = "over" /\ req'[r].served = req[r].served
    BY <1>0, <2>1 DEF Shape, Handlers
  <2>4. call' \in [Requests -> [Callers -> Calls]] /\ NoneOnTheWay(r)'
    BY <1>0, <2>2, NoCallShape DEF Shape, NoneOnTheWay
  <2>5. ~NoneOnTheWay(r) \/ req[r].pc = "upstream"
    BY <1>10 DEF WorkerDies, NoneOnTheWay
  <2>6. ~(resv[r].settled /\ resv[r].failed)
    BY <1>0, <2>5 DEF Accounted, Untouched, RefusalIsLast
  <2>7. UNCHANGED <<clock, win, resv>>
    BY <1>10 DEF WorkerDies
  <2>8. Accounted(r)'
    BY <1>0, <2>3, <2>4, <2>6, <2>7
    DEF Accounted, Untouched, RefusalIsLast, Charged, NoneOnTheWay, Owed
  <2> QED
    BY <1>0, <1>a, <2>1, <2>2, <2>3, <2>4, <2>7, <2>8 DEF Shape
<1>11. ASSUME NEW r \in Requests, NEW c \in Callers,
              SettleDone(r, c) \/ SettleFails(r, c)
       PROVE  Inv'
  <2> DEFINE what == call[r][c]
  <2>1. /\ what # NoCall /\ UNCHANGED clock
        /\ SettleIncluded(r, what) \/ UNCHANGED <<win, day, resv>>
    BY <1>11 DEF SettleDone, SettleFails
  <2>2. /\ what \in Calls
        /\ IF what.failed THEN req[r].pc = "refused" /\ ~what.again
           ELSE what.used > 0 /\ what.used >= req[r].served
    BY <1>0, <2>1 DEF Shape, Accounted, Owed
  <2>3. /\ win' \in [Kinds -> Windows]
        /\ resv' \in [Requests -> Reservations]
        /\ \A x \in Requests \ {r} : resv'[x] = resv[x]
        /\ \/ resv'[r] = resv[r]
           \/ /\ ~resv[r].settled
              /\ resv'[r].failed = what.failed
              /\ resv'[r].charged = what.used
    BY <1>0, <2>1, <2>2, Settlement
  <2>4. /\ req' \in [Requests -> Handlers]
        /\ req'[r].pc = req[r].pc /\ req'[r].served = req[r].served
        /\ \A x \in Requests \ {r} : req'[x] = req[x]
    <3>1. CASE UNCHANGED req
      BY <1>0, <3>1 DEF Shape
    <3>2. CASE req' = [req EXCEPT ![r] = [req[r] EXCEPT !.settled = TRUE]]
      BY <1>0, <3>2 DEF Shape, Handlers
    <3> QED
      BY <1>11, <3>1, <3>2 DEF SettleDone, SettleFails
  <2>5. /\ call' \in [Requests -> [Callers -> Calls]]
        /\ \A x \in Requests \ {r} : call'[x] = call[x]
        /\ \A d \in Callers \ {c} : call'[r][d] = call[r][d]
        /\ call'[r][c] # NoCall =>
              /\ what.again /\ ~call'[r][c].failed
              /\ call'[r][c].used > 0 /\ call'[r][c].used >= req[r].served
    <3>1. CASE call' = [call EXCEPT ![r] = [call[r] EXCEPT ![c] = NoCall]]
      BY <1>0, <3>1, NoCallShape DEF Shape
    <3>2. CASE /\ what.again
               /\ \E used \in Charges(r) : Settle(r, c, [NoCall EXCEPT !.used = used])
      <4>1. PICK used \in Charges(r) : Settle(r, c, [NoCall EXCEPT !.used = used])
        BY <3>2
      <4> DEFINE next == [NoCall EXCEPT !.used = used]
      <4>2. used \in Nat /\ used > 0 /\ used >= req[r].served
        BY <1>0, ChargesEnough
      <4>3. next \in Calls /\ ~next.failed /\ next.used = used
        BY <4>2, Settlements
      <4>4. Settle(r, c, next)
        BY <4>1
      <4> HIDE DEF next
      <4> QED
        BY <1>0, <3>2, <4>2, <4>3, <4>4, SettleCalls DEF Shape
    <3> QED
      BY <1>11, <3>1, <3>2 DEF SettleDone, SettleFails
  <2>6. req[r].pc \notin {"none", "asked", "upstream"}
    BY <1>0, <2>1 DEF Accounted, Untouched, NoneOnTheWay
  <2>7. ASSUME NEW d \in Callers PROVE  Owed(r, d)'
    BY <1>0, <2>4, <2>5, <2>7 DEF Owed, Accounted
  <2>8. req[r].pc = "refused" => call'[r]["cancel"] = NoCall
    <3> SUFFICES ASSUME req[r].pc = "refused" PROVE call'[r]["cancel"] = NoCall
      OBVIOUS
    <3>1. c = "pull"
      BY <1>0, <2>1 DEF Callers, Accounted, RefusalIsLast
    <3> QED
      BY <1>0, <2>5, <3>1 DEF Callers, Accounted, RefusalIsLast
  <2>9. ASSUME resv'[r].settled, resv'[r].failed PROVE NoneOnTheWay(r)'
    <3>1. ~(resv[r].settled /\ resv[r].failed)
      BY <1>0, <2>1 DEF Accounted, RefusalIsLast, NoneOnTheWay
    <3>2. what.failed
      BY <2>3, <2>9, <3>1
    <3>3. req[r].pc = "refused" /\ ~what.again
      BY <2>2, <3>2 DEF Owed
    <3> QED
      BY <1>0, <2>1, <2>5, <2>8, <3>3 DEF NoneOnTheWay, Accounted, RefusalIsLast, Callers
  <2>10. Charged(r)'
    <3>1. CASE resv'[r] = resv[r]
      BY <1>0, <2>4, <3>1 DEF Accounted, Charged
    <3>2. CASE resv'[r].failed = what.failed /\ resv'[r].charged = what.used
      BY <2>2, <2>4, <3>2 DEF Owed, Charged
    <3> QED
      BY <2>3, <3>1, <3>2
  <2>11. Accounted(r)'
    BY <2>4, <2>6, <2>7, <2>8, <2>9, <2>10 DEF Accounted, Untouched, RefusalIsLast
  <2> QED
    BY <1>0, <1>a, <2>1, <2>3, <2>4, <2>5, <2>11 DEF Shape
<1> QED
  BY <1>1, <1>2, <1>3, <1>4, <1>5, <1>6, <1>7, <1>8, <1>9, <1>10, <1>11 DEF Next

(* Only a request the provider refused is free, whatever breaks, dies or is   *)
(* cancelled at any moment, however late and however often it is settled    *)
(* (20261018184813_free_ai_credits.sql:90, tagflow.ts:497).                 *)
THEOREM ServedIsCharged == Spec => []NothingServedIsFree
<1>1. Inv => NothingServedIsFree
  BY DEF Inv, Accounted, Charged, NothingServedIsFree
<1> QED
  BY <1>1, InvInit, InvStep, PTL DEF Spec
(* What the requests rs hold, were charged and count for, in the             *)
(* reservations v.                                                          *)
Holding(v, rs) == Hold * Cardinality({r \in rs : ~v[r].settled})
Billed(v, rs) == SumFunctionOnSet([r \in Requests |-> v[r].charged], rs)
Counted(v, rs) == Cardinality({r \in rs : ~v[r].failed})

(* The day a time before the last one belongs to is one there is a row for.  *)
LEMMA DayOfTime ==
    ASSUME NEW n \in Nat, n <= MaxTime
    PROVE  n \div DayMs \in Days
<1>1. DayMs \in Nat /\ DayMs > 0 /\ MaxTime \in Nat
  BY LengthsAssumption, BoundsAssumption
<1> DEFINE p == n \div DayMs
           q == MaxTime \div DayMs
<1>2. p \in Nat /\ q \in Nat /\ DayMs * p <= n /\ MaxTime < DayMs * (q + 1)
  BY <1>1
<1>3. p < q + 1
  <2>1. DayMs * p < DayMs * (q + 1)
    BY <1>1, <1>2
  <2> HIDE DEF p, q
  <2> QED
    BY <1>1, <1>2, <2>1
<1> QED
  BY <1>2, <1>3 DEF Days

(* Requests that are none hold nothing and were charged nothing.             *)
LEMMA NoRequests ==
    ASSUME NEW v
    PROVE  Holding(v, {}) = 0 /\ Billed(v, {}) = 0 /\ Counted(v, {}) = 0
<1>1. Cardinality({}) = 0
  BY FS_EmptySet
<1>2. \A P : {r \in {} : P} = {}
  OBVIOUS
<1>3. {r \in {} : ~v[r].settled} = {} /\ {r \in {} : ~v[r].failed} = {}
  OBVIOUS
<1> QED
  BY <1>1, <1>3, SumEmpty, Amounts DEF Holding, Billed, Counted

(* What they hold, were charged and count for are amounts.                   *)
LEMMA BooksType ==
    ASSUME NEW v \in [Requests -> Reservations], NEW rs \in SUBSET Requests
    PROVE  Holding(v, rs) \in Nat /\ Billed(v, rs) \in Nat /\ Counted(v, rs) \in Nat
<1>1. IsFiniteSet(rs)
  BY RequestsAssumption, FS_Subset
<1>2. Counted(v, rs) \in Nat
  BY <1>1, FS_Subset, FS_CardinalityType DEF Counted
<1>3. Holding(v, rs) \in Nat
  <2>1. Cardinality({r \in rs : ~v[r].settled}) \in Nat
    BY <1>1, FS_Subset, FS_CardinalityType
  <2> QED
    BY <2>1, Amounts DEF Holding
<1>4. Billed(v, rs) \in Nat
  <2> DEFINE f == [r \in Requests |-> v[r].charged]
  <2>1. \A r \in rs : f[r] \in Int /\ f[r] >= 0
    BY DEF Reservations
  <2> HIDE DEF f
  <2>2. SumFunctionOnSet(f, rs) \in Int /\ SumFunctionOnSet(f, rs) >= 0
    BY <1>1, <2>1, SumType
  <2> QED
    BY <2>2 DEF Billed, f
<1> QED
  BY <1>2, <1>3, <1>4

(* Requests whose reservations do not change: neither does what they hold.    *)
LEMMA BooksSame ==
    ASSUME NEW v, NEW w, NEW rs \in SUBSET Requests, \A x \in rs : w[x] = v[x]
    PROVE  /\ Holding(w, rs) = Holding(v, rs) /\ Billed(w, rs) = Billed(v, rs)
           /\ Counted(w, rs) = Counted(v, rs)
<1>1. IsFiniteSet(rs)
  BY RequestsAssumption, FS_Subset
<1>2. /\ {r \in rs : ~w[r].settled} = {r \in rs : ~v[r].settled}
      /\ {r \in rs : ~w[r].failed} = {r \in rs : ~v[r].failed}
  OBVIOUS
<1>3. Billed(w, rs) = Billed(v, rs)
  <2> DEFINE f == [r \in Requests |-> v[r].charged]
             g == [r \in Requests |-> w[r].charged]
  <2>1. \A x \in rs : f[x] = g[x]
    OBVIOUS
  <2> HIDE DEF f, g
  <2>2. SumFunctionOnSet(f, rs) = SumFunctionOnSet(g, rs)
    BY <1>1, <2>1, SumEqual
  <2> QED
    BY <2>2 DEF Billed, f, g
<1> QED
  BY <1>2, <1>3 DEF Holding, Counted

(* A request that joins others, reserved and not settled, adds one hold.      *)
LEMMA BooksJoin ==
    ASSUME NEW v \in [Requests -> Reservations], NEW w \in [Requests -> Reservations],
           NEW rs \in SUBSET Requests, NEW r \in Requests, r \notin rs, \A x \in rs : w[x] = v[x],
           ~w[r].settled, ~w[r].failed, w[r].charged = 0
    PROVE  /\ Holding(w, rs \cup {r}) = Holding(v, rs) + Hold
           /\ Billed(w, rs \cup {r}) = Billed(v, rs)
           /\ Counted(w, rs \cup {r}) = Counted(v, rs) + 1
<1>1. IsFiniteSet(rs)
  BY RequestsAssumption, FS_Subset
<1> DEFINE open == {x \in rs : ~v[x].settled}
           paid == {x \in rs : ~v[x].failed}
<1>2. /\ {x \in rs \cup {r} : ~w[x].settled} = open \cup {r}
      /\ {x \in rs \cup {r} : ~w[x].failed} = paid \cup {r}
      /\ r \notin open /\ r \notin paid
  OBVIOUS
<1>3. IsFiniteSet(open) /\ IsFiniteSet(paid)
  BY <1>1, FS_Subset
<1> HIDE DEF open, paid
<1>4. /\ Cardinality(open \cup {r}) = Cardinality(open) + 1
      /\ Cardinality(paid \cup {r}) = Cardinality(paid) + 1
      /\ Cardinality(open) \in Nat
  BY <1>2, <1>3, FS_AddElement, FS_CardinalityType
<1>5. Hold * (Cardinality(open) + 1) = Hold * Cardinality(open) + Hold
  BY <1>4, Amounts
<1>6. Billed(w, rs \cup {r}) = Billed(v, rs)
  <2> DEFINE f == [x \in Requests |-> w[x].charged]
  <2>1. (\A x \in rs \cup {r} : f[x] \in Int) /\ f[r] = 0
    BY DEF Reservations
  <2> HIDE DEF f
  <2>2. SumFunctionOnSet(f, rs \cup {r}) = SumFunctionOnSet(f, rs) + 0
    BY <1>1, <2>1, SumAdd
  <2>3. SumFunctionOnSet(f, rs) \in Int
    BY <1>1, <2>1, SumType
  <2>4. SumFunctionOnSet(f, rs) = Billed(v, rs)
    BY BooksSame DEF Billed, f
  <2> QED
    BY <2>2, <2>3, <2>4 DEF Billed, f
<1> QED
  BY <1>2, <1>4, <1>5, <1>6 DEF Holding, Counted, open, paid

(* A request among others that is settled gives its hold back and adds what   *)
(* it is charged; one that is free no longer counts.                        *)
LEMMA BooksSettle ==
    ASSUME NEW v \in [Requests -> Reservations], NEW w \in [Requests -> Reservations],
           NEW rs \in SUBSET Requests, NEW r \in rs,
           \A x \in rs \ {r} : w[x] = v[x],
           ~v[r].settled, ~v[r].failed, v[r].charged = 0, w[r].settled
    PROVE  /\ Holding(w, rs) = Holding(v, rs) - Hold
           /\ Holding(v, rs) >= Hold
           /\ Billed(w, rs) = Billed(v, rs) + w[r].charged
           /\ Counted(w, rs) = Counted(v, rs) - (IF w[r].failed THEN 1 ELSE 0)
<1>1. IsFiniteSet(rs)
  BY RequestsAssumption, FS_Subset
<1> DEFINE open == {x \in rs : ~v[x].settled}
           paid == {x \in rs : ~v[x].failed}
<1>2. /\ {x \in rs : ~w[x].settled} = open \ {r}
      /\ {x \in rs : ~w[x].failed} = IF w[r].failed THEN paid \ {r} ELSE paid
      /\ r \in open /\ r \in paid
  OBVIOUS
<1>3. IsFiniteSet(open) /\ IsFiniteSet(paid)
  BY <1>1, FS_Subset
<1> HIDE DEF open, paid
<1>4. /\ Cardinality(open \ {r}) = Cardinality(open) - 1
      /\ Cardinality(paid \ {r}) = Cardinality(paid) - 1
      /\ Cardinality(open) \in Nat /\ Cardinality(open \ {r}) \in Nat
      /\ Cardinality(paid) \in Nat
  BY <1>2, <1>3, FS_RemoveElement, FS_CardinalityType
<1>5. /\ Hold * Cardinality(open \ {r}) = Hold * Cardinality(open) - Hold
      /\ Hold * Cardinality(open \ {r}) \in Nat
      /\ Hold * Cardinality(open) \in Nat
  BY <1>4, Amounts
<1>6. Billed(w, rs) = Billed(v, rs) + w[r].charged
  <2> DEFINE f == [x \in Requests |-> v[x].charged]
             g == [x \in Requests |-> w[x].charged]
  <2>1. /\ \A x \in rs : f[x] \in Int /\ g[x] \in Int
        /\ \A x \in rs \ {r} : f[x] = g[x]
        /\ f[r] = 0 /\ g[r] = w[r].charged
    BY DEF Reservations
  <2> HIDE DEF f, g
  <2>2. SumFunctionOnSet(g, rs) = SumFunctionOnSet(f, rs) - f[r] + g[r]
    BY <1>1, <2>1, SumChange
  <2>3. SumFunctionOnSet(f, rs) \in Int
    BY <1>1, <2>1, SumType
  <2>4. SumFunctionOnSet(g, rs) = SumFunctionOnSet(f, rs) + g[r]
    BY <2>1, <2>2, <2>3
  <2> QED
    BY <2>1, <2>4 DEF Billed, f, g
<1>7. Counted(w, rs) = Counted(v, rs) - (IF w[r].failed THEN 1 ELSE 0)
  <2>1. Counted(v, rs) = Cardinality(paid)
    BY DEF Counted, paid
  <2>2. CASE w[r].failed
    <3>1. Counted(w, rs) = Cardinality(paid \ {r})
      BY <1>2, <2>2 DEF Counted
    <3> QED
      BY <1>4, <2>1, <2>2, <3>1
  <2>3. CASE ~w[r].failed
    <3>1. Counted(w, rs) = Cardinality(paid)
      BY <1>2, <2>3 DEF Counted
    <3> QED
      BY <1>4, <2>1, <2>3, <3>1
  <2> QED
    BY <2>2, <2>3
<1>8. Holding(w, rs) = Hold * Cardinality(open \ {r}) /\ Holding(v, rs) = Hold * Cardinality(open)
  BY <1>2 DEF Holding, open
<1> QED
  BY <1>5, <1>6, <1>7, <1>8, Amounts

-----------------------------------------------------------------------------
DayRows == [requests : Int, used : Int, held : Int]

(* A window begins before it ends, and until it is opened it is no window.   *)
WindowsOpen ==
    \A k \in Kinds : /\ win[k].start < win[k].end
                     /\ win[k].start >= -1
                     /\ win[k].start <= MaxTime
                     /\ win[k].start = -1 => win[k] = NoWindow

(* A handler goes by a time that was, and knows of usages a provider reported.*)
Timely(r) ==
    /\ req[r].now <= MaxTime
    /\ req[r].served \in Usages \cup {0}

(* A reservation is made once, in a day and in the windows there are or were; *)
(* until it is settled, nothing is charged for it.                          *)
Booked(r) ==
    /\ req[r].pc \in {"none", "asked"} => resv[r] = NoReservation
    /\ resv[r] # NoReservation =>
          /\ resv[r].day \in Days
          /\ \A k \in Kinds : 0 <= resv[r].start[k] /\ resv[r].start[k] <= win[k].start
    /\ ~resv[r].settled => resv[r].charged = 0 /\ ~resv[r].failed

WindowAddsUp(w, v, rs) ==
    w # NoWindow => w.held = Holding(v, rs) /\ w.used = Billed(v, rs)

DayAddsUp(d, v, rs) ==
    /\ d.held = Holding(v, rs)
    /\ d.used = Billed(v, rs)
    /\ d.requests = Counted(v, rs)

BookInv ==
    /\ Inv
    /\ clock <= MaxTime
    /\ day \in [Days -> DayRows]
    /\ WindowsOpen
    /\ \A r \in Requests : Timely(r) /\ Booked(r)
    /\ \A k \in Kinds : WindowAddsUp(win[k], resv, In(k))
    /\ \A d \in Days : DayAddsUp(day[d], resv, On(d))

(* The books are what BooksAddUp says they are.                             *)
LEMMA BooksRead ==
    /\ (\A k \in Kinds : WindowAddsUp(win[k], resv, In(k)))
       /\ (\A d \in Days : DayAddsUp(day[d], resv, On(d))) => BooksAddUp
  BY DEF WindowAddsUp, DayAddsUp, BooksAddUp, HeldBy, ChargedTo, Holding, Billed,
         Counted

(* Before the first request there is nothing in the books.                   *)
LEMMA BookInvInit == Init => BookInv
<1> SUFFICES ASSUME Init PROVE BookInv
  OBVIOUS
<1>1. Inv
  BY InvInit
<1>2. clock <= MaxTime
  BY BoundsAssumption DEF Init
<1>3. day \in [Days -> DayRows]
  BY DEF Init, DayRows
<1>4. WindowsOpen
  BY BoundsAssumption DEF Init, WindowsOpen, NoWindow
<1>5. ASSUME NEW r \in Requests PROVE Timely(r) /\ Booked(r)
  <2>1. req[r].now = 0 /\ req[r].served = 0 /\ resv[r] = NoReservation
    BY DEF Init
  <2>2. NoReservation.charged = 0 /\ ~NoReservation.failed
    BY DEF NoReservation
  <2> QED
    BY <2>1, <2>2, BoundsAssumption DEF Timely, Booked
<1>6. ASSUME NEW k \in Kinds PROVE WindowAddsUp(win[k], resv, In(k))
  BY DEF Init, WindowAddsUp
<1>7. ASSUME NEW d \in Days PROVE DayAddsUp(day[d], resv, On(d))
  <2>1. \A r \in Requests : resv[r].day = -1
    BY DEF Init, NoReservation
  <2>2. On(d) = {}
    BY <2>1 DEF On, Days
  <2>3. day[d].requests = 0 /\ day[d].used = 0 /\ day[d].held = 0
    BY DEF Init
  <2> QED
    BY <2>2, <2>3, NoRequests DEF DayAddsUp
<1> QED
  BY <1>1, <1>2, <1>3, <1>4, <1>5, <1>6, <1>7 DEF BookInv

-----------------------------------------------------------------------------
(* A handler's clock and what it was told; only the first step of a request   *)
(* takes it to where it asks for a reservation.                             *)
LEMMA HandlersMove ==
    ASSUME Shape, clock <= MaxTime, [Next]_vars, NEW r \in Requests, Timely(r)
    PROVE  /\ Timely(r)'
           /\ req'[r].pc \in {"none", "asked"} => req[r].pc \in {"none", "asked"}
<1> DEFINE Goal == /\ Timely(r)'
                   /\ req'[r].pc \in {"none", "asked"} => req[r].pc \in {"none", "asked"}
<1>1. ASSUME req'[r] = req[r] PROVE Goal
  BY <1>1 DEF Timely
<1>2. req \in [Requests -> Handlers] /\ req[r] \in Handlers
  BY DEF Shape
<1>3. ASSUME NEW x \in Requests,
             NEW pc \in {"upstream", "refused", "streamed", "over"},
             req' = [req EXCEPT ![x].pc = pc]
      PROVE  Goal
  BY <1>2, <1>3 DEF Timely, Handlers
<1>4. CASE UNCHANGED vars \/ Tick
  BY <1>1, <1>4 DEF vars, Tick
<1>5. ASSUME NEW x \in Requests,
             \/ Ask(x) \/ Reserve(x) \/ ReserveFails(x)
             \/ Refuse(x) \/ Finish(x) \/ Breaks(x) \/ Cancel(x) \/ WorkerDies(x)
             \/ \E c \in Callers : SettleDone(x, c) \/ SettleFails(x, c)
      PROVE  Goal
  <2>1. CASE Ask(x)
    BY <1>2, <2>1 DEF Ask, Timely, Handlers
  <2>2. CASE Reserve(x)
    BY <1>3, <2>2 DEF Reserve
  <2>3. CASE ReserveFails(x)
    <3>1. req' = [req EXCEPT ![x].pc = "over"]
      BY <2>3 DEF ReserveFails
    <3> QED
      BY <1>3, <3>1
  <2>4. CASE Refuse(x)
    <3>1. req' = [req EXCEPT ![x].pc = "refused"]
      BY <2>4 DEF Refuse
    <3> QED
      BY <1>3, <3>1
  <2>5. CASE Finish(x)
    <3>1. PICK used \in Usages, stream \in BOOLEAN :
              req' = [req EXCEPT ![x].pc = IF stream THEN "streamed" ELSE "over",
                                 ![x].served = used]
      BY <2>5 DEF Finish
    <3> QED
      BY <1>2, <3>1 DEF Timely, Handlers
  <2>6. CASE Breaks(x)
    <3>1. req' = [req EXCEPT ![x].pc = "over"]
      BY <2>6 DEF Breaks
    <3> QED
      BY <1>3, <3>1
  <2>7. CASE Cancel(x)
    <3>1. req' = [req EXCEPT ![x].pc = "over"]
      BY <2>7 DEF Cancel
    <3> QED
      BY <1>3, <3>1
  <2>8. CASE WorkerDies(x)
    <3>1. req' = [req EXCEPT ![x].pc = "over"]
      BY <2>8 DEF WorkerDies
    <3> QED
      BY <1>3, <3>1
  <2>9. ASSUME NEW c \in Callers, SettleDone(x, c) \/ SettleFails(x, c)
        PROVE  Goal
    <3>1. CASE UNCHANGED req
      BY <1>1, <3>1
    <3>2. CASE req' = [req EXCEPT ![x].settled = TRUE]
      BY <1>2, <3>2 DEF Timely, Handlers
    <3> QED
      BY <2>9, <3>1, <3>2 DEF SettleDone, SettleFails
  <2> QED
    BY <1>5, <2>1, <2>2, <2>3, <2>4, <2>5, <2>6, <2>7, <2>8, <2>9
<1> QED
  BY <1>4, <1>5 DEF Next

-----------------------------------------------------------------------------
(* What a step has to keep of the books.                                    *)
Books ==
    /\ day \in [Days -> DayRows]
    /\ WindowsOpen
    /\ \A r \in Requests : Booked(r)
    /\ \A k \in Kinds : WindowAddsUp(win[k], resv, In(k))
    /\ \A d \in Days : DayAddsUp(day[d], resv, On(d))

(* A step that writes neither windows, days nor reservations keeps them.     *)
LEMMA BooksUntouched ==
    ASSUME BookInv, UNCHANGED <<win, day, resv>>,
           \A r \in Requests :
              req'[r].pc \in {"none", "asked"} => req[r].pc \in {"none", "asked"}
    PROVE  Books'
<1>1. WindowsOpen'
  BY DEF BookInv, WindowsOpen
<1>2. ASSUME NEW r \in Requests PROVE Booked(r)'
  BY DEF BookInv, Booked
<1>3. (\A k \in Kinds : WindowAddsUp(win[k], resv, In(k)))'
  BY DEF BookInv, In, WindowAddsUp, Holding, Billed
<1>4. (\A d \in Days : DayAddsUp(day[d], resv, On(d)))'
  BY DEF BookInv, On, DayAddsUp, Holding, Billed, Counted
<1> QED
  BY <1>1, <1>2, <1>3, <1>4 DEF BookInv, Books

(* The reservation that a request makes.                                    *)
LEMMA ReservationMade ==
    ASSUME Shape, NEW r \in Requests, NEW ms \in SessionMs, ReserveUnlimited(r, ms)
    PROVE  /\ resv'[r].day = req[r].now \div DayMs
           /\ \A k \in Kinds : resv'[r].start[k] = win'[k].start
           /\ ~resv'[r].settled /\ ~resv'[r].failed /\ resv'[r].charged = 0
           /\ \E length \in [Kinds -> Nat \ {0}] : \A k \in Kinds :
                 LET w == Opened(win[k], req[r].now, length[k]) IN
                 /\ win'[k].start = w.start /\ win'[k].end = w.end
                 /\ win'[k].used = w.used /\ win'[k].held = w.held + Hold
<1> DEFINE now == req[r].now
           length == [k \in Kinds |-> IF k = "session" THEN ms ELSE WeekMs]
           opened == [k \in Kinds |-> Opened(win[k], now, length[k])]
           today == now \div DayMs
           starts == [k \in Kinds |-> opened[k].start]
           made == [NoReservation EXCEPT !.day = today, !.start = starts]
<1>1. length \in [Kinds -> Nat \ {0}]
  BY LengthsAssumption
<1>2. \A k \in Kinds : opened[k] \in Windows
  <2>1. now \in Nat
    BY DEF Shape, Handlers
  <2> SUFFICES ASSUME NEW k \in Kinds PROVE Opened(win[k], now, length[k]) \in Windows
    OBVIOUS
  <2>2. length[k] \in Nat
    BY <1>1
  <2> HIDE DEF length
  <2> QED
    BY <2>1, <2>2 DEF Shape, Windows, Opened
<1>3. win' = [k \in Kinds |-> [opened[k] EXCEPT !.held = @ + Hold]]
  BY Zenon DEF ReserveUnlimited
<1>4. resv' = [resv EXCEPT ![r] = made]
  BY DEF ReserveUnlimited
<1>5. \A k \in Kinds : opened[k] = Opened(win[k], now, length[k])
  OBVIOUS
<1> HIDE DEF opened, today, now, length
<1>6. \A k \in Kinds : starts[k] = opened[k].start
  OBVIOUS
<1> HIDE DEF starts
<1>7. /\ made.day = today /\ made.start = starts
      /\ ~made.settled /\ ~made.failed /\ made.charged = 0
  BY Zenon DEF NoReservation
<1> HIDE DEF made
<1>8. resv'[r] = made
  BY <1>4 DEF Shape
<1>9. \A k \in Kinds : /\ win'[k].start = opened[k].start
                       /\ win'[k].end = opened[k].end
                       /\ win'[k].used = opened[k].used
                       /\ win'[k].held = opened[k].held + Hold
  BY <1>2, <1>3 DEF Windows
<1>10. \A k \in Kinds : resv'[r].start[k] = win'[k].start
  BY <1>6, <1>7, <1>8, <1>9
<1> QED
  BY <1>1, <1>5, <1>7, <1>8, <1>9, <1>10 DEF now, today
-----------------------------------------------------------------------------
(* A reservation adds one hold to its day and to both windows, fresh or not,  *)
(* and nothing to the books of any other.                                   *)
LEMMA ReservationBooks ==
    ASSUME BookInv, NEW r \in Requests, NEW ms \in SessionMs, ReserveUnlimited(r, ms),
           req[r].pc = "asked", req'[r].pc \notin {"none", "asked"},
           \A x \in Requests :
              req'[x].pc \in {"none", "asked"} => req[x].pc \in {"none", "asked"}
    PROVE  Books'
<1> DEFINE now == req[r].now
           today == now \div DayMs
<1>1. /\ Shape /\ resv[r] = NoReservation /\ now \in Nat /\ now <= MaxTime
      /\ resv \in [Requests -> Reservations] /\ win \in [Kinds -> Windows]
  BY Typed DEF BookInv, Inv, Shape, Booked, Timely, Handlers
<1>2. today \in Days
  BY <1>1, DayOfTime
<1>3. /\ resv' \in [Requests -> Reservations] /\ win' \in [Kinds -> Windows]
      /\ \A x \in Requests \ {r} : resv'[x] = resv[x]
  BY <1>1, Reservation
<1>4. /\ resv'[r].day = today
      /\ \A k \in Kinds : resv'[r].start[k] = win'[k].start
      /\ ~resv'[r].settled /\ ~resv'[r].failed /\ resv'[r].charged = 0
  BY <1>1, ReservationMade
<1>5. PICK length \in [Kinds -> Nat \ {0}] : \A k \in Kinds :
         LET w == Opened(win[k], now, length[k]) IN
         /\ win'[k].start = w.start /\ win'[k].end = w.end
         /\ win'[k].used = w.used /\ win'[k].held = w.held + Hold
  BY <1>1, ReservationMade
<1>6. /\ day' = [day EXCEPT ![today] = [day[today] EXCEPT
                    !.requests = day[today].requests + 1,
                    !.held = day[today].held + Hold]]
      /\ day \in [Days -> DayRows]
  BY DEF ReserveUnlimited, BookInv
<1>7. NoReservation.day = -1 /\ \A k \in Kinds : NoReservation.start[k] = -1
  BY DEF NoReservation
<1> HIDE DEF now, today
<1>a. ASSUME NEW rs \in SUBSET Requests, r \notin rs, \A x \in rs : resv'[x] = resv[x]
      PROVE  /\ Holding(resv', rs \cup {r}) = Holding(resv, rs) + Hold
             /\ Billed(resv', rs \cup {r}) = Billed(resv, rs)
             /\ Counted(resv', rs \cup {r}) = Counted(resv, rs) + 1
  <2>1. resv' \in [Requests -> Reservations]
    BY <1>3
  <2>2. ~resv'[r].settled /\ ~resv'[r].failed /\ resv'[r].charged = 0
    BY <1>4
  <2>4. resv \in [Requests -> Reservations]
    BY <1>1
  <2> QED
    BY <1>a, <2>1, <2>2, <2>4, BooksJoin, ZenonT(60)
<1>8. ASSUME NEW k \in Kinds, win[k].end <= now
      PROVE  /\ win'[k].start = now /\ win'[k].end = now + length[k]
             /\ win'[k].used = 0 /\ win'[k].held = Hold
             /\ now > win[k].start
  <2>1. LET w == Opened(win[k], now, length[k]) IN
          /\ win'[k].start = w.start /\ win'[k].end = w.end
          /\ win'[k].used = w.used /\ win'[k].held = w.held + Hold
    BY <1>5
  <2>2. win[k].start < win[k].end /\ win[k] \in Windows
    BY <1>1 DEF BookInv, WindowsOpen
  <2> QED
    BY <1>1, <1>8, <2>1, <2>2, Amounts DEF Opened, Windows
<1>9. ASSUME NEW k \in Kinds, ~(win[k].end <= now)
      PROVE  /\ win'[k].start = win[k].start /\ win'[k].end = win[k].end
             /\ win'[k].used = win[k].used /\ win'[k].held = win[k].held + Hold
             /\ win[k].start >= 0 /\ win[k] # NoWindow
  <2>1. LET w == Opened(win[k], now, length[k]) IN
          /\ win'[k].start = w.start /\ win'[k].end = w.end
          /\ win'[k].used = w.used /\ win'[k].held = w.held + Hold
    BY <1>5
  <2>2. /\ win[k].start >= -1
        /\ win[k].start = -1 => win[k] = NoWindow
        /\ win[k] \in Windows
    BY <1>1 DEF BookInv, WindowsOpen
  <2>3. NoWindow.end = 0 /\ NoWindow.start = -1
    BY DEF NoWindow
  <2>4. win[k] # NoWindow
    BY <1>1, <1>9, <2>3
  <2> QED
    <3>1. Opened(win[k], now, length[k]) = win[k]
      BY <1>9 DEF Opened
    <3>2. win[k].start >= 0
      BY <2>2, <2>4 DEF Windows
    <3> QED
      BY <2>1, <2>4, <3>1, <3>2
<1>10. day' \in [Days -> DayRows]
  <2>1. day[today] \in DayRows
    BY <1>2, <1>6
  <2>2. [day[today] EXCEPT !.requests = day[today].requests + 1,
                           !.held = day[today].held + Hold] \in DayRows
    <3>1. /\ day[today].requests + 1 \in Int /\ day[today].held + Hold \in Int
          /\ day[today].used \in Int
      BY <2>1, Amounts DEF DayRows
    <3> QED
      BY <2>1, <3>1, Zenon DEF DayRows
  <2> QED
    BY <1>6, <2>2
<1>11. ASSUME NEW k \in Kinds
       PROVE  /\ win'[k].start >= win[k].start /\ win'[k].start >= 0
              /\ win'[k].start < win'[k].end /\ win'[k].start <= MaxTime
  <2>1. /\ win[k].start < win[k].end /\ win[k].start <= MaxTime
        /\ win[k].start >= -1 /\ win[k] \in Windows
    BY <1>1 DEF BookInv, WindowsOpen
  <2>2. CASE win[k].end <= now
    BY <1>1, <1>8, <2>1, <2>2 DEF Windows
  <2>3. CASE ~(win[k].end <= now)
    BY <1>9, <2>1, <2>3 DEF Windows
  <2> QED
    BY <2>2, <2>3
<1>12. WindowsOpen'
  <2> SUFFICES ASSUME NEW k \in Kinds
               PROVE  /\ win'[k].start < win'[k].end /\ win'[k].start >= -1
                      /\ win'[k].start <= MaxTime
                      /\ win'[k].start = -1 => win'[k] = NoWindow
    BY DEF WindowsOpen
  <2>1. win'[k].start \in Int /\ win'[k].end \in Int
    BY <1>3 DEF Windows
  <2> QED
    BY <1>11, <2>1
<1>13. ASSUME NEW x \in Requests PROVE Booked(x)'
  <2>1. CASE x = r
    <3>1. \A k \in Kinds : 0 <= resv'[r].start[k] /\ resv'[r].start[k] <= win'[k].start
      <4>1. \A k \in Kinds : win'[k].start \in Int
        BY <1>3 DEF Windows
      <4> QED
        BY <1>4, <1>11, <4>1
    <3> QED
      BY <1>2, <1>4, <2>1, <3>1 DEF Booked
  <2>2. CASE x # r
    <3>1. resv'[x] = resv[x] /\ Booked(x)
      BY <1>3, <2>2 DEF BookInv
    <3>2. ASSUME resv[x] # NoReservation, NEW k \in Kinds
          PROVE  0 <= resv[x].start[k] /\ resv[x].start[k] <= win'[k].start
      <4>1. 0 <= resv[x].start[k] /\ resv[x].start[k] <= win[k].start
        BY <3>1, <3>2 DEF Booked
      <4>2. resv[x].start[k] \in Int /\ win[k].start \in Int /\ win'[k].start \in Int
        BY <1>1, <1>3 DEF Windows, Reservations
      <4> QED
        BY <1>11, <4>1, <4>2
    <3> QED
      BY <3>1, <3>2 DEF Booked
  <2> QED
    BY <2>1, <2>2
<1>14. ASSUME NEW k \in Kinds PROVE WindowAddsUp(win[k], resv, In(k))'
  <2>1. CASE win[k].end <= now
    <3>1. In(k)' = {r}
      <4>1. ASSUME NEW x \in Requests, x # r PROVE resv'[x].start[k] # win'[k].start
        <5>1. resv'[x] = resv[x] /\ Booked(x)
          BY <1>3, <4>1 DEF BookInv
        <5>2. resv[x].start[k] <= win[k].start
          <6>1. CASE resv[x] = NoReservation
            BY <1>1, <1>7, <6>1 DEF BookInv, WindowsOpen
          <6>2. CASE resv[x] # NoReservation
            BY <5>1, <6>2 DEF Booked
          <6> QED
            BY <6>1, <6>2
        <5>3. resv[x].start[k] \in Int /\ win[k].start \in Int
          BY <1>1 DEF Windows, Reservations
        <5> QED
          BY <1>1, <1>8, <2>1, <5>1, <5>2, <5>3
      <4>2. resv'[r].start[k] = win'[k].start
        BY <1>4
      <4> QED
        BY <4>1, <4>2 DEF In
    <3>2. /\ Holding(resv', {} \cup {r}) = Holding(resv, {}) + Hold
          /\ Billed(resv', {} \cup {r}) = Billed(resv, {})
      BY <1>a
    <3>3. Holding(resv', {r}) = Hold /\ Billed(resv', {r}) = 0
      BY <3>2, NoRequests, Amounts
    <3> QED
      BY <1>8, <2>1, <3>1, <3>3 DEF WindowAddsUp
  <2>2. CASE ~(win[k].end <= now)
    <3>1. PICK rs \in SUBSET Requests : rs = In(k)
      BY DEF In
    <3>2. /\ win[k].held = Holding(resv, rs) /\ win[k].used = Billed(resv, rs)
      BY <1>9, <2>2, <3>1 DEF BookInv, WindowAddsUp
    <3>3. r \notin rs
      <4>1. resv[r].start[k] = -1 /\ win[k].start >= 0 /\ win[k].start \in Int
        BY <1>1, <1>7, <1>9, <2>2 DEF Windows
      <4> QED
        BY <3>1, <4>1 DEF In
    <3>4. In(k)' = rs \cup {r}
      BY <1>3, <1>4, <1>9, <2>2, <3>1 DEF In
    <3>5. /\ Holding(resv', rs \cup {r}) = Holding(resv, rs) + Hold
          /\ Billed(resv', rs \cup {r}) = Billed(resv, rs)
      <4>1. \A x \in rs : resv'[x] = resv[x]
        BY <1>3, <3>3
      <4> QED
        BY <3>3, <4>1, <1>a
    <3> QED
      BY <1>9, <2>2, <3>2, <3>4, <3>5 DEF WindowAddsUp
  <2> QED
    BY <2>1, <2>2
<1>15. ASSUME NEW d \in Days PROVE DayAddsUp(day[d], resv, On(d))'
  <2>1. PICK rs \in SUBSET Requests : rs = On(d)
    BY DEF On
  <2>2. DayAddsUp(day[d], resv, rs) /\ day[d] \in DayRows
    BY <1>6, <2>1 DEF BookInv
  <2>3. r \notin rs
    BY <1>1, <1>7, <2>1 DEF On, Days
  <2>4. \A x \in rs : resv'[x] = resv[x]
    BY <1>3, <2>3
  <2>5. CASE d = today
    <3>1. On(d)' = rs \cup {r}
      BY <1>3, <1>4, <2>1, <2>5 DEF On
    <3>2. /\ Holding(resv', rs \cup {r}) = Holding(resv, rs) + Hold
          /\ Billed(resv', rs \cup {r}) = Billed(resv, rs)
          /\ Counted(resv', rs \cup {r}) = Counted(resv, rs) + 1
      BY <2>3, <2>4, <1>a
    <3>3. /\ day'[d].requests = day[d].requests + 1
          /\ day'[d].held = day[d].held + Hold
          /\ day'[d].used = day[d].used
      BY <1>6, <2>2, <2>5 DEF DayRows
    <3> QED
      BY <2>2, <3>1, <3>2, <3>3 DEF DayAddsUp
  <2>6. CASE d # today
    <3>1. On(d)' = rs
      BY <1>3, <1>4, <2>1, <2>3, <2>6 DEF On
    <3>2. /\ Holding(resv', rs) = Holding(resv, rs) /\ Billed(resv', rs) = Billed(resv, rs)
          /\ Counted(resv', rs) = Counted(resv, rs)
      BY <2>4, BooksSame
    <3>3. day'[d] = day[d]
      BY <1>6, <2>6
    <3> QED
      BY <2>2, <3>1, <3>2, <3>3 DEF DayAddsUp
  <2> QED
    BY <2>5, <2>6
<1> QED
  BY <1>10, <1>12, <1>13, <1>14, <1>15 DEF Books
-----------------------------------------------------------------------------
(* The first settlement of a request leaves its day and its windows as they   *)
(* are, and is what its reservation is charged.                             *)
LEMMA SettlementMade ==
    ASSUME Shape, NEW r \in Requests, NEW what \in Calls,
           SettleIncluded(r, what), Settles(r)
    PROVE  /\ resv'[r].day = resv[r].day /\ resv'[r].start = resv[r].start
           /\ resv'[r].settled
           /\ resv'[r].failed = what.failed /\ resv'[r].charged = what.used
<1>1. resv' = [resv EXCEPT ![r] = [resv[r] EXCEPT
                  !.settled = TRUE, !.failed = what.failed, !.charged = what.used]]
  BY Zenon DEF SettleIncluded
<1>2. resv[r] \in Reservations /\ what.failed \in BOOLEAN /\ what.used \in Nat
  BY Zenon DEF Shape, Calls
<1> DEFINE new == [resv[r] EXCEPT !.settled = TRUE, !.failed = what.failed,
                                  !.charged = what.used]
<1>3. /\ new.day = resv[r].day /\ new.start = resv[r].start /\ new.settled
      /\ new.failed = what.failed /\ new.charged = what.used
  BY <1>2, Zenon DEF Reservations
<1> HIDE DEF new
<1>4. resv'[r] = new
  BY <1>1 DEF Shape, new
<1> QED
  BY <1>3, <1>4

(* A settlement gives the request's hold back to its day and to the windows   *)
(* it was held in that are still there, and charges those; a second one, and *)
(* one of a request that was never reserved, does nothing.                  *)
LEMMA SettlementBooks ==
    ASSUME BookInv, NEW r \in Requests, NEW what \in Calls, SettleIncluded(r, what),
           \A x \in Requests :
              req'[x].pc \in {"none", "asked"} => req[x].pc \in {"none", "asked"}
    PROVE  Books'
<1>1. CASE ~Settles(r)
  BY <1>1, BooksUntouched DEF SettleIncluded
<1>2. CASE Settles(r)
  <2>1. /\ Shape /\ resv \in [Requests -> Reservations] /\ win \in [Kinds -> Windows]
        /\ day \in [Days -> DayRows]
    BY DEF BookInv, Inv, Shape
  <2>2. /\ resv' \in [Requests -> Reservations] /\ win' \in [Kinds -> Windows]
        /\ \A x \in Requests \ {r} : resv'[x] = resv[x]
    BY <2>1, Settlement
  <2>3. /\ resv'[r].day = resv[r].day /\ resv'[r].start = resv[r].start
        /\ resv'[r].settled
        /\ resv'[r].failed = what.failed /\ resv'[r].charged = what.used
    BY <1>2, <2>1, SettlementMade
  <2>4. /\ ~resv[r].settled /\ resv[r].charged = 0 /\ ~resv[r].failed
        /\ resv[r].day \in Days /\ req[r].pc \notin {"none", "asked"}
        /\ \A k \in Kinds : 0 <= resv[r].start[k] /\ resv[r].start[k] <= win[k].start
    BY <1>2 DEF BookInv, Booked, Settles, Reserved
  <2>5. /\ win' = [k \in Kinds |->
                 IF HeldIn(r, k)
                 THEN [win[k] EXCEPT !.held = AtLeastZero(@ - Hold),
                                     !.used = @ + what.used]
                 ELSE win[k]]
        /\ day' = [day EXCEPT ![resv[r].day] =
                     [requests |-> day[resv[r].day].requests
                                     - (IF what.failed THEN 1 ELSE 0),
                      used |-> day[resv[r].day].used + what.used,
                      held |-> day[resv[r].day].held - Hold]]
    BY <1>2 DEF SettleIncluded
  <2>6. ASSUME NEW x \in Requests
        PROVE  /\ resv'[x].day = resv[x].day /\ resv'[x].start = resv[x].start
    BY <2>2, <2>3
  <2>7. ASSUME NEW rs \in SUBSET Requests, r \in rs
        PROVE  /\ Holding(resv', rs) = Holding(resv, rs) - Hold
               /\ Holding(resv, rs) >= Hold
               /\ Billed(resv', rs) = Billed(resv, rs) + what.used
               /\ Counted(resv', rs) = Counted(resv, rs) - (IF what.failed THEN 1 ELSE 0)
    <3>1. \A x \in rs \ {r} : resv'[x] = resv[x]
      BY <2>2, rs \in SUBSET Requests
    <3>2. ~resv[r].settled /\ ~resv[r].failed /\ resv[r].charged = 0 /\ resv'[r].settled
      BY <2>3, <2>4
    <3>3. /\ Holding(resv', rs) = Holding(resv, rs) - Hold
          /\ Holding(resv, rs) >= Hold
          /\ Billed(resv', rs) = Billed(resv, rs) + resv'[r].charged
          /\ Counted(resv', rs) = Counted(resv, rs) - (IF resv'[r].failed THEN 1 ELSE 0)
      BY <2>1, <2>2, <2>7, <3>1, <3>2, BooksSettle, rs \in SUBSET Requests
    <3> QED
      BY <2>3, <3>3
  <2>8. ASSUME NEW rs \in SUBSET Requests, r \notin rs
        PROVE  /\ Holding(resv', rs) = Holding(resv, rs)
               /\ Billed(resv', rs) = Billed(resv, rs)
               /\ Counted(resv', rs) = Counted(resv, rs)
    <3>1. \A x \in rs : resv'[x] = resv[x]
      BY <2>2, <2>8, rs \in SUBSET Requests
    <3> QED
      BY <3>1, BooksSame, rs \in SUBSET Requests
  <2>9. day' \in [Days -> DayRows]
    <3>1. day[resv[r].day] \in DayRows
      BY <2>1, <2>4
    <3> DEFINE n == day[resv[r].day].requests - (IF what.failed THEN 1 ELSE 0)
    <3>2. /\ n \in Int /\ day[resv[r].day].used + what.used \in Int
          /\ day[resv[r].day].held - Hold \in Int
      BY <3>1, Amounts DEF DayRows, Calls
    <3> QED
      BY <2>1, <2>5, <3>2 DEF DayRows
  <2>10. ASSUME NEW k \in Kinds, HeldIn(r, k)
         PROVE  /\ win'[k].start = win[k].start /\ win'[k].end = win[k].end
                /\ win'[k].held = AtLeastZero(win[k].held - Hold)
                /\ win'[k].used = win[k].used + what.used
    <3>1. win'[k] = [win[k] EXCEPT !.held = AtLeastZero(win[k].held - Hold),
                                   !.used = win[k].used + what.used]
      BY <2>5, <2>10
    <3>2. win[k] \in Windows
      BY <2>1
    <3> QED
      BY <3>1, <3>2, Zenon DEF Windows
  <2>11. ASSUME NEW k \in Kinds, ~HeldIn(r, k) PROVE win'[k] = win[k]
    BY <2>5, <2>11
  <2>12. ASSUME NEW k \in Kinds
         PROVE  win'[k].start = win[k].start /\ win'[k].end = win[k].end
    BY <2>10, <2>11
  <2>13. ASSUME NEW k \in Kinds, HeldIn(r, k) PROVE win[k].start >= 0 /\ win[k] # NoWindow
    BY <2>4, <2>13 DEF HeldIn, NoWindow
  <2>14. WindowsOpen'
    <3> SUFFICES ASSUME NEW k \in Kinds
                 PROVE  /\ win'[k].start < win'[k].end /\ win'[k].start >= -1
                        /\ win'[k].start <= MaxTime
                        /\ win'[k].start = -1 => win'[k] = NoWindow
      BY DEF WindowsOpen
    <3>1. /\ win[k].start < win[k].end /\ win[k].start >= -1 /\ win[k].start <= MaxTime
          /\ win[k].start = -1 => win[k] = NoWindow
          /\ win[k].start \in Int
      BY <2>1 DEF BookInv, WindowsOpen, Windows
    <3>2. win'[k].start = -1 => win'[k] = win[k]
      BY <2>11, <2>12, <2>13, <3>1
    <3> QED
      BY <2>12, <3>1, <3>2
  <2>15. ASSUME NEW x \in Requests PROVE Booked(x)'
    <3>1. CASE x = r
      <4>1. req'[r].pc \notin {"none", "asked"} /\ resv'[r].settled
        BY <2>3, <2>4
      <4>2. resv'[r].day \in Days
        BY <2>3, <2>4
      <4>3. \A k \in Kinds : 0 <= resv'[r].start[k] /\ resv'[r].start[k] <= win'[k].start
        BY <2>3, <2>4, <2>12
      <4> QED
        BY <3>1, <4>1, <4>2, <4>3 DEF Booked
    <3>2. CASE x # r
      BY <2>2, <2>12, <3>2 DEF BookInv, Booked
    <3> QED
      BY <3>1, <3>2
  <2>16. ASSUME NEW k \in Kinds PROVE WindowAddsUp(win[k], resv, In(k))'
    <3>1. PICK rs \in SUBSET Requests : rs = In(k)
      BY DEF In
    <3>2. In(k)' = rs
      BY <2>6, <2>12, <3>1 DEF In
    <3>3. WindowAddsUp(win[k], resv, rs) /\ win[k] \in Windows
      BY <2>1, <3>1 DEF BookInv
    <3>4. CASE HeldIn(r, k)
      <4>1. r \in rs
        BY <3>1, <3>4 DEF In, HeldIn
      <4>2. win[k].held = Holding(resv, rs) /\ win[k].used = Billed(resv, rs)
        BY <2>13, <3>3, <3>4 DEF WindowAddsUp
      <4>3. /\ Holding(resv', rs) = Holding(resv, rs) - Hold
            /\ Holding(resv, rs) >= Hold
            /\ Billed(resv', rs) = Billed(resv, rs) + what.used
        BY <2>7, <4>1
      <4>4. AtLeastZero(win[k].held - Hold) = win[k].held - Hold
        BY <3>3, <4>2, <4>3, Amounts DEF AtLeastZero, Windows
      <4> QED
        BY <2>10, <3>2, <3>4, <4>2, <4>3, <4>4 DEF WindowAddsUp
    <3>5. CASE ~HeldIn(r, k)
      <4>1. r \notin rs
        BY <3>1, <3>5 DEF In, HeldIn
      <4>2. Holding(resv', rs) = Holding(resv, rs) /\ Billed(resv', rs) = Billed(resv, rs)
        BY <2>8, <4>1
      <4>3. win'[k] = win[k]
        BY <2>11, <3>5
      <4> QED
        BY <3>2, <3>3, <4>2, <4>3 DEF WindowAddsUp
    <3> QED
      BY <3>4, <3>5
  <2>17. ASSUME NEW d \in Days PROVE DayAddsUp(day[d], resv, On(d))'
    <3>1. PICK rs \in SUBSET Requests : rs = On(d)
      BY DEF On
    <3>2. On(d)' = rs
      BY <2>6, <3>1 DEF On
    <3>3. DayAddsUp(day[d], resv, rs)
      BY <3>1 DEF BookInv
    <3>4. CASE d = resv[r].day
      <4>1. r \in rs
        BY <3>1, <3>4 DEF On
      <4>2. /\ Holding(resv', rs) = Holding(resv, rs) - Hold
            /\ Billed(resv', rs) = Billed(resv, rs) + what.used
            /\ Counted(resv', rs) = Counted(resv, rs) - (IF what.failed THEN 1 ELSE 0)
        BY <2>7, <4>1
      <4>3. /\ day'[d].requests = day[d].requests - (IF what.failed THEN 1 ELSE 0)
            /\ day'[d].used = day[d].used + what.used
            /\ day'[d].held = day[d].held - Hold
        BY <2>1, <2>5, <3>4
      <4> QED
        BY <3>2, <3>3, <4>2, <4>3 DEF DayAddsUp
    <3>5. CASE d # resv[r].day
      <4>1. r \notin rs
        BY <3>1, <3>5 DEF On
      <4>2. /\ Holding(resv', rs) = Holding(resv, rs) /\ Billed(resv', rs) = Billed(resv, rs)
            /\ Counted(resv', rs) = Counted(resv, rs)
        BY <2>8, <4>1
      <4>3. day'[d] = day[d]
        BY <2>1, <2>5, <3>5
      <4> QED
        BY <3>2, <3>3, <4>2, <4>3 DEF DayAddsUp
    <3> QED
      BY <3>4, <3>5
  <2> QED
    BY <2>9, <2>14, <2>15, <2>16, <2>17 DEF Books
<1> QED
  BY <1>1, <1>2

-----------------------------------------------------------------------------
(* Every step keeps the books: only a reservation and a settlement write them.*)
LEMMA BookInvStep == BookInv /\ [Next]_vars => BookInv'
<1> SUFFICES ASSUME BookInv, [Next]_vars PROVE BookInv'
  OBVIOUS
<1>1. Inv /\ Shape /\ clock <= MaxTime
  BY DEF BookInv, Inv
<1>2. Inv'
  BY <1>1, InvStep
<1>3. clock' <= MaxTime
  <2>1. CASE Tick
    BY <1>1, <2>1, BoundsAssumption DEF Tick, Shape
  <2>2. CASE UNCHANGED clock
    BY <1>1, <2>2
  <2> QED
    BY <2>1, <2>2 DEF Next, vars, Ask, Reserve, ReserveFails, Refuse, Finish, Breaks,
                      Cancel, WorkerDies, SettleDone, SettleFails
<1>4. /\ \A r \in Requests : Timely(r)'
      /\ \A r \in Requests :
            req'[r].pc \in {"none", "asked"} => req[r].pc \in {"none", "asked"}
  BY <1>1, HandlersMove DEF BookInv
<1>5. Books'
  <2>1. CASE UNCHANGED <<win, day, resv>>
    BY <1>4, <2>1, BooksUntouched
  <2>2. ASSUME NEW r \in Requests, Reserve(r) PROVE Books'
    <3>1. PICK ms \in SessionMs : ReserveUnlimited(r, ms)
      BY <2>2 DEF Reserve
    <3>2. req[r].pc = "asked" /\ req'[r].pc \notin {"none", "asked"}
      BY <1>1, <2>2 DEF Reserve, Shape, Handlers
    <3> QED
      BY <1>4, <3>1, <3>2, ReservationBooks
  <2>3. ASSUME NEW r \in Requests, NEW c \in Callers, SettleIncluded(r, call[r][c])
        PROVE  Books'
    <3>1. PICK what \in Calls : what = call[r][c]
      BY <1>1 DEF Shape
    <3>2. SettleIncluded(r, what)
      BY <2>3, <3>1
    <3> QED
      BY <1>4, <3>2, SettlementBooks
  <2> QED
    BY <2>1, <2>2, <2>3
    DEF Next, vars, Tick, Ask, ReserveFails, Refuse, Finish, Breaks, Cancel, WorkerDies,
        SettleDone, SettleFails
<1> QED
  BY <1>2, <1>3, <1>4, <1>5 DEF BookInv, Books

(* Each credit window and each day holds what the requests reserved in it and *)
(* not settled hold, and was charged what the others were settled for, once *)
(* each, however late, repeated or lost a settlement is, and however many    *)
(* windows began in between (tagflowTypes.ts:116,                           *)
(* 20261018184813_free_ai_credits.sql:19).                                  *)
THEOREM BooksBalance == Spec => []BooksAddUp
<1>1. BookInv => BooksAddUp
  BY BooksRead DEF BookInv
<1> QED
  BY <1>1, BookInvInit, BookInvStep, PTL DEF Spec

(* The checks of the tables hold without being asked for: nothing held and    *)
(* nothing used is ever below zero (20261018184813_free_ai_credits.sql:11). *)
THEOREM TypeCorrect == Spec => []TypeOK
<1>1. BookInv => TypeOK
  <2> SUFFICES ASSUME BookInv PROVE TypeOK
    OBVIOUS
  <2>1. /\ Shape /\ resv \in [Requests -> Reservations] /\ win \in [Kinds -> Windows]
        /\ day \in [Days -> DayRows] /\ req \in [Requests -> Handlers]
    BY DEF BookInv, Inv, Shape
  <2>2. clock \in 0..MaxTime
    BY <2>1, BoundsAssumption DEF BookInv, Shape
  <2>3. ASSUME NEW k \in Kinds
        PROVE  /\ win[k].start \in -1..MaxTime /\ win[k].end \in Nat
               /\ win[k].used \in Nat /\ win[k].held \in Nat
    <3>1. win[k].used \in Nat /\ win[k].held \in Nat
      <4>1. CASE win[k] = NoWindow
        BY <4>1 DEF NoWindow
      <4>2. CASE win[k] # NoWindow
        <5>1. PICK rs \in SUBSET Requests : rs = In(k)
          BY DEF In
        <5>2. win[k].held = Holding(resv, rs) /\ win[k].used = Billed(resv, rs)
          BY <4>2, <5>1 DEF BookInv, WindowAddsUp
        <5> QED
          BY <2>1, <5>2, BooksType
      <4> QED
        BY <4>1, <4>2
    <3>2. /\ win[k].start < win[k].end /\ win[k].start >= -1 /\ win[k].start <= MaxTime
          /\ win[k].start \in Int /\ win[k].end \in Int
      BY <2>1 DEF BookInv, WindowsOpen, Windows
    <3> QED
      BY <3>1, <3>2, BoundsAssumption
  <2>4. day \in [Days -> [requests : Nat, used : Nat, held : Nat]]
    <3> SUFFICES ASSUME NEW d \in Days
                 PROVE  day[d] \in [requests : Nat, used : Nat, held : Nat]
      BY <2>1
    <3>1. PICK rs \in SUBSET Requests : rs = On(d)
      BY DEF On
    <3>2. DayAddsUp(day[d], resv, rs)
      BY <3>1 DEF BookInv
    <3>3. day[d].requests \in Nat /\ day[d].used \in Nat /\ day[d].held \in Nat
      BY <2>1, <3>2, BooksType DEF DayAddsUp
    <3> QED
      BY <2>1, <3>3 DEF DayRows
  <2>5. ASSUME NEW r \in Requests
        PROVE  /\ resv[r].day \in Days \cup {-1}
               /\ \A k \in Kinds : resv[r].start[k] \in -1..MaxTime
               /\ req[r].pc \in {"none", "asked", "upstream", "refused", "streamed",
                                "over"}
               /\ req[r].served \in Usages \cup {0}
    <3>1. req[r] \in Handlers /\ resv[r] \in Reservations
      BY <2>1
    <3>2. Booked(r) /\ Timely(r)
      BY DEF BookInv
    <3>3. /\ resv[r].day \in Days \cup {-1}
          /\ \A k \in Kinds : resv[r].start[k] \in -1..MaxTime
      <4>1. CASE resv[r] = NoReservation
        BY <4>1, BoundsAssumption DEF NoReservation
      <4>2. CASE resv[r] # NoReservation
        <5>1. ASSUME NEW k \in Kinds PROVE resv[r].start[k] \in -1..MaxTime
          <6>1. 0 <= resv[r].start[k] /\ resv[r].start[k] <= win[k].start
            BY <3>2, <4>2 DEF Booked
          <6>2. win[k].start \in -1..MaxTime /\ resv[r].start[k] \in Int
            BY <2>3, <3>1 DEF Reservations
          <6> QED
            BY <6>1, <6>2, BoundsAssumption
        <5> QED
          BY <3>2, <4>2, <5>1 DEF Booked
      <4> QED
        BY <4>1, <4>2
    <3> QED
      BY <3>1, <3>2, <3>3 DEF Timely, Handlers
  <2> QED
    BY <2>2, <2>3, <2>4, <2>5 DEF TypeOK
<1> QED
  BY <1>1, BookInvInit, BookInvStep, PTL DEF Spec
=============================================================================
