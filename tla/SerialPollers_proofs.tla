----------------------- MODULE SerialPollers_proofs -----------------------
(***************************************************************************)
(* Proofs about SerialPollers for each of its programs, every number of    *)
(* attempts, every width of the counters and every number of answers under *)
(* way.                                                                    *)
(***************************************************************************)
EXTENDS SerialPollers, TLAPS

LEMMA NextCases ==
  ASSUME [Next]_vars
  PROVE  \/ main \notin {"exited", "crashed"} /\ Ths1000
         \/ main \notin {"exited", "crashed"} /\ Rh
         \/ main \notin {"exited", "crashed"} /\ Ambient
         \/ ThsServerFails \/ Signal \/ Shutdown \/ UNCHANGED vars
  BY DEF Next, Poller, Ended

-----------------------------------------------------------------------------
(* The line keeps its type and its bound, and a frame received is a good one. *)
LineOK == line \in Seq(Answers) /\ Len(line) <= LineBound

LEMMA ArrivalsOK ==
  ASSUME LineOK, NEW l \in Arrivals
  PROVE  l \in Seq(Answers) /\ Len(l) <= LineBound
<1>1. CASE l = line
  BY <1>1 DEF LineOK
<1>2. CASE \E a \in {"own", "junk"} : Len(line) < LineBound /\ l = Append(line, a)
  BY <1>2, ConstantsAssumption DEF LineOK, Answers
<1>3. QED
  BY <1>1, <1>2 DEF Arrivals

LEMMA RequestedOK ==
  ASSUME LineOK, line' = Requested
  PROVE  LineOK'
<1>1. /\ line' = [i \in 1..Len(line) |-> IF line[i] = "own" THEN "late" ELSE line[i]]
      /\ Len(line) \in Nat
      /\ \A i \in 1..Len(line) : line[i] \in Answers
  BY DEF LineOK, Requested
<1>2. \A i \in 1..Len(line) : line'[i] \in Answers
  BY <1>1 DEF Answers
<1>3. line' \in Seq(Answers)
  BY <1>1, <1>2
<1>4. Len(line') = Len(line)
  BY <1>1
<1>5. QED
  BY <1>3, <1>4 DEF LineOK

LEMMA ReceivesOK ==
  ASSUME LineOK, NEW a \in Answers, Receives(a)
  PROVE  LineOK' /\ a \in {"own", "late"}
<1>1. PICK l \in Arrivals : l # <<>> /\ line' = Tail(l)
  BY DEF Receives
<1>2. l \in Seq(Answers) /\ Len(l) <= LineBound
  BY ArrivalsOK
<1>3. Tail(l) \in Seq(Answers) /\ Len(Tail(l)) = Len(l) - 1
  BY <1>1, <1>2
<1>4. a \in {"own", "late"}
  BY DEF Receives, Answers
<1>5. QED
  BY <1>1, <1>2, <1>3, <1>4, ConstantsAssumption DEF LineOK

LEMMA ClosesOK ==
  ASSUME Closes
  PROVE  port' \in BOOLEAN /\ LineOK'
<1>1. <<>> \in Seq(Answers) /\ Len(<<>>) = 0
  OBVIOUS
<1>2. line' = <<>> /\ port' = FALSE
  BY DEF Closes
<1>3. line' \in Seq(Answers) /\ Len(line') = 0
  BY <1>1, <1>2
<1>4. 0 <= LineBound
  BY ConstantsAssumption
<1>5. QED
  BY <1>2, <1>3, <1>4 DEF LineOK

LEMMA FailsOK ==
  ASSUME LineOK, NEW k, Fails(k)
  PROVE  LineOK'
<1>1. PICK l \in Arrivals :
        \/ line' = l
        \/ l # <<>> /\ line' = <<"junk">> \o Tail(l)
        \/ l # <<>> /\ line' = Tail(l)
  BY DEF Fails
<1>2. l \in Seq(Answers) /\ Len(l) <= LineBound
  BY ArrivalsOK
<1>3. ASSUME l # <<>>
      PROVE  /\ Tail(l) \in Seq(Answers) /\ Len(Tail(l)) = Len(l) - 1
             /\ Len(l) \in Nat \ {0}
  BY <1>2, <1>3
<1>4. ASSUME l # <<>>
      PROVE  /\ <<"junk">> \o Tail(l) \in Seq(Answers)
             /\ Len(<<"junk">> \o Tail(l)) = Len(l)
  <2>1. <<"junk">> \in Seq(Answers) /\ Len(<<"junk">>) = 1
    BY DEF Answers
  <2>2. QED
    BY <1>3, <1>4, <2>1
<1>5. line' \in Seq(Answers) /\ Len(line') \in Nat /\ Len(line') <= Len(l)
  <2>1. CASE line' = l
    BY <1>2, <2>1
  <2>2. CASE l # <<>> /\ line' = <<"junk">> \o Tail(l)
    BY <1>3, <1>4, <2>2
  <2>3. CASE l # <<>> /\ line' = Tail(l)
    BY <1>3, <2>3
  <2>4. QED
    BY <1>1, <2>1, <2>2, <2>3
<1>6. QED
  BY <1>2, <1>5, ConstantsAssumption DEF LineOK
-----------------------------------------------------------------------------
(* What a poll has asked for, and its attempts, at each place of the pollers. *)
PollInv ==
  /\ pc \in {"connect", "mark", "failed", "retry"} => got = <<>>
  /\ driver = "ths1000" /\ pc = "sleep" => got = <<>>
  /\ pc \in {"poll", "answer"} => Len(got) < reads
  /\ pc = "store" => IF driver = "rh" THEN got # <<>> ELSE Len(got) = reads
  /\ (driver = "ths1000" /\ pc \in {"connect", "mark", "poll", "answer", "failed", "retry"}) =>
       tries < RetryMax

TypeInv == TypeOK /\ PollInv

LEMMA Configuration ==
  ASSUME TypeOK
  PROVE  /\ driver \in Programs
         /\ reads \in {1, 2, 3}
         /\ driver = "ambient" => reads = 3
         /\ LineOK
         /\ Len(got) \in Nat
  BY ConstantsAssumption DEF TypeOK, Reads, Programs, LineOK

LEMMA Constants ==
  RetryMax \in Nat \ {0} /\ CounterWidth \in Nat \ {0} /\ LineBound \in Nat \ {0}
  BY ConstantsAssumption

(* A poll that has got one answer more. *)
LEMMA AnswerOK ==
  ASSUME TypeInv, pc = "answer", NEW a \in Answers, Receives(a), got' = Append(got, a)
  PROVE  /\ got' \in Seq({"own", "late"})
         /\ Len(got') = Len(got) + 1
         /\ Len(got') <= reads
         /\ got' # <<>>
         /\ LineOK'
<1>1. a \in {"own", "late"} /\ LineOK' /\ Len(got) \in Nat /\ reads \in Nat
  BY Configuration, ReceivesOK DEF TypeInv
<1>2. /\ got' \in Seq({"own", "late"})
      /\ Len(got') = Len(got) + 1
  BY <1>1 DEF TypeInv, TypeOK
<1>3. Len(got) < reads
  BY DEF TypeInv, PollInv
<1>4. got' # <<>>
  BY <1>1, <1>2
<1>5. QED
  BY <1>1, <1>2, <1>3, <1>4

(* TypeOK in parts, each of which a step keeps or restores. *)
PollOK ==
  /\ pc \in PollerPC
  /\ got \in Seq({"own", "late"}) /\ Len(got) <= reads
  /\ tries \in 0..RetryMax
PortOK == port \in BOOLEAN /\ made \in BOOLEAN /\ LineOK
StatusOK == connected \in BOOLEAN /\ faulty \in BOOLEAN
ValuesOK == values \in [1..reads -> {"none", "own", "late"}]
CountersOK ==
  /\ errors \in [ErrorKinds -> 0..(CounterWidth - 1)]
  /\ retries \in 0..(CounterWidth - 1)
  /\ suspect \in BOOLEAN
MainOK == ctx \in BOOLEAN /\ main \in MainPC

LEMMA Parts ==
  ASSUME TypeOK
  PROVE  PollOK /\ PortOK /\ StatusOK /\ ValuesOK /\ CountersOK /\ MainOK
  BY DEF TypeOK, PollOK, PortOK, LineOK, StatusOK, ValuesOK, CountersOK, MainOK

LEMMA Whole ==
  ASSUME TypeOK, UNCHANGED config,
         PollOK', PortOK', StatusOK', ValuesOK', CountersOK', MainOK'
  PROVE  TypeOK'
<1>1. driver' = driver /\ reads' = reads
  BY DEF config
<1>2. QED
  BY <1>1 DEF TypeOK, PollOK, PortOK, LineOK, StatusOK, ValuesOK, CountersOK, MainOK

(* A part whose variables a step leaves alone is kept. *)
LEMMA Kept ==
  ASSUME TypeOK, UNCHANGED config
  PROVE  /\ UNCHANGED serial => PortOK'
         /\ UNCHANGED status => StatusOK'
         /\ UNCHANGED values => ValuesOK'
         /\ UNCHANGED counters => CountersOK'
         /\ UNCHANGED environment => MainOK'
<1>1. UNCHANGED serial => PortOK'
  BY Parts DEF PortOK, LineOK, serial
<1>2. UNCHANGED status => StatusOK'
  BY Parts DEF StatusOK, status
<1>3. UNCHANGED values => ValuesOK'
  BY Parts DEF ValuesOK, config
<1>4. UNCHANGED counters => CountersOK'
  BY Parts DEF CountersOK, counters
<1>5. UNCHANGED environment => MainOK'
  BY Parts DEF MainOK, environment
<1>6. QED
  BY <1>1, <1>2, <1>3, <1>4, <1>5

(* A step of a poll that keeps its answers or forgets them. *)
LEMMA PollStep ==
  ASSUME TypeOK, UNCHANGED config, pc' \in PollerPC, tries' \in {tries, 0},
         got' = got \/ got' = <<>>
  PROVE  PollOK'
<1>1. /\ got \in Seq({"own", "late"}) /\ Len(got) <= reads /\ reads \in Nat
      /\ reads' = reads
  BY Configuration DEF TypeOK, config
<1>2. <<>> \in Seq({"own", "late"}) /\ Len(<<>>) = 0
  OBVIOUS
<1>3. got' \in Seq({"own", "late"}) /\ Len(got') <= reads'
  <2>1. CASE got' = got
    BY <1>1, <2>1
  <2>2. CASE got' = <<>>
    BY <1>1, <1>2, <2>2
  <2>3. QED
    BY <2>1, <2>2
<1>4. tries' \in 0..RetryMax
  BY Constants DEF TypeOK
<1>5. QED
  BY <1>3, <1>4 DEF PollOK

LEMMA TypeThs ==
  ASSUME TypeInv, Ths1000
  PROVE  TypeInv'
<1> USE DEF TypeInv
<1>1. UNCHANGED config
  BY DEF Ths1000, ThsTop, ThsConnects, ThsConnectFails, ThsMark, ThsSend, ThsAnswer, ThsError,
         ThsFailed, ThsRetry, ThsSleep, ThsGiveUp, ThsClose, ThsUnmark, ThsStore, ThsWait
<1>2. PollOK'
  <2>1. CASE ThsAnswer
    <3>1. PICK a \in Answers : Receives(a) /\ got' = Append(got, a)
      BY <2>1 DEF ThsAnswer
    <3>2. got' \in Seq({"own", "late"}) /\ Len(got') <= reads
      BY <2>1, <3>1, AnswerOK DEF ThsAnswer, At
    <3>3. pc' \in PollerPC /\ tries' = tries /\ reads' = reads
      BY <2>1 DEF ThsAnswer, PollerPC, config
    <3>4. QED
      BY <3>2, <3>3, Parts DEF PollOK
  <2>2. CASE ThsRetry
    <3>1. tries' \in 0..RetryMax
      BY <2>2, Constants DEF ThsRetry, TypeOK, PollInv, At
    <3>2. pc' \in PollerPC /\ got' = got /\ reads' = reads
      BY <2>2 DEF ThsRetry, PollerPC, config
    <3>3. QED
      BY <3>1, <3>2, Parts DEF PollOK
  <2>3. CASE ThsTop \/ ThsConnects \/ ThsConnectFails \/ ThsMark
    BY <1>1, <2>3, PollStep DEF ThsTop, ThsConnects, ThsConnectFails, ThsMark, PollerPC, local
  <2>4. CASE ThsSend
    BY <1>1, <2>4, PollStep DEF ThsSend, At, PollerPC, local
  <2>5. CASE ThsError \/ ThsFailed \/ ThsSleep \/ ThsGiveUp
    BY <1>1, <2>5, PollStep DEF ThsError, ThsFailed, ThsSleep, ThsGiveUp, PollerPC, local
  <2>6. CASE ThsClose \/ ThsUnmark \/ ThsStore \/ ThsWait
    BY <1>1, <2>6, PollStep DEF ThsClose, At, ThsUnmark, ThsStore, ThsWait, PollerPC, local
  <2>7. QED
    BY <2>1, <2>2, <2>3, <2>4, <2>5, <2>6 DEF Ths1000
<1>3. PortOK'
  <2>1. CASE UNCHANGED serial
    BY <1>1, <2>1, Kept
  <2>2. CASE ThsConnects
    BY <2>2, Parts DEF ThsConnects, PortOK, LineOK
  <2>7. CASE ThsClose
    BY <2>7, Parts, ClosesOK DEF ThsClose, PortOK, LineOK
  <2>3. CASE ThsSend
    BY <2>3, Parts, RequestedOK DEF ThsSend, PortOK, LineOK
  <2>4. CASE ThsAnswer
    BY <2>4, Parts, ReceivesOK DEF ThsAnswer, PortOK
  <2>5. CASE ThsError
    BY <2>5, Parts, FailsOK DEF ThsError, PortOK, LineOK
  <2>6. QED
    BY <2>1, <2>2, <2>3, <2>4, <2>5, <2>7
       DEF Ths1000, ThsTop, ThsConnectFails, ThsMark, ThsFailed, ThsRetry, ThsSleep, ThsGiveUp,
           ThsUnmark, ThsStore, ThsWait
<1>4. StatusOK'
  <2>1. CASE UNCHANGED status
    BY <1>1, <2>1, Kept
  <2>2. CASE ThsMark \/ ThsFailed \/ ThsUnmark \/ ThsStore
    BY <2>2, Parts DEF ThsMark, ThsFailed, ThsUnmark, ThsStore, StatusOK
  <2>3. QED
    BY <2>1, <2>2
       DEF Ths1000, ThsTop, ThsConnects, ThsConnectFails, ThsSend, ThsAnswer, ThsError, ThsRetry,
           ThsSleep, ThsGiveUp, ThsClose, ThsWait
<1>5. ValuesOK'
  <2>1. CASE UNCHANGED values
    BY <1>1, <2>1, Kept
  <2>2. CASE ThsStore
    BY <1>1, <2>2 DEF ThsStore, TypeOK, PollInv, At, ValuesOK, config
  <2>3. QED
    BY <2>1, <2>2
       DEF Ths1000, ThsTop, ThsConnects, ThsConnectFails, ThsMark, ThsSend, ThsAnswer, ThsError,
           ThsFailed, ThsRetry, ThsSleep, ThsGiveUp, ThsClose, ThsUnmark, ThsWait
<1>6. CountersOK'
  <2>1. CASE UNCHANGED counters
    BY <1>1, <2>1, Kept
  <2>2. CASE ThsError
    <3>1. PICK k \in ErrorKinds : errors' = [errors EXCEPT ![k] = (@ + 1) % CounterWidth]
      BY <2>2 DEF ThsError
    <3>2. (errors[k] + 1) % CounterWidth \in 0..(CounterWidth - 1)
      BY Constants DEF TypeOK
    <3>3. retries' = retries /\ suspect' = TRUE
      BY <2>2 DEF ThsError
    <3>4. QED
      BY <3>1, <3>2, <3>3 DEF TypeOK, CountersOK
  <2>3. CASE ThsRetry
    BY <2>3, Constants DEF ThsRetry, TypeOK, CountersOK
  <2>4. CASE ThsUnmark
    BY <2>4, Parts DEF ThsUnmark, CountersOK
  <2>5. QED
    BY <2>1, <2>2, <2>3, <2>4
       DEF Ths1000, ThsTop, ThsConnects, ThsConnectFails, ThsMark, ThsSend, ThsAnswer, ThsFailed,
           ThsSleep, ThsGiveUp, ThsClose, ThsStore, ThsWait
<1>7. MainOK'
  <2>1. CASE UNCHANGED environment
    BY <1>1, <2>1, Kept
  <2>2. CASE ThsSend \/ ThsClose
    BY <2>2, Parts DEF ThsSend, ThsClose, MainOK, MainPC
  <2>3. QED
    BY <2>1, <2>2
       DEF Ths1000, ThsTop, ThsConnects, ThsConnectFails, ThsMark, ThsAnswer, ThsError,
           ThsFailed, ThsRetry, ThsSleep, ThsGiveUp, ThsUnmark, ThsStore, ThsWait
<1>8. PollInv'
  <2>1. CASE ThsAnswer
    <3>1. PICK a \in Answers : Receives(a) /\ got' = Append(got, a)
      BY <2>1 DEF ThsAnswer
    <3>2. Len(got') <= reads /\ Len(got') \in Nat /\ reads \in Nat
      BY <2>1, <3>1, AnswerOK, Configuration DEF ThsAnswer, At
    <3>3. QED
      BY <2>1, <3>2 DEF PollInv, ThsAnswer, At, config
  <2>2. CASE ThsTop \/ ThsConnects \/ ThsConnectFails \/ ThsMark
    BY <2>2, Constants, Configuration
       DEF PollInv, ThsTop, ThsConnects, ThsConnectFails, ThsMark, At, config, local, TypeOK
  <2>3. CASE ThsSend \/ ThsError \/ ThsFailed \/ ThsRetry
    BY <2>3 DEF PollInv, ThsSend, ThsError, ThsFailed, ThsRetry, At, config, local
  <2>4. CASE ThsSleep
    BY <2>4, Configuration DEF PollInv, ThsSleep, At, config, local
  <2>5. CASE ThsGiveUp \/ ThsClose \/ ThsUnmark \/ ThsStore \/ ThsWait
    BY <2>5 DEF PollInv, ThsGiveUp, ThsClose, ThsUnmark, ThsStore, ThsWait, At, config, local
  <2>6. QED
    BY <2>1, <2>2, <2>3, <2>4, <2>5 DEF Ths1000
<1>9. QED
  BY <1>1, <1>2, <1>3, <1>4, <1>5, <1>6, <1>7, <1>8, Whole

LEMMA TypeRh ==
  ASSUME TypeInv, Rh
  PROVE  TypeInv'
<1> USE DEF TypeInv
<1>1. UNCHANGED <<config, tries, counters, environment>>
  BY DEF Rh, RhTop, RhConnects, RhConnectFails, RhRefused, RhMark, RhSend, Send, RhAnswer,
         RhStore, RhClear, RhError, RhClose, RhUnmark, RhSleep, RhWait, local
<1>2. PollOK'
  <2>1. CASE RhAnswer
    <3>1. PICK a \in Answers : Receives(a) /\ got' = Append(got, a)
      BY <2>1 DEF RhAnswer
    <3>2. got' \in Seq({"own", "late"}) /\ Len(got') <= reads
      BY <2>1, <3>1, AnswerOK DEF RhAnswer, At
    <3>3. pc' \in PollerPC /\ tries' = tries /\ reads' = reads
      BY <1>1, <2>1 DEF RhAnswer, PollerPC, config
    <3>4. QED
      BY <3>2, <3>3, Parts DEF PollOK
  <2>2. CASE RhTop \/ RhConnects \/ RhConnectFails \/ RhRefused \/ RhMark
    BY <1>1, <2>2, PollStep
       DEF RhTop, RhConnects, RhConnectFails, RhRefused, RhMark, PollerPC, local
  <2>3. CASE RhSend \/ RhStore \/ RhClear \/ RhError
    BY <1>1, <2>3, PollStep DEF RhSend, Send, RhStore, RhClear, RhError, PollerPC, local
  <2>4. CASE RhClose \/ RhUnmark \/ RhSleep \/ RhWait
    BY <1>1, <2>4, PollStep DEF RhClose, RhUnmark, RhSleep, RhWait, PollerPC, local
  <2>5. QED
    BY <2>1, <2>2, <2>3, <2>4 DEF Rh
<1>3. PortOK'
  <2>1. CASE UNCHANGED serial
    BY <1>1, <2>1, Kept
  <2>2. CASE RhConnects
    BY <2>2, Parts DEF RhConnects, PortOK, LineOK
  <2>3. CASE RhSend
    BY <2>3, Parts, RequestedOK DEF RhSend, Send, PortOK, LineOK
  <2>4. CASE RhAnswer
    BY <2>4, Parts, ReceivesOK DEF RhAnswer, PortOK
  <2>5. CASE RhError
    BY <2>5, Parts, FailsOK DEF RhError, PortOK
  <2>6. CASE RhClose
    BY <2>6, Parts, ClosesOK DEF RhClose, PortOK, LineOK, local
  <2>7. QED
    BY <2>1, <2>2, <2>3, <2>4, <2>5, <2>6
       DEF Rh, RhTop, RhConnectFails, RhRefused, RhMark, RhStore, RhClear, RhUnmark, RhSleep,
           RhWait
<1>4. StatusOK'
  <2>1. CASE UNCHANGED status
    BY <1>1, <2>1, Kept
  <2>2. CASE RhConnectFails \/ RhRefused \/ RhMark
    BY <2>2, Parts DEF RhConnectFails, RhRefused, RhMark, StatusOK
  <2>3. CASE RhClear \/ RhError \/ RhUnmark
    BY <2>3, Parts DEF RhClear, RhError, RhUnmark, StatusOK
  <2>4. QED
    BY <2>1, <2>2, <2>3
       DEF Rh, RhTop, RhConnects, RhSend, Send, RhAnswer, RhStore, RhClose, RhSleep, RhWait
<1>5. ValuesOK'
  <2>1. CASE UNCHANGED values
    BY <1>1, <2>1, Kept
  <2>2. CASE RhStore
    <3>1. got \in Seq({"own", "late"}) /\ Len(got) \in 1..reads /\ got # <<>>
      BY <2>2, Configuration DEF RhStore, TypeOK, PollInv, At
    <3>2. got[Len(got)] \in {"own", "late"}
      BY <3>1
    <3>3. values' = [values EXCEPT ![Len(got)] = got[Len(got)]] /\ reads' = reads
      BY <1>1, <2>2 DEF RhStore, config
    <3>4. QED
      BY <3>2, <3>3, Parts DEF ValuesOK
  <2>3. QED
    BY <2>1, <2>2
       DEF Rh, RhTop, RhConnects, RhConnectFails, RhRefused, RhMark, RhSend, Send, RhAnswer,
           RhClear, RhError, RhClose, RhUnmark, RhSleep, RhWait
<1>6. CountersOK' /\ MainOK'
  BY <1>1, Kept
<1>7. PollInv'
  <2>1. CASE RhAnswer
    <3>1. PICK a \in Answers : Receives(a) /\ got' = Append(got, a)
      BY <2>1 DEF RhAnswer
    <3>2. got' # <<>>
      BY <2>1, <3>1, AnswerOK DEF RhAnswer, At
    <3>3. QED
      BY <1>1, <2>1, <3>2 DEF PollInv, RhAnswer, At, config
  <2>2. CASE RhTop
    BY <1>1, <2>2 DEF PollInv, RhTop, At, config
  <2>3. CASE RhConnects \/ RhConnectFails \/ RhRefused
    BY <1>1, <2>3 DEF PollInv, RhConnects, RhConnectFails, RhRefused, At, config, local
  <2>4. CASE RhMark
    BY <1>1, <2>4, Configuration DEF PollInv, RhMark, At, config, local
  <2>5. CASE RhSend \/ RhStore \/ RhClear
    BY <1>1, <2>5 DEF PollInv, RhSend, Send, RhStore, RhClear, At, config, local
  <2>6. CASE RhError \/ RhClose \/ RhUnmark
    BY <1>1, <2>6 DEF PollInv, RhError, RhClose, RhUnmark, At, config, local
  <2>7. CASE RhSleep \/ RhWait
    BY <1>1, <2>7 DEF PollInv, RhSleep, RhWait, At, config, local
  <2>8. QED
    BY <2>1, <2>2, <2>3, <2>4, <2>5, <2>6, <2>7 DEF Rh
<1>8. QED
  BY <1>1, <1>2, <1>3, <1>4, <1>5, <1>6, <1>7, Whole

LEMMA TypeAmbient ==
  ASSUME TypeInv, Ambient
  PROVE  TypeInv'
<1> USE DEF TypeInv
<1>1. UNCHANGED <<config, tries, counters, environment>>
  BY DEF Ambient, AmbientStart, AmbientTop, AmbientConnects, AmbientConnectFails, AmbientMark,
         AmbientSend, AmbientSendFails, Send, AmbientAnswer, AmbientError, AmbientClose,
         AmbientUnmark, AmbientSleep, AmbientStore, AmbientClear, AmbientWait, local
<1>2. PollOK'
  <2>1. CASE AmbientAnswer
    <3>1. PICK a \in Answers : Receives(a) /\ got' = Append(got, a)
      BY <2>1 DEF AmbientAnswer
    <3>2. got' \in Seq({"own", "late"}) /\ Len(got') <= reads
      BY <2>1, <3>1, AnswerOK DEF AmbientAnswer, At
    <3>3. pc' \in PollerPC /\ tries' = tries /\ reads' = reads
      BY <1>1, <2>1 DEF AmbientAnswer, PollerPC, config
    <3>4. QED
      BY <3>2, <3>3, Parts DEF PollOK
  <2>2. CASE AmbientStart \/ AmbientTop \/ AmbientConnects \/ AmbientConnectFails
    BY <1>1, <2>2, PollStep
       DEF AmbientStart, AmbientTop, AmbientConnects, AmbientConnectFails, PollerPC, local
  <2>3. CASE AmbientMark \/ AmbientSend \/ AmbientSendFails \/ AmbientError
    BY <1>1, <2>3, PollStep
       DEF AmbientMark, AmbientSend, Send, AmbientSendFails, AmbientError, PollerPC, local
  <2>4. CASE AmbientClose \/ AmbientUnmark \/ AmbientSleep
    BY <1>1, <2>4, PollStep DEF AmbientClose, AmbientUnmark, AmbientSleep, PollerPC, local
  <2>5. CASE AmbientStore \/ AmbientClear \/ AmbientWait
    BY <1>1, <2>5, PollStep DEF AmbientStore, AmbientClear, AmbientWait, PollerPC, local
  <2>6. QED
    BY <2>1, <2>2, <2>3, <2>4, <2>5 DEF Ambient
<1>3. PortOK'
  <2>1. CASE UNCHANGED serial
    BY <1>1, <2>1, Kept
  <2>2. CASE AmbientConnects
    BY <2>2, Parts DEF AmbientConnects, PortOK, LineOK
  <2>3. CASE AmbientSend
    BY <2>3, Parts, RequestedOK DEF AmbientSend, Send, PortOK, LineOK
  <2>4. CASE AmbientAnswer
    BY <2>4, Parts, ReceivesOK DEF AmbientAnswer, PortOK
  <2>5. CASE AmbientError
    BY <2>5, Parts, FailsOK DEF AmbientError, PortOK
  <2>6. CASE AmbientClose
    BY <2>6, Parts, ClosesOK DEF AmbientClose, PortOK, LineOK, local
  <2>7. QED
    BY <2>1, <2>2, <2>3, <2>4, <2>5, <2>6
       DEF Ambient, AmbientStart, AmbientTop, AmbientConnectFails, AmbientMark, AmbientSendFails,
           AmbientUnmark, AmbientSleep, AmbientStore, AmbientClear, AmbientWait
<1>4. StatusOK'
  <2>1. CASE UNCHANGED status
    BY <1>1, <2>1, Kept
  <2>2. CASE AmbientConnectFails \/ AmbientMark \/ AmbientSendFails
    BY <2>2, Parts DEF AmbientConnectFails, AmbientMark, AmbientSendFails, StatusOK
  <2>3. CASE AmbientError \/ AmbientUnmark \/ AmbientClear
    BY <2>3, Parts DEF AmbientError, AmbientUnmark, AmbientClear, StatusOK
  <2>4. QED
    BY <2>1, <2>2, <2>3
       DEF Ambient, AmbientStart, AmbientTop, AmbientConnects, AmbientSend, Send, AmbientAnswer,
           AmbientClose, AmbientSleep, AmbientStore, AmbientWait
<1>5. ValuesOK'
  <2>1. CASE UNCHANGED values
    BY <1>1, <2>1, Kept
  <2>2. CASE AmbientStore
    BY <1>1, <2>2 DEF AmbientStore, TypeOK, PollInv, At, ValuesOK, config
  <2>3. QED
    BY <2>1, <2>2
       DEF Ambient, AmbientStart, AmbientTop, AmbientConnects, AmbientConnectFails, AmbientMark,
           AmbientSend, AmbientSendFails, Send, AmbientAnswer, AmbientError, AmbientClose,
           AmbientUnmark, AmbientSleep, AmbientClear, AmbientWait
<1>6. CountersOK' /\ MainOK'
  BY <1>1, Kept
<1>7. PollInv'
  <2>1. CASE AmbientAnswer
    <3>1. PICK a \in Answers : Receives(a) /\ got' = Append(got, a)
      BY <2>1 DEF AmbientAnswer
    <3>2. Len(got') <= reads /\ Len(got') \in Nat /\ reads \in Nat
      BY <2>1, <3>1, AnswerOK, Configuration DEF AmbientAnswer, At
    <3>3. QED
      BY <1>1, <2>1, <3>2 DEF PollInv, AmbientAnswer, At, config
  <2>2. CASE AmbientTop
    BY <1>1, <2>2, Configuration DEF PollInv, AmbientTop, At, config
  <2>3. CASE AmbientStart \/ AmbientConnects \/ AmbientConnectFails
    BY <1>1, <2>3 DEF PollInv, AmbientStart, AmbientConnects, AmbientConnectFails, At, config, local
  <2>4. CASE AmbientMark
    BY <1>1, <2>4, Configuration DEF PollInv, AmbientMark, At, config, local
  <2>5. CASE AmbientSend \/ AmbientSendFails \/ AmbientError
    BY <1>1, <2>5 DEF PollInv, AmbientSend, Send, AmbientSendFails, AmbientError, At, config, local
  <2>6. CASE AmbientClose \/ AmbientUnmark \/ AmbientSleep
    BY <1>1, <2>6 DEF PollInv, AmbientClose, AmbientUnmark, AmbientSleep, At, config, local
  <2>7. CASE AmbientStore \/ AmbientClear \/ AmbientWait
    BY <1>1, <2>7 DEF PollInv, AmbientStore, AmbientClear, AmbientWait, At, config, local
  <2>8. QED
    BY <2>1, <2>2, <2>3, <2>4, <2>5, <2>6, <2>7 DEF Ambient
<1>8. QED
  BY <1>1, <1>2, <1>3, <1>4, <1>5, <1>6, <1>7, Whole

(* The steps of main do not touch what the poll has got. *)
LEMMA TypeMain ==
  ASSUME TypeInv, ThsServerFails \/ Signal \/ Shutdown
  PROVE  TypeInv'
<1> USE DEF TypeInv
<1>1. UNCHANGED poller
  BY DEF ThsServerFails, Signal, Shutdown, ThsDrained, ThsCheckPort, ThsMainCloses,
         AmbientMainCloses, MainUnmarks, RhCancels, RhCloses, Waits
<1>2. UNCHANGED <<config, pc, local, made, values, faulty, counters>>
  BY <1>1 DEF poller
<1>3. PollOK'
  BY <1>2, Parts, PollStep DEF local, PollOK
<1>4. PortOK'
  <2>1. CASE UNCHANGED <<port, line>>
    BY <1>2, <2>1, Kept DEF serial
  <2>2. CASE Closes
    BY <1>2, <2>2, Parts, ClosesOK DEF PortOK
  <2>3. QED
    BY <2>1, <2>2
       DEF ThsServerFails, Signal, Shutdown, ThsDrained, ThsCheckPort, ThsMainCloses,
           AmbientMainCloses, MainUnmarks, RhCancels, RhCloses, Waits
<1>5. StatusOK'
  <2>1. connected' \in {connected, FALSE}
    BY DEF ThsServerFails, Signal, Shutdown, ThsDrained, ThsCheckPort, ThsMainCloses,
           AmbientMainCloses, MainUnmarks, RhCancels, RhCloses, Waits
  <2>2. QED
    BY <1>2, <2>1, Parts DEF StatusOK
<1>6. ValuesOK' /\ CountersOK'
  BY <1>2, Kept
<1>7. MainOK'
  <2>1. main' \in MainPC
    BY Parts DEF MainOK, MainPC, ThsServerFails, Signal, Shutdown, ThsDrained, ThsCheckPort,
           ThsMainCloses, AmbientMainCloses, MainUnmarks, RhCancels, RhCloses, Waits
  <2>2. ctx' \in BOOLEAN
    BY Parts DEF MainOK, ThsServerFails, Signal, Shutdown, ThsDrained, ThsCheckPort,
           ThsMainCloses, AmbientMainCloses, MainUnmarks, RhCancels, RhCloses, Waits
  <2>3. QED
    BY <2>1, <2>2 DEF MainOK
<1>8. PollInv'
  BY <1>2 DEF PollInv, config, local
<1>9. QED
  BY <1>2, <1>3, <1>4, <1>5, <1>6, <1>7, <1>8, Whole

LEMMA TypeInit ==
  ASSUME Init
  PROVE  TypeInv
<1>1. <<>> \in Seq({"own", "late"}) /\ <<>> \in Seq(Answers) /\ Len(<<>>) = 0
  OBVIOUS
<1>2. reads \in {1, 2, 3}
  BY ConstantsAssumption DEF Init, Reads, Programs
<1>3. /\ driver \in Drivers /\ reads \in Reads(driver)
      /\ got = <<>> /\ line = <<>>
  BY DEF Init
<1>4. got \in Seq({"own", "late"}) /\ Len(got) = 0 /\ line \in Seq(Answers) /\ Len(line) = 0
  BY <1>1, <1>3
<1>5. /\ values \in [1..reads -> {"none", "own", "late"}]
      /\ errors \in [ErrorKinds -> 0..(CounterWidth - 1)]
  BY Constants DEF Init
<1>6. pc \in {"start", "top"} /\ tries = 0 /\ port = FALSE /\ made = FALSE /\ connected = FALSE
  BY DEF Init
<1>7. faulty \in BOOLEAN /\ retries = 0 /\ suspect = FALSE /\ ctx = FALSE /\ main = "serving"
  BY DEF Init
<1>8. TypeOK
  <2>1. Len(got) <= reads /\ Len(line) <= LineBound
    BY <1>2, <1>4, Constants
  <2>2. pc \in PollerPC /\ main \in MainPC
    BY <1>6, <1>7 DEF PollerPC, MainPC
  <2>3. tries \in 0..RetryMax /\ retries \in 0..(CounterWidth - 1)
    BY <1>6, <1>7, Constants
  <2>4. port \in BOOLEAN /\ made \in BOOLEAN /\ connected \in BOOLEAN /\ ctx \in BOOLEAN
    BY <1>6, <1>7
  <2>5. QED
    BY <1>3, <1>4, <1>5, <1>7, <2>1, <2>2, <2>3, <2>4 DEF TypeOK
<1>9. PollInv
  BY <1>2, <1>4, <1>6 DEF PollInv
<1>10. QED
  BY <1>8, <1>9 DEF TypeInv

LEMMA TypeInductive ==
  ASSUME TypeInv, [Next]_vars
  PROVE  TypeInv'
<1>1. CASE UNCHANGED vars
  BY <1>1 DEF vars, config, local, serial, status, counters, environment, TypeInv, TypeOK, PollInv
<1>2. QED
  BY <1>1, NextCases, TypeThs, TypeRh, TypeAmbient, TypeMain

(* Every variable stays within its type: of the serial line and of a poll this *)
(* says that neither ever holds more than the sensor can have sent.            *)
THEOREM TypeCorrect == Spec => []TypeOK
<1>1. Init => TypeInv
  BY TypeInit
<1>2. TypeInv /\ [Next]_vars => TypeInv'
  BY TypeInductive
<1>3. TypeInv => TypeOK
  BY DEF TypeInv
<1>4. QED
  BY <1>1, <1>2, <1>3, PTL DEF Spec

-----------------------------------------------------------------------------
(* The answers: outside ths1000 nothing is under way but between a request *)
(* and what the driver does with its answer, a failure being followed by a *)
(* close.                                                                  *)
LineInv ==
  driver # "ths1000" =>
    /\ pc # "close" => line = <<>>
    /\ \A i \in 1..Len(got) : got[i] = "own"
    /\ \A i \in 1..reads : values[i] # "late"

(* With an empty line, the frame received is the answer to the request. *)
LEMMA FreshAnswer ==
  ASSUME line = <<>>, NEW a, Receives(a)
  PROVE  a = "own" /\ line' = <<>>
<1>1. PICK l \in Arrivals : l # <<>> /\ Head(l) = a /\ a # "junk" /\ line' = Tail(l)
  BY DEF Receives
<1>2. PICK b \in {"own", "junk"} : l = Append(<<>>, b)
  BY <1>1 DEF Arrivals
<1>3. l = <<b>>
  BY <1>2
<1>4. Head(l) = b /\ Tail(l) = <<>>
  BY <1>3
<1>5. QED
  BY <1>1, <1>2, <1>4

LEMMA FreshPoll ==
  ASSUME TypeInv, LineInv, driver # "ths1000", pc = "answer",
         NEW a \in Answers, Receives(a), got' = Append(got, a)
  PROVE  line' = <<>> /\ \A i \in 1..Len(got') : got'[i] = "own"
<1>1. a = "own" /\ line' = <<>>
  BY FreshAnswer DEF LineInv
<1>2. got \in Seq({"own", "late"}) /\ Len(got) \in Nat /\ \A i \in 1..Len(got) : got[i] = "own"
  BY Configuration DEF TypeInv, TypeOK, LineInv
<1>3. QED
  BY <1>1, <1>2

LEMMA EmptyRequested ==
  ASSUME line = <<>>
  PROVE  Requested = <<>>
<1>1. Requested = [i \in 1..0 |-> IF line[i] = "own" THEN "late" ELSE line[i]]
  BY DEF Requested
<1>2. QED
  BY <1>1

LEMMA LineRh ==
  ASSUME TypeInv, LineInv, Rh
  PROVE  LineInv'
<1>1. driver = "rh" /\ UNCHANGED <<driver, reads>>
  BY DEF Rh, RhTop, RhConnects, RhConnectFails, RhRefused, RhMark, RhSend, Send, RhAnswer,
         RhStore, RhClear, RhError, RhClose, RhUnmark, RhSleep, RhWait, At, config
<1>2. CASE RhTop
  BY <1>1, <1>2 DEF LineInv, RhTop, At, serial
<1>3. CASE RhConnects \/ RhConnectFails \/ RhRefused \/ RhMark
  BY <1>1, <1>3 DEF LineInv, RhConnects, RhConnectFails, RhRefused, RhMark, At, local, serial
<1>4. CASE RhSend
  BY <1>1, <1>4, EmptyRequested DEF LineInv, RhSend, Send, At, local
<1>5. CASE RhAnswer
  BY <1>1, <1>5, FreshPoll DEF LineInv, RhAnswer, At
<1>6. CASE RhStore
  <2>1. got \in Seq({"own", "late"}) /\ got # <<>>
    BY <1>1, <1>6 DEF TypeInv, TypeOK, PollInv, RhStore, At
  <2>2. got[Len(got)] = "own"
    BY <1>1, <2>1 DEF LineInv
  <2>3. \A i \in 1..reads : values'[i] # "late"
    BY <1>1, <1>6, <2>2 DEF LineInv, TypeInv, TypeOK, RhStore
  <2>4. QED
    BY <1>1, <1>6, <2>3 DEF LineInv, RhStore, At, local, serial
<1>7. CASE RhError
  BY <1>1, <1>7 DEF LineInv, RhError, At, local
<1>8. CASE RhClose
  BY <1>1, <1>8 DEF LineInv, RhClose, Closes, At, local
<1>9. CASE RhClear \/ RhUnmark \/ RhSleep \/ RhWait
  BY <1>1, <1>9 DEF LineInv, RhClear, RhUnmark, RhSleep, RhWait, At, local, serial
<1>10. QED
  BY <1>2, <1>3, <1>4, <1>5, <1>6, <1>7, <1>8, <1>9 DEF Rh

LEMMA LineAmbient ==
  ASSUME TypeInv, LineInv, Ambient
  PROVE  LineInv'
<1>1. driver = "ambient" /\ UNCHANGED <<driver, reads>>
  BY DEF Ambient, AmbientStart, AmbientTop, AmbientConnects, AmbientConnectFails, AmbientMark,
         AmbientSend, AmbientSendFails, Send, AmbientAnswer, AmbientError, AmbientClose,
         AmbientUnmark, AmbientSleep, AmbientStore, AmbientClear, AmbientWait, At, config
<1>2. CASE AmbientTop
  BY <1>1, <1>2 DEF LineInv, AmbientTop, At, serial
<1>3. CASE AmbientStart \/ AmbientConnects \/ AmbientConnectFails \/ AmbientMark
  BY <1>1, <1>3
     DEF LineInv, AmbientStart, AmbientConnects, AmbientConnectFails, AmbientMark, At, local, serial
<1>4. CASE AmbientSend
  BY <1>1, <1>4, EmptyRequested DEF LineInv, AmbientSend, Send, At, local
<1>5. CASE AmbientAnswer
  BY <1>1, <1>5, FreshPoll DEF LineInv, AmbientAnswer, At
<1>6. CASE AmbientStore
  <2>1. Len(got) = reads /\ values' = got /\ UNCHANGED <<got, line>>
    BY <1>1, <1>6 DEF TypeInv, PollInv, AmbientStore, At, local, serial
  <2>2. QED
    BY <1>1, <1>6, <2>1 DEF LineInv, AmbientStore, At
<1>7. CASE AmbientError \/ AmbientSendFails
  BY <1>1, <1>7 DEF LineInv, AmbientError, AmbientSendFails, At, local, serial
<1>8. CASE AmbientClose
  BY <1>1, <1>8 DEF LineInv, AmbientClose, Closes, At, local
<1>9. CASE AmbientClear \/ AmbientUnmark \/ AmbientSleep \/ AmbientWait
  BY <1>1, <1>9
     DEF LineInv, AmbientClear, AmbientUnmark, AmbientSleep, AmbientWait, At, local, serial
<1>10. QED
  BY <1>2, <1>3, <1>4, <1>5, <1>6, <1>7, <1>8, <1>9 DEF Ambient

LEMMA LineInductive ==
  ASSUME TypeInv, LineInv, [Next]_vars
  PROVE  LineInv'
<1>1. CASE Ths1000
  BY <1>1 DEF LineInv, Ths1000, ThsTop, ThsConnects, ThsConnectFails, ThsMark, ThsSend, ThsAnswer,
         ThsError, ThsFailed, ThsRetry, ThsSleep, ThsGiveUp, ThsClose, ThsUnmark, ThsStore, ThsWait,
         At, config
<1>2. CASE ThsServerFails \/ Signal \/ Shutdown
  <2>1. UNCHANGED <<driver, reads, pc, got, values>>
    BY <1>2 DEF ThsServerFails, Signal, Shutdown, ThsDrained, ThsCheckPort, ThsMainCloses,
           AmbientMainCloses, MainUnmarks, RhCancels, RhCloses, Waits, poller, config, local
  <2>2. line' \in {line, <<>>}
    BY <1>2 DEF ThsServerFails, Signal, Shutdown, ThsDrained, ThsCheckPort, ThsMainCloses,
           AmbientMainCloses, MainUnmarks, RhCancels, RhCloses, Waits, Closes
  <2>3. QED
    BY <2>1, <2>2 DEF LineInv
<1>3. CASE UNCHANGED vars
  BY <1>3 DEF LineInv, vars, config, local, serial
<1>4. QED
  BY <1>1, <1>2, <1>3, NextCases, LineRh, LineAmbient

(* rh and ambient serve no value that was decoded from the answer to another *)
(* request: they close the port after every failure (driver.go of both).     *)
THEOREM ClosedLineTheorem == Spec => []ClosedLineAnswers
<1>1. Init => TypeInv /\ LineInv
  <2>1. ASSUME Init PROVE LineInv
    BY <2>1 DEF Init, LineInv
  <2>2. QED
    BY <2>1, TypeInit
<1>2. TypeInv /\ LineInv /\ [Next]_vars => (TypeInv /\ LineInv)'
  BY TypeInductive, LineInductive
<1>3. TypeInv /\ LineInv => ClosedLineAnswers
  BY DEF TypeInv, TypeOK, LineInv, ClosedLineAnswers
<1>4. QED
  BY <1>1, <1>2, <1>3, PTL DEF Spec

-----------------------------------------------------------------------------
(* ths1000: a closed port has nothing on its line, and the poller gives up *)
(* on the requests that failed only when it is closed and the poll is over. *)
ResyncInv ==
  driver = "ths1000" =>
    /\ ~port => line = <<>>
    /\ pc \in {"connect", "unmark"} => ~port
    /\ pc \in {"giveup", "close", "unmark"} => got = <<>>
    /\ ~suspect => line = <<>> /\ \A i \in 1..Len(got) : got[i] = "own"

LEMMA ResyncThs ==
  ASSUME TypeInv, ResyncInv, Ths1000
  PROVE  ResyncInv'
<1>1. driver = "ths1000" /\ driver' = "ths1000"
  BY DEF Ths1000, ThsTop, ThsConnects, ThsConnectFails, ThsMark, ThsSend, ThsAnswer, ThsError,
         ThsFailed, ThsRetry, ThsSleep, ThsGiveUp, ThsClose, ThsUnmark, ThsStore, ThsWait, At,
         config
<1>2. CASE ThsTop \/ ThsConnects \/ ThsConnectFails \/ ThsMark
  BY <1>1, <1>2
     DEF ResyncInv, ThsTop, ThsConnects, ThsConnectFails, ThsMark, At, local, serial, counters
<1>3. CASE ThsSend
  BY <1>1, <1>3, EmptyRequested DEF ResyncInv, ThsSend, At, local, counters
<1>4. CASE ThsAnswer
  <2>1. PICK a \in Answers : Receives(a) /\ got' = Append(got, a)
    BY <1>4 DEF ThsAnswer
  <2>2. /\ pc' \in {"poll", "store"} /\ port /\ port' = port
        /\ suspect' = suspect
    BY <1>4 DEF ThsAnswer, counters
  <2>3. ASSUME ~suspect
        PROVE  line' = <<>> /\ \A i \in 1..Len(got') : got'[i] = "own"
    <3>1. line = <<>> /\ \A i \in 1..Len(got) : got[i] = "own"
      BY <1>1, <2>3 DEF ResyncInv
    <3>2. a = "own" /\ line' = <<>>
      BY <2>1, <3>1, FreshAnswer
    <3>3. got \in Seq({"own", "late"}) /\ Len(got) \in Nat
      BY Configuration DEF TypeInv, TypeOK
    <3>4. QED
      BY <2>1, <3>1, <3>2, <3>3
  <2>4. QED
    BY <2>2, <2>3 DEF ResyncInv
<1>5. CASE ThsError
  BY <1>1, <1>5 DEF ResyncInv, ThsError
<1>6. CASE ThsFailed \/ ThsRetry \/ ThsStore \/ ThsWait
  BY <1>1, <1>6 DEF ResyncInv, ThsFailed, ThsRetry, ThsStore, ThsWait, At, local, serial, counters
<1>7. CASE ThsSleep
  BY <1>1, <1>7 DEF ResyncInv, TypeInv, PollInv, ThsSleep, At, local, serial, counters
<1>8. CASE ThsGiveUp \/ ThsClose
  BY <1>1, <1>8 DEF ResyncInv, ThsGiveUp, ThsClose, Closes, At, local, serial, counters
<1>9. CASE ThsUnmark
  <2>1. line' = <<>> /\ got' = <<>> /\ pc' = "top"
    BY <1>1, <1>9 DEF ResyncInv, ThsUnmark, At, local, serial
  <2>2. \A i \in 1..Len(<<>>) : <<>>[i] = "own"
    OBVIOUS
  <2>3. QED
    BY <2>1, <2>2 DEF ResyncInv
<1>10. QED
  BY <1>2, <1>3, <1>4, <1>5, <1>6, <1>7, <1>8, <1>9 DEF Ths1000

LEMMA ResyncInductive ==
  ASSUME TypeInv, ResyncInv, [Next]_vars
  PROVE  ResyncInv'
<1>1. CASE driver' # "ths1000"
  BY <1>1 DEF ResyncInv
<1>2. CASE Rh
  BY <1>1, <1>2 DEF Rh, RhTop, RhConnects, RhConnectFails, RhRefused, RhMark, RhSend, Send,
         RhAnswer, RhStore, RhClear, RhError, RhClose, RhUnmark, RhSleep, RhWait, At, config
<1>3. CASE Ambient
  BY <1>1, <1>3 DEF Ambient, AmbientStart, AmbientTop, AmbientConnects, AmbientConnectFails,
         AmbientMark, AmbientSend, AmbientSendFails, Send, AmbientAnswer, AmbientError,
         AmbientClose,
         AmbientUnmark, AmbientSleep, AmbientStore, AmbientClear, AmbientWait, At, config
<1>4. CASE ThsServerFails \/ Signal \/ Shutdown
  <2>1. UNCHANGED <<driver, pc, got, suspect>>
    BY <1>4 DEF ThsServerFails, Signal, Shutdown, ThsDrained, ThsCheckPort, ThsMainCloses,
           AmbientMainCloses, MainUnmarks, RhCancels, RhCloses, Waits, poller, config, local,
           counters
  <2>2. Closes \/ UNCHANGED <<port, line>>
    BY <1>4 DEF ThsServerFails, Signal, Shutdown, ThsDrained, ThsCheckPort, ThsMainCloses,
           AmbientMainCloses, MainUnmarks, RhCancels, RhCloses, Waits
  <2>3. QED
    BY <2>1, <2>2 DEF ResyncInv, Closes
<1>5. CASE UNCHANGED vars
  BY <1>5 DEF ResyncInv, vars, config, local, serial, counters
<1>6. QED
  BY <1>2, <1>3, <1>4, <1>5, NextCases, ResyncThs

(* After ths1000 has given up, by runPoller's close of the port, it takes no *)
(* late answer until a request fails again, wherever main's close falls.     *)
THEOREM GivingUpResyncsTheorem == Spec => []GivingUpResyncs
<1>1. Init => TypeInv /\ ResyncInv
  <2>1. ASSUME Init PROVE ResyncInv
    BY <2>1 DEF Init, ResyncInv
  <2>2. QED
    BY <2>1, TypeInit
<1>2. TypeInv /\ ResyncInv /\ [Next]_vars => (TypeInv /\ ResyncInv)'
  BY TypeInductive, ResyncInductive
<1>3. TypeInv /\ ResyncInv => GivingUpResyncs
  BY DEF TypeInv, TypeOK, ResyncInv, GivingUpResyncs
<1>4. QED
  BY <1>1, <1>2, <1>3, PTL DEF Spec

-----------------------------------------------------------------------------
(* The counters.  Owed is what the kinds of error count and the retries do *)
(* not count yet; the counters differ from it by whole turns around.       *)
Owed == IF pc \in {"failed", "retry"} THEN 1 ELSE 0
Surplus == errors["timeout"] + errors["crc"] + errors["io"] - retries - Owed
CountInv ==
  driver = "ths1000" => Surplus \in {-CounterWidth, 0, CounterWidth, 2 * CounterWidth}

LEMMA Turn ==
  ASSUME NEW x \in Int
  PROVE  /\ (x + CounterWidth) % CounterWidth = x % CounterWidth
         /\ (x - CounterWidth) % CounterWidth = x % CounterWidth
<1>1. CounterWidth \in Nat /\ CounterWidth > 0
  BY Constants
<1>2. PICK q \in Int, r \in 0..(CounterWidth - 1) : x = CounterWidth * q + r
  <2>1. x = CounterWidth * (x \div CounterWidth) + (x % CounterWidth)
    BY <1>1
  <2>2. x \div CounterWidth \in Int /\ x % CounterWidth \in 0..(CounterWidth - 1)
    BY <1>1
  <2>3. QED
    BY <2>1, <2>2
<1>3. QED
  BY <1>1, <1>2

LEMMA Counted ==
  ASSUME NEW n \in 0..(CounterWidth - 1)
  PROVE  (n + 1) % CounterWidth = IF n + 1 = CounterWidth THEN 0 ELSE n + 1
  BY Constants

LEMMA CountOf ==
  ASSUME TypeOK
  PROVE  /\ errors["timeout"] \in 0..(CounterWidth - 1)
         /\ errors["crc"] \in 0..(CounterWidth - 1)
         /\ errors["io"] \in 0..(CounterWidth - 1)
         /\ retries \in 0..(CounterWidth - 1)
  BY DEF TypeOK, ErrorKinds

LEMMA CountInductive ==
  ASSUME TypeInv, CountInv, [Next]_vars
  PROVE  CountInv'
<1> USE CountOf DEF TypeInv
<1>1. CASE UNCHANGED <<driver, errors, retries, Owed>>
  BY <1>1 DEF CountInv, Surplus
<1>2. CASE ThsError
  <2>1. PICK k \in {"timeout", "crc", "io"} :
          errors' = [errors EXCEPT ![k] = (@ + 1) % CounterWidth]
    BY <1>2 DEF ThsError, ErrorKinds
  <2>2. Owed = 0 /\ Owed' = 1 /\ driver = "ths1000" /\ retries' = retries
    BY <1>2 DEF ThsError, At, Owed
  <2>3. errors[k] \in 0..(CounterWidth - 1)
    BY <2>1
  <2>4. \A j \in {"timeout", "crc", "io"} :
          errors'[j] = IF j # k THEN errors[j]
                       ELSE IF errors[j] + 1 = CounterWidth THEN 0 ELSE errors[j] + 1
    BY <2>1, <2>3, Counted DEF TypeOK, ErrorKinds
  <2>5. Surplus' \in {Surplus, Surplus - CounterWidth}
    <3>1. CASE k = "timeout"
      BY <2>2, <2>4, <3>1, Constants DEF Surplus
    <3>2. CASE k = "crc"
      BY <2>2, <2>4, <3>2, Constants DEF Surplus
    <3>3. CASE k = "io"
      BY <2>2, <2>4, <3>3, Constants DEF Surplus
    <3>4. QED
      BY <2>1, <3>1, <3>2, <3>3
  <2>6. Surplus \in {0, CounterWidth, 2 * CounterWidth}
    BY <2>2, Constants DEF CountInv, Surplus
  <2>7. QED
    BY <2>5, <2>6, Constants DEF CountInv
<1>3. CASE ThsRetry
  <2>1. Owed = 1 /\ Owed' = 0 /\ driver = "ths1000" /\ errors' = errors
    BY <1>3 DEF ThsRetry, At, Owed
  <2>2. retries' = IF retries + 1 = CounterWidth THEN 0 ELSE retries + 1
    BY <1>3, Counted DEF ThsRetry
  <2>3. Surplus' \in {Surplus, Surplus + CounterWidth}
    BY <2>1, <2>2, Constants DEF Surplus
  <2>4. Surplus' > -CounterWidth /\ Surplus' < 3 * CounterWidth
    BY <2>1, <2>2, Constants DEF Surplus
  <2>5. QED
    BY <2>1, <2>3, <2>4, Constants DEF CountInv
<1>4. CASE Ths1000 /\ ~ThsError /\ ~ThsRetry
  BY <1>1, <1>4
     DEF Ths1000, ThsTop, ThsConnects, ThsConnectFails, ThsMark, ThsSend, ThsAnswer, ThsFailed,
         ThsSleep, ThsGiveUp, ThsClose, ThsUnmark, ThsStore, ThsWait, At, Owed, config,
         counters
<1>5. CASE driver' # "ths1000"
  BY <1>5 DEF CountInv
<1>6. CASE Rh \/ Ambient
  <2>1. CASE Rh
    BY <1>5, <2>1 DEF Rh, RhTop, RhConnects, RhConnectFails, RhRefused, RhMark, RhSend, Send,
         RhAnswer, RhStore, RhClear, RhError, RhClose, RhUnmark, RhSleep, RhWait, At, config
  <2>2. CASE Ambient
    BY <1>5, <2>2 DEF Ambient, AmbientStart, AmbientTop, AmbientConnects, AmbientConnectFails,
         AmbientMark, AmbientSend, AmbientSendFails, Send, AmbientAnswer, AmbientError,
         AmbientClose,
         AmbientUnmark, AmbientSleep, AmbientStore, AmbientClear, AmbientWait, At, config
  <2>3. QED
    BY <1>6, <2>1, <2>2
<1>7. CASE ThsServerFails \/ Signal \/ Shutdown
  <2>1. UNCHANGED poller
    BY <1>7 DEF ThsServerFails, Signal, Shutdown, ThsDrained, ThsCheckPort, ThsMainCloses,
         AmbientMainCloses, MainUnmarks, RhCancels, RhCloses, Waits
  <2>2. QED
    BY <1>1, <2>1 DEF poller, config, counters, Owed
<1>8. CASE UNCHANGED vars
  BY <1>1, <1>8 DEF vars, config, counters, Owed
<1>9. QED
  BY <1>2, <1>3, <1>4, <1>6, <1>7, <1>8, NextCases

(* The counters of /status agree, wherever they wrap around: every failed  *)
(* attempt is counted under one kind of error and as one retry.            *)
THEOREM CountersAgreeTheorem == Spec => []CountersAgree
<1>1. Init => TypeInv /\ CountInv
  <2>1. ASSUME Init PROVE CountInv
    BY <2>1, Constants DEF Init, CountInv, Surplus, Owed, ErrorKinds
  <2>2. QED
    BY <2>1, TypeInit
<1>2. TypeInv /\ CountInv /\ [Next]_vars => (TypeInv /\ CountInv)'
  BY TypeInductive, CountInductive
<1>3. TypeInv /\ CountInv => CountersAgree
  <2> SUFFICES ASSUME TypeInv, CountInv, driver = "ths1000"
               PROVE  (errors["timeout"] + errors["crc"] + errors["io"] - retries) % CounterWidth
                        = IF pc \in {"failed", "retry"} THEN 1 % CounterWidth ELSE 0
    BY DEF CountersAgree
  <2> DEFINE s == errors["timeout"] + errors["crc"] + errors["io"] - retries
  <2>1. s \in Int /\ Owed \in {0, 1} /\ CounterWidth \in Int
    BY CountOf, Constants DEF TypeInv, Owed
  <2>2. s \in {Owed - CounterWidth, Owed, Owed + CounterWidth, Owed + CounterWidth + CounterWidth}
    <3>1. Surplus = s - Owed
      BY CountOf, <2>1 DEF Surplus, TypeInv
    <3>2. QED
      BY <2>1, <3>1, Constants DEF CountInv
  <2>3. /\ (Owed - CounterWidth) % CounterWidth = Owed % CounterWidth
        /\ (Owed + CounterWidth) % CounterWidth = Owed % CounterWidth
        /\ (Owed + CounterWidth + CounterWidth) % CounterWidth
             = (Owed + CounterWidth) % CounterWidth
    <3>1. Owed \in Int /\ Owed + CounterWidth \in Int
      BY <2>1
    <3>2. QED
      BY <3>1, Turn
  <2>4. s % CounterWidth = Owed % CounterWidth
    <3> HIDE DEF s
    <3>1. QED
      BY <2>2, <2>3
  <2>5. 0 % CounterWidth = 0
    BY Constants
  <2>6. QED
    BY <2>4, <2>5 DEF Owed
<1>4. QED
  BY <1>1, <1>2, <1>3, PTL DEF Spec

-----------------------------------------------------------------------------
(* What the status shows at each place of the pollers that connect anew.   *)
ShownInv ==
  /\ driver = "rh" =>
       /\ main \in {"serving", "draining", "waiting", "exited"}
       /\ pc \in {"poll", "answer", "store", "clear", "wait"} => connected
  /\ driver = "ths1000" /\ main = "serving" =>
       /\ pc \in {"poll", "answer", "store", "failed", "retry", "sleep", "giveup", "close",
                  "wait"} => connected /\ port
       /\ pc \in {"connect", "unmark"} => ~port
       /\ pc = "mark" => port
       /\ pc = "top" => (port => connected)

LEMMA ShownInductive ==
  ASSUME ShownInv, main \notin {"exited", "crashed"}, [Next]_vars
  PROVE  ShownInv'
<1>1. CASE Ths1000
  <2>1. driver = "ths1000" /\ driver' = "ths1000"
    BY <1>1 DEF Ths1000, ThsTop, ThsConnects, ThsConnectFails, ThsMark, ThsSend, ThsAnswer,
         ThsError, ThsFailed, ThsRetry, ThsSleep, ThsGiveUp, ThsClose, ThsUnmark, ThsStore, ThsWait,
         At, config
  <2>2. CASE ThsTop \/ ThsConnects \/ ThsConnectFails \/ ThsMark \/ ThsSend
    BY <2>1, <2>2 DEF ShownInv, ThsTop, ThsConnects, ThsConnectFails, ThsMark, ThsSend, At, serial,
                 status, environment
  <2>3. CASE ThsAnswer \/ ThsError \/ ThsFailed \/ ThsRetry \/ ThsSleep
    BY <2>1, <2>3 DEF ShownInv, ThsAnswer, ThsError, ThsFailed, ThsRetry, ThsSleep, At, serial,
                 status, environment
  <2>4. CASE ThsGiveUp \/ ThsClose \/ ThsUnmark \/ ThsStore \/ ThsWait
    BY <2>1, <2>4 DEF ShownInv, ThsGiveUp, ThsClose, Closes, ThsUnmark, ThsStore, ThsWait, At,
                 serial, status, environment
  <2>5. QED
    BY <1>1, <2>2, <2>3, <2>4 DEF Ths1000
<1>2. CASE Rh
  <2>1. driver = "rh" /\ driver' = "rh" /\ main' = main
    BY <1>2 DEF Rh, RhTop, RhConnects, RhConnectFails, RhRefused, RhMark, RhSend, Send,
         RhAnswer, RhStore, RhClear, RhError, RhClose, RhUnmark, RhSleep, RhWait, At, config,
         environment
  <2>2. CASE RhTop \/ RhConnects \/ RhConnectFails \/ RhRefused \/ RhMark \/ RhSend
    BY <2>1, <2>2 DEF ShownInv, RhTop, RhConnects, RhConnectFails, RhRefused, RhMark, RhSend, Send,
                 At, status
  <2>3. CASE RhAnswer \/ RhStore \/ RhClear \/ RhError \/ RhClose \/ RhUnmark \/ RhSleep \/ RhWait
    BY <2>1, <2>3 DEF ShownInv, RhAnswer, RhStore, RhClear, RhError, RhClose, RhUnmark, RhSleep,
                 RhWait, At, status
  <2>4. QED
    BY <1>2, <2>2, <2>3 DEF Rh
<1>3. CASE Ambient
  BY <1>3 DEF Ambient, AmbientStart, AmbientTop, AmbientConnects, AmbientConnectFails,
         AmbientMark, AmbientSend, AmbientSendFails, Send, AmbientAnswer, AmbientError,
         AmbientClose,
         AmbientUnmark, AmbientSleep, AmbientStore, AmbientClear, AmbientWait, At, config, ShownInv
<1>4. CASE ThsServerFails
  BY <1>4 DEF ThsServerFails, MainAt, ShownInv, poller, config
<1>5. CASE Signal
  BY <1>5 DEF Signal, ShownInv, poller, config
<1>6. CASE Shutdown
  <2>1. driver' = driver /\ pc' = pc /\ main # "serving" /\ main' # "serving"
    BY <1>6 DEF Shutdown, ThsDrained, ThsCheckPort, ThsMainCloses, AmbientMainCloses, MainUnmarks,
           RhCancels, RhCloses, Waits, MainAt, poller, config
  <2>2. driver = "rh" => main' \in {"waiting", "exited"} /\ connected' = connected
    BY <1>6 DEF Shutdown, ThsDrained, ThsCheckPort, ThsMainCloses, AmbientMainCloses, MainUnmarks,
           RhCancels, RhCloses, Waits, MainAt, ShownInv
  <2>3. QED
    BY <2>1, <2>2 DEF ShownInv
<1>7. CASE UNCHANGED vars
  BY <1>7 DEF vars, config, serial, status, environment, ShownInv
<1>8. QED
  BY <1>1, <1>2, <1>3, <1>4, <1>5, <1>6, <1>7, NextCases

(* After every reconnect of ths1000 and rh, the status shows the sensor    *)
(* connected again by the time a poll has succeeded.                       *)
THEOREM ReconnectShowsTheorem == Spec => []ReconnectShows
<1>1. Init => ShownInv
  BY DEF Init, ShownInv
<1>2. ShownInv /\ [Next]_vars => ShownInv'
  <2> SUFFICES ASSUME ShownInv, [Next]_vars PROVE ShownInv'
    OBVIOUS
  <2>1. CASE main \in {"exited", "crashed"}
    BY <2>1 DEF Next, Ended, vars, config, serial, status, environment, ShownInv
  <2>2. QED
    BY <2>1, ShownInductive
<1>3. TypeOK /\ ShownInv => ReconnectShows
  BY Configuration DEF Programs, ShownInv, ReconnectShows
<1>4. QED
  BY <1>1, <1>2, <1>3, TypeCorrect, PTL DEF Spec
=============================================================================
