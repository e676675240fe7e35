------------------------- MODULE AcquisitionProofs -------------------------
(***************************************************************************)
(* Proofs about the parts of the acquisition process: the reader of the    *)
(* ring, the sums over events, the clock of the data files, the use of the *)
(* pressure sensor and of the GPS receiver; and about the parser of        *)
(* rp_tinygps.  They hold for every size of the ring, width of the trigger *)
(* counter, length of minutes, hours and days, number of processes on the  *)
(* I2C bus, number of lost pieces, buffer that a line fits into, and       *)
(* number of sentences.                                                    *)
(***************************************************************************)
EXTENDS DaqReader, EventSums, DataFile, Bmp180, Gps, TinyGps, NumberLemmas, TLAPS

(* The reader of the ring.  In the first turn of the writer the position   *)
(* known to the program is not ahead of the writer, and the last word read *)
(* is behind that position; so the branch that reads to the end of the     *)
(* buffer is not taken before the writer has come round.                   *)
ReaderInv ==
  /\ sts \in 0..LIMIT-1 /\ position \in 0..LIMIT-1 /\ current \in -2..LIMIT-1
  /\ seen \subseteq 0..LIMIT-1
  /\ ~lapped => position <= sts /\ current < position
  /\ NoPhantomWord

(* Nothing has been written or read. *)
LEMMA ReaderInvInit == Init => ReaderInv
BY ReaderAssumption DEF Init, ReaderInv, NoPhantomWord

(* A beat, an interrupt or a call of read_buffer keeps the reader behind. *)
LEMMA ReaderInvStep == ReaderInv /\ [Next]_vars => ReaderInv'
<1> SUFFICES ASSUME ReaderInv, [Next]_vars PROVE ReaderInv'
  OBVIOUS
<1> USE ReaderAssumption
<1>1. CASE Write
  <2>1. ~lapped' => ~lapped /\ sts' # 0
    BY <1>1, Zenon DEF Write
  <2>2. sts' \in 0..LIMIT-1 /\ (sts' # 0 => sts' = sts + 1)
    BY <1>1 DEF Write, ReaderInv
  <2>3. UNCHANGED <<position, current, seen>>
    BY <1>1 DEF Write
  <2>4. ~lapped' => position' <= sts' /\ current' < position'
    BY <2>1, <2>2, <2>3 DEF ReaderInv
  <2>5. ASSUME NEW w \in seen', ~lapped' PROVE w < 2*sts'
    BY <2>1, <2>2, <2>3, <2>5 DEF ReaderInv, NoPhantomWord
  <2> QED BY <2>2, <2>3, <2>4, <2>5 DEF ReaderInv, NoPhantomWord
<1>2. CASE Interrupt
  <2>1. lapped' <=> lapped
    BY <1>2 DEF Interrupt
  <2>2. position' = sts /\ sts' = sts /\ current' = current /\ seen' \subseteq seen
    BY <1>2 DEF Interrupt
  <2> QED BY <2>1, <2>2 DEF ReaderInv, NoPhantomWord
<1>3. CASE ReadBuffer
  <2> DEFINE words == ToRead(Start, position)
  <2>1. Start \in -2..LIMIT-1 /\ (~lapped => Start < position)
    BY DEF Start, ReaderInv
  <2>2. words \subseteq 0..LIMIT-1 /\ (~lapped => \A w \in words : w < sts)
    BY <2>1 DEF ToRead, ReadInit, ReadEnd, ReaderInv
  <2>3. current' \in -2..LIMIT-1 /\ (~lapped => current' < position)
    BY <1>3, <2>1 DEF ReadBuffer, ReadLoop, ToRead, ReadInit, ReadEnd, ReaderInv
  <2>4. /\ lapped' <=> lapped
        /\ seen' = seen \cup words /\ sts' = sts /\ position' = position
    BY <1>3 DEF ReadBuffer, ReadLoop
  <2>5. \A w \in seen' : lapped \/ w < 2*sts
    BY <2>2, <2>4 DEF ReaderInv, NoPhantomWord
  <2> HIDE DEF words
  <2> QED BY <2>2, <2>3, <2>4, <2>5 DEF ReaderInv, NoPhantomWord
<1>4. CASE UNCHANGED vars
  BY <1>4 DEF vars, ReaderInv, NoPhantomWord
<1> QED BY <1>1, <1>2, <1>3, <1>4 DEF Next

(* read_buffer takes no word that the writer has not stored, whatever the  *)
(* size of the ring and whenever interrupts and calls come.                *)
THEOREM NoPhantomWordRead == Spec => []NoPhantomWord
<1>1. ReaderInv => NoPhantomWord
  BY DEF ReaderInv
<1> QED BY <1>1, ReaderInvInit, ReaderInvStep, PTL DEF Spec

----------------------------------------------------------------------------
(* The sums over events.  The counter kept by the program is the last one  *)
(* sent, and zero before the first; that zero, like a trigger counter of   *)
(* zero, hides the gap behind it.                                          *)
SumsInv ==
  /\ sent \in -1..CNT_MAX-1 /\ lost \in Nat /\ cdp \in Nat
  /\ any \in BOOLEAN /\ wrapped \in BOOLEAN /\ zero \in BOOLEAN
  /\ IF any THEN pulse_cnt = sent /\ sent >= 0 /\ (sent = 0 => zero)
            ELSE pulse_cnt = 0 /\ sent = -1 /\ lost = 0 /\ cdp = 0
  /\ LostPulses

(* What one counter word adds to mtd_cdp. *)
LEMMA LostNowBound ==
  ASSUME NEW c \in Nat, NEW p \in Nat, NEW gap \in 1..3, c <= p + gap
  PROVE  /\ LostNow(c, p) \in 0..gap-1
         /\ p # 0 /\ c = p + gap => LostNow(c, p) = gap - 1
BY DEF LostNow

(* No event has been seen. *)
LEMMA SumsInvInit == SumsInit => SumsInv
<1> SUFFICES ASSUME SumsInit PROVE SumsInv
  OBVIOUS
<1>1. any \in BOOLEAN /\ wrapped \in BOOLEAN /\ zero \in BOOLEAN /\ ~any
  BY Zenon DEF SumsInit
<1> QED BY <1>1, SumsAssumption DEF SumsInit, SumsInv, LostPulses

(* An event word keeps the counter that was sent last. *)
LEMMA SumsInvStep == SumsInv /\ [SumsNext]_Sumsvars => SumsInv'
<1> SUFFICES ASSUME SumsInv, [SumsNext]_Sumsvars PROVE SumsInv'
  OBVIOUS
<1> USE SumsAssumption
<1>1. CASE UNCHANGED pulses
  BY <1>1 DEF pulses, SumsInv, LostPulses
<1>2. ASSUME NEW gap \in 1..3, CntStatus(gap) PROVE SumsInv'
  <2> DEFINE next == sent + gap
  <2>1. /\ sent' \in 0..CNT_MAX-1 /\ sent' <= next
        /\ next < CNT_MAX => sent' = next
    BY <1>2 DEF CntStatus, SumsInv
  <2>2. /\ any' \in BOOLEAN /\ any' /\ wrapped' \in BOOLEAN /\ zero' \in BOOLEAN
        /\ (~wrapped' => ~wrapped /\ ~(next >= CNT_MAX))
        /\ (~zero' => ~zero) /\ (sent' = 0 => zero')
    BY <1>2, Zenon DEF CntStatus, SumsInv
  <2>3. /\ pulse_cnt' = sent' /\ lost' = IF any THEN lost + gap - 1 ELSE 0
        /\ cdp' = cdp + LostNow(sent', pulse_cnt)
    BY <1>2 DEF CntStatus
  <2>4. CASE any
    <3>1. /\ pulse_cnt = sent /\ sent \in 0..CNT_MAX-1
          /\ cdp <= lost /\ cdp \in Nat /\ lost \in Nat
      BY <2>4 DEF SumsInv, LostPulses
    <3>2. (sent = 0 => zero) /\ (~wrapped /\ ~zero => cdp = lost)
      BY <2>4 DEF SumsInv, LostPulses
    <3>3. lost' = lost + gap - 1 /\ cdp' = cdp + LostNow(sent', sent)
      BY <2>3, <2>4, <3>1
    <3>4. /\ LostNow(sent', sent) \in 0..gap-1
          /\ sent # 0 /\ next < CNT_MAX => LostNow(sent', sent) = gap - 1
      BY <2>1, <3>1, LostNowBound
    <3>5. lost' \in Nat /\ cdp' \in Nat /\ cdp' <= lost'
      BY <3>1, <3>3, <3>4
    <3>6. ASSUME ~wrapped', ~zero' PROVE cdp' = lost'
      <4>1. ~wrapped /\ ~zero /\ ~(next >= CNT_MAX)
        BY <2>2, <3>6, Zenon
      <4>2. sent # 0 /\ cdp = lost
        BY <3>2, <4>1, Zenon
      <4> QED BY <3>1, <3>3, <3>4, <4>1, <4>2
    <3> QED BY <2>1, <2>2, <2>3, <3>5, <3>6 DEF SumsInv, LostPulses
  <2>5. CASE ~any
    <3>1. lost' = 0 /\ cdp' = 0
      BY <2>1, <2>3, <2>5 DEF LostNow, SumsInv
    <3> QED BY <2>1, <2>2, <2>3, <3>1 DEF SumsInv, LostPulses
  <2> QED BY <2>4, <2>5
<1> QED BY <1>1, <1>2 DEF SumsNext, Sample, TrStatus, Sumsvars

(* The lost pulses of the metadata are never more than were lost, and all  *)
(* of them until the trigger counter wraps or is read as zero, whatever    *)
(* the width of that counter.                                              *)
THEOREM LostPulsesCounted == SumsSpec => []LostPulses
<1>1. SumsInv => LostPulses
  BY DEF SumsInv
<1> QED BY <1>1, SumsInvInit, SumsInvStep, PTL DEF SumsSpec
----------------------------------------------------------------------------
(* A broken-down time with its fields in their ranges. *)
Normal == [day : Int, hour : 0..HOURS-1, min : 0..MINUTES-1, sec : 0..SECONDS-1]

(* The lengths of the calendar are positive. *)
LEMMA Lengths == /\ SECONDS \in Nat \ {0} /\ MINUTES \in Nat \ {0} /\ HOURS \in Nat \ {0}
                 /\ MINUTES * SECONDS \in Nat \ {0} /\ HOURS * MINUTES \in Nat \ {0} 
                 /\ DAY \in Nat \ {0} /\ DAY = HOURS * (MINUTES * SECONDS)
                 /\ DAY = (HOURS * MINUTES) * SECONDS
<1>1. SECONDS \in Nat \ {0} /\ MINUTES \in Nat \ {0} /\ HOURS \in Nat \ {0}
  BY FileAssumption
<1>2. MINUTES * SECONDS \in Nat \ {0} /\ HOURS * MINUTES \in Nat \ {0}
  BY <1>1
<1>3. (HOURS * MINUTES) * SECONDS \in Nat \ {0}
  BY <1>1, <1>2
<1>4. HOURS * (MINUTES * SECONDS) = (HOURS * MINUTES) * SECONDS
  BY <1>1
<1> QED BY <1>1, <1>2, <1>3, <1>4 DEF DAY

(* The fields of a time are quotients of quotients. *)
LEMMA Quotients ==
  ASSUME NEW t \in Int
  PROVE  /\ t \div (MINUTES * SECONDS) = (t \div SECONDS) \div MINUTES
         /\ t \div DAY = ((t \div SECONDS) \div MINUTES) \div HOURS
         /\ t \div SECONDS \in Int /\ (t \div SECONDS) \div MINUTES \in Int
         /\ ((t \div SECONDS) \div MINUTES) \div HOURS \in Int
<1>1. t \div (MINUTES * SECONDS) = (t \div SECONDS) \div MINUTES
  BY Lengths, DivTwice
<1>2. t \div SECONDS \in Int /\ (t \div SECONDS) \div MINUTES \in Int
  BY Lengths, DivMod
<1>3. ((t \div SECONDS) \div MINUTES) \div HOURS \in Int
  BY <1>2, Lengths, DivMod
<1>4. t \div (HOURS * (MINUTES * SECONDS)) = (t \div (MINUTES * SECONDS)) \div HOURS
  BY Lengths, DivTwice
<1> QED BY <1>1, <1>2, <1>3, <1>4, Lengths

(* timegm and gmtime are inverse to each other. *)
LEMMA TimeNormal ==
  ASSUME NEW t \in Int
  PROVE  gmtime(t) \in Normal /\ timegm(gmtime(t)) = t
<1> DEFINE a == t \div SECONDS
           b == a \div MINUTES
           c == b \div HOURS
<1>1. a \in Int /\ b \in Int /\ c \in Int
  BY Quotients
<1>2. t = SECONDS * a + (t % SECONDS) /\ t % SECONDS \in 0..SECONDS-1
  BY Lengths, DivMod
<1>3. a = MINUTES * b + (a % MINUTES) /\ a % MINUTES \in 0..MINUTES-1
  BY <1>1, Lengths, DivMod
<1>4. b = HOURS * c + (b % HOURS) /\ b % HOURS \in 0..HOURS-1
  BY <1>1, Lengths, DivMod
<1>5. gmtime(t) = [day |-> c, hour |-> b % HOURS, min |-> a % MINUTES, sec |-> t % SECONDS]
  BY Quotients DEF gmtime
<1> HIDE DEF a, b, c
<1>6. gmtime(t) \in Normal
  BY <1>1, <1>2, <1>3, <1>4, <1>5 DEF Normal
<1>7. timegm(gmtime(t)) = ((c * HOURS + (b % HOURS)) * MINUTES + (a % MINUTES)) * SECONDS + (t % SECONDS)
  BY <1>5 DEF timegm
<1>8. c * HOURS + (b % HOURS) = b
  BY <1>1, <1>4, Lengths
<1>9. b * MINUTES + (a % MINUTES) = a
  BY <1>1, <1>3, Lengths
<1>10. a * SECONDS + (t % SECONDS) = t
  BY <1>1, <1>2, Lengths
<1> QED BY <1>6, <1>7, <1>8, <1>9, <1>10

(* gmtime undoes timegm for a date whose fields are within their limits. *)
LEMMA NormalTime ==
  ASSUME NEW d \in Normal
  PROVE  timegm(d) \in Int /\ gmtime(timegm(d)) = d
<1> DEFINE b == d.day * HOURS + d.hour
           a == b * MINUTES + d.min
           t == a * SECONDS + d.sec
<1>1. d.day \in Int /\ d.hour \in 0..HOURS-1 /\ d.min \in 0..MINUTES-1 /\ d.sec \in 0..SECONDS-1
      /\ d = [day |-> d.day, hour |-> d.hour, min |-> d.min, sec |-> d.sec]
  BY DEF Normal
<1>2. b \in Int
  BY <1>1, Lengths
<1>3. b \div HOURS = d.day /\ b % HOURS = d.hour
  BY <1>1, <1>2, Lengths, DivUnique
<1> HIDE DEF b
<1>4. a \in Int
  BY <1>1, <1>2, Lengths
<1>5. a \div MINUTES = b /\ a % MINUTES = d.min
  BY <1>1, <1>2, <1>4, Lengths, DivUnique
<1> HIDE DEF a
<1>6. t \in Int
  BY <1>1, <1>4, Lengths
<1>7. t \div SECONDS = a /\ t % SECONDS = d.sec
  BY <1>1, <1>4, <1>6, Lengths, DivUnique
<1>8. timegm(d) = t
  BY DEF timegm, a, b
<1> HIDE DEF t
<1>9. gmtime(t) = [day |-> b \div HOURS, hour |-> b % HOURS, min |-> a % MINUTES, sec |-> t % SECONDS]
  BY <1>5, <1>6, <1>7, Quotients DEF gmtime
<1> QED BY <1>1, <1>3, <1>5, <1>6, <1>7, <1>8, <1>9

(* What depends on the day, and what on the time of day. *)
LEMMA TimeSplit ==
  ASSUME NEW y \in Int, NEW h \in Int, NEW m \in Int, NEW s \in Int
  PROVE  ((y * HOURS + h) * MINUTES + m) * SECONDS + s = y * DAY + ((h * MINUTES + m) * SECONDS + s)
<1>1. (y * HOURS + h) * MINUTES = (y * HOURS) * MINUTES + h * MINUTES
  BY Lengths
<1>2. (y * HOURS) * MINUTES = y * (HOURS * MINUTES)
  BY Lengths
<1> DEFINE p == y * (HOURS * MINUTES)
           q == h * MINUTES + m
<1>3. p \in Int /\ q \in Int
  BY Lengths
<1>4. p * SECONDS = y * DAY
  <2>1. p * SECONDS = y * ((HOURS * MINUTES) * SECONDS)
    BY Lengths
  <2> QED BY <2>1, Lengths
<1>5. (y * HOURS + h) * MINUTES + m = p + q
  BY <1>1, <1>2, Lengths
<1> HIDE DEF p, q
<1>6. (p + q) * SECONDS = p * SECONDS + q * SECONDS
  BY <1>3, Lengths
<1>7. p * SECONDS \in Int /\ q * SECONDS \in Int
  BY <1>3, Lengths
<1> QED BY <1>3, <1>4, <1>5, <1>6, <1>7, Lengths DEF q

(* Whole days do not change the time of day. *)
LEMMA WholeDays ==
  ASSUME NEW y \in Int, NEW x \in Int PROVE (y * DAY + x) % DAY = x % DAY
<1> DEFINE q == x \div DAY
           rem == x % DAY
<1>1. q \in Int /\ rem \in 0..DAY-1 /\ x = DAY * q + rem
  BY Lengths, DivMod
<1> HIDE DEF q, rem
<1>2. y * DAY + x = (y + q) * DAY + rem /\ y * DAY + x \in Int /\ y + q \in Int
  BY <1>1, Lengths
<1>3. (y * DAY + x) % DAY = rem
  BY <1>1, <1>2, Lengths, DivUnique
<1> QED BY <1>3 DEF rem

(* The beginning of an hour is not after a moment of it or of a later one. *)
LEMMA HourStart ==
  ASSUME NEW a \in Int, NEW b \in Int, a <= b, NEW m \in Nat, NEW s \in Nat
  PROVE  (a * MINUTES + 0) * SECONDS + 0 <= (b * MINUTES + m) * SECONDS + s
<1>1. a * MINUTES \in Int /\ b * MINUTES \in Int /\ (b - a) * MINUTES = b * MINUTES - a * MINUTES
  BY Lengths
<1>2. (b - a) * MINUTES >= 0
  <2>1. CASE b = a
    BY <2>1, Lengths
  <2>2. CASE b - a >= 1
    <3>1. (b - a) * MINUTES >= MINUTES
      BY <2>2, Lengths, TimesPositive
    <3> QED BY <3>1, <1>1, Lengths
  <2> QED BY <2>1, <2>2
<1> DEFINE p == a * MINUTES
           q == b * MINUTES + m
<1>3. p \in Int /\ q \in Int /\ p <= q
  BY <1>1, <1>2
<1> HIDE DEF p, q
<1>4. (q - p) * SECONDS >= 0 /\ (q - p) * SECONDS = q * SECONDS - p * SECONDS
      /\ p * SECONDS \in Int /\ q * SECONDS \in Int
  <2>1. (q - p) * SECONDS = q * SECONDS - p * SECONDS /\ p * SECONDS \in Int /\ q * SECONDS \in Int
    BY <1>3, Lengths
  <2>2. CASE q = p
    BY <1>3, <2>1, <2>2, Lengths
  <2>3. CASE q - p >= 1
    <3>1. (q - p) * SECONDS >= SECONDS
      BY <1>3, <2>3, Lengths, TimesPositive
    <3> QED BY <2>1, <3>1, Lengths
  <2> QED BY <1>3, <2>1, <2>2, <2>3
<1>5. p * SECONDS <= q * SECONDS + s
  BY <1>4
<1>6. a * MINUTES + 0 = p
  BY <1>1 DEF p
<1> QED BY <1>4, <1>5, <1>6 DEF q

(* The next second is in the same hour, unless it ends it. *)
LEMMA HourGoesOn ==
  ASSUME NEW d \in Normal, ~HourOver(FalseDate(d))
  PROVE  /\ timegm(FalseDate(d)) = timegm(d) + 1
         /\ gmtime(timegm(d) + 1).day = d.day /\ gmtime(timegm(d) + 1).hour = d.hour
<1>1. d.day \in Int /\ d.hour \in 0..HOURS-1 /\ d.min \in 0..MINUTES-1 /\ d.sec \in 0..SECONDS-1
  BY DEF Normal
<1> DEFINE a == (d.day * HOURS + d.hour) * MINUTES
<1>2. a \in Int
  BY <1>1, Lengths
<1>3. timegm(d) = (a + d.min) * SECONDS + d.sec
  BY DEF timegm
<1>4. timegm(FalseDate(d)) = (a + d.min) * SECONDS + (d.sec + 1)
  BY DEF timegm, FalseDate, Normal
<1>5. d.sec + 1 # SECONDS \/ d.min # MINUTES - 1
  BY DEF HourOver, FalseDate, Normal
<1> DEFINE e == IF d.sec + 1 # SECONDS THEN [d EXCEPT !.sec = d.sec + 1]
                ELSE [d EXCEPT !.min = d.min + 1, !.sec = 0]
<1>6. e \in Normal /\ e.day = d.day /\ e.hour = d.hour /\ timegm(e) = timegm(d) + 1
  <2>1. CASE d.sec + 1 # SECONDS
    <3>1. e \in Normal /\ e.day = d.day /\ e.hour = d.hour /\ e.min = d.min /\ e.sec = d.sec + 1
      BY <1>1, <2>1, Lengths DEF Normal
    <3>2. timegm(e) = (a + d.min) * SECONDS + (d.sec + 1)
      BY <3>1 DEF timegm
    <3> HIDE DEF e, a
    <3> QED BY <1>1, <1>2, <1>3, <3>1, <3>2, Lengths
  <2>2. CASE d.sec + 1 = SECONDS
    <3> DEFINE z == [d EXCEPT !.min = d.min + 1, !.sec = 0]
    <3>1. d.min + 1 \in 0..MINUTES-1 /\ 0 \in 0..SECONDS-1
      BY <1>1, <1>5, <2>2, Lengths
    <3>2. z \in Normal /\ z.day = d.day /\ z.hour = d.hour /\ z.min = d.min + 1 /\ z.sec = 0
      BY <3>1 DEF Normal
    <3>3. e \in Normal /\ e.day = d.day /\ e.hour = d.hour /\ e.min = d.min + 1 /\ e.sec = 0
      BY <2>2, <3>2
    <3>4. timegm(e) = (a + (d.min + 1)) * SECONDS + 0
      BY <3>3 DEF timegm
    <3> HIDE DEF e, a
    <3>5. (a + (d.min + 1)) * SECONDS = (a + d.min) * SECONDS + SECONDS
      BY <1>1, <1>2, Lengths
    <3>6. (a + d.min) * SECONDS \in Int
      BY <1>1, <1>2, Lengths
    <3> QED BY <1>1, <1>3, <2>2, <3>3, <3>4, <3>5, <3>6, Lengths
  <2> QED BY <2>1, <2>2
<1> HIDE DEF e, a
<1>7. (a + d.min) * SECONDS \in Int
  BY <1>1, <1>2, Lengths
<1>8. timegm(FalseDate(d)) = timegm(d) + 1
  BY <1>1, <1>3, <1>4, <1>7, Lengths
<1>9. gmtime(timegm(d) + 1) = e
  BY <1>6, NormalTime
<1> QED BY <1>6, <1>8, <1>9

----------------------------------------------------------------------------
(* The day and the hour a file is named after do not go back. *)
Onward(d, e) == e.day > d.day \/ (e.day = d.day /\ e.hour >= d.hour)

(* The day and the hour in the name of a file. *)
NameOf(f) == [day |-> f[1], hour |-> f[2]]

(* The clock and the file.  The date is kept normalised, the open file is  *)
(* not of a later hour, and of its very hour with the false clock or times *)
(* of day; and the last line went where the clock stood.                   *)
FileType ==
  /\ fileDate \in Normal /\ seconds \in Nat /\ started \in Int /\ line.word \in Nat

HourFile ==
  \/ fhout \in {Null, Stdout}
  \/ /\ ~fToStdout /\ fhout \in Int \X Int /\ Onward(NameOf(fhout), fileDate)
     /\ falseGPS \/ plain => fhout = <<fileDate.day, fileDate.hour>>

LastLine ==
  \/ line = None
  \/ line = [time |-> timegm(fileDate), to |-> fhout, word |-> line.word] /\ seconds # 0 /\ ~fFirstTime

PcClock == ~fFirstTime /\ falseGPS => timegm(fileDate) = started + seconds

(* With a GPS the time of day is what the bytes of the last word make. *)
GpsClock ==
  ~falseGPS /\ line # None =>
    timegm(fileDate) % DAY
      = ((Bytes(line.word).hour * MINUTES + Bytes(line.word).min) * SECONDS + Bytes(line.word).sec) % DAY

FileInv ==
  /\ FileType /\ HourFile /\ LastLine /\ PcClock /\ GpsClock
  /\ fFirstTime => seconds = 0

(* A step leaves the file, ends with none, or opens one that is not of an  *)
(* hour before the clock's.                                                *)
OpensLater ==
  \/ fhout' = fhout \/ fhout' \in {Null, Stdout}
  \/ fhout' \in Int \X Int /\ Onward(fileDate, NameOf(fhout'))

(* Day and hour do not go back as long as time does not. *)
LEMMA HoursOrdered ==
  ASSUME NEW s \in Int, NEW t \in Int, s <= t PROVE Onward(gmtime(s), gmtime(t))
<1> DEFINE H == MINUTES * SECONDS
           b == s \div H
           c == t \div H
           db == b \div HOURS
           dc == c \div HOURS
           hb == b % HOURS
           hc == c % HOURS
<1>1. H \in Nat \ {0} /\ HOURS \in Nat \ {0}
  BY Lengths
<1>2. gmtime(s).hour = hb /\ gmtime(s).day = db /\ gmtime(t).hour = hc /\ gmtime(t).day = dc
  BY Quotients DEF gmtime
<1>3. b \in Int /\ c \in Int
  BY <1>1, DivMod
<1>4. b <= c
  BY <1>1, DivMonotone
<1> HIDE DEF b, c
<1>5. db \in Int /\ hb \in Int /\ b = HOURS * db + hb
  BY <1>1, <1>3, DivMod
<1>6. dc \in Int /\ hc \in Int /\ c = HOURS * dc + hc
  BY <1>1, <1>3, DivMod
<1>7. db <= dc
  BY <1>1, <1>3, <1>4, DivMonotone
<1> HIDE DEF db, dc, hb, hc
<1>8. db = dc => hb <= hc
  <2> SUFFICES ASSUME db = dc PROVE hb <= hc
    OBVIOUS
  <2> DEFINE x == HOURS * db
  <2>1. x \in Int /\ b = x + hb /\ c = x + hc
    BY <1>1, <1>5, <1>6
  <2> HIDE DEF x
  <2> QED BY <1>4, <1>5, <1>6, <2>1
<1>9. dc > db \/ (dc = db /\ hc >= hb)
  BY <1>5, <1>6, <1>7, <1>8
<1> QED BY <1>2, <1>9 DEF Onward

(* A date that is normalised does not come before an hour it has reached.  *)
LEMMA ReachedHour ==
  ASSUME NEW d \in Normal, NEW e, e.day \in Int, e.hour \in Int, e.min \in Nat, e.sec \in Nat,
         d.day * HOURS + d.hour <= e.day * HOURS + e.hour
  PROVE  timegm(e) \in Int /\ Onward(d, gmtime(timegm(e)))
<1> DEFINE z == [day |-> d.day, hour |-> d.hour, min |-> 0, sec |-> 0]
           a == d.day * HOURS + d.hour
           b == e.day * HOURS + e.hour
<1>1. d.day \in Int /\ d.hour \in 0..HOURS-1 /\ a \in Int /\ b \in Int /\ a <= b
  BY Lengths DEF Normal
<1>2. z \in Normal
  BY <1>1, Lengths DEF Normal
<1>3. timegm(z) = (a * MINUTES + 0) * SECONDS + 0 /\ timegm(e) = (b * MINUTES + e.min) * SECONDS + e.sec
  BY DEF timegm
<1>4. timegm(z) \in Int /\ gmtime(timegm(z)) = z
  BY <1>2, NormalTime
<1>5. z.day = d.day /\ z.hour = d.hour
  OBVIOUS
<1> HIDE DEF a, b, z
<1>6. timegm(e) \in Int /\ timegm(z) <= timegm(e)
  <2>1. b * MINUTES + e.min \in Int
    BY <1>1, Lengths
  <2>2. (b * MINUTES + e.min) * SECONDS + e.sec \in Int
    BY <2>1, Lengths
  <2> QED BY <1>1, <1>3, <2>2, HourStart
<1>7. Onward(z, gmtime(timegm(e)))
  BY <1>4, <1>6, HoursOrdered
<1> QED BY <1>5, <1>6, <1>7 DEF Onward

(* What new_file makes of a date. *)
LEMMA NewFile ==
  ASSUME NEW d, NEW t \in Int, timegm(d) = t, fToStdout => d = gmtime(t), NEW ok
  PROVE  /\ new_file(d, ok).date = gmtime(t)
         /\ \/ new_file(d, ok).out \in {Null, Stdout}
            \/ ~fToStdout /\ new_file(d, ok).out = <<gmtime(t).day, gmtime(t).hour>>
<1>1. CASE fToStdout
  BY <1>1 DEF new_file
<1>2. CASE ~fToStdout
  BY <1>2 DEF new_file
<1> QED BY <1>1, <1>2

(* The file of an hour is not of a later one. *)
LEMMA OwnHour ==
  ASSUME NEW d, d.day \in Int, d.hour \in Int
  PROVE  <<d.day, d.hour>> \in Int \X Int /\ Onward(NameOf(<<d.day, d.hour>>), d)
BY DEF Onward, NameOf

(* The first time word opens the file of its second. *)
LEMMA FirstTimeFile ==
  ASSUME FileInv, NEW now \in 0..DAY-1, NEW ok \in BOOLEAN, FirstTime(now, ok)
  PROVE  FileInv'
<1>1. started' \in Int
  <2>1. CASE falseGPS
    <3>1. started' = now
      BY <2>1, Zenon DEF FirstTime
    <3> QED BY <3>1, Lengths
  <2>2. CASE ~falseGPS
    <3> DEFINE d == [day |-> 1, hour |-> 1 % HOURS, min |-> MINUTES - 1, sec |-> SECONDS - 1]
    <3>1. 1 % HOURS \in 0..HOURS-1 /\ MINUTES - 1 \in 0..MINUTES-1 /\ SECONDS - 1 \in 0..SECONDS-1
      BY Lengths, DivMod
    <3>2. d \in Normal
      BY <3>1 DEF Normal
    <3>3. started' = timegm(d)
      BY <2>2, Zenon DEF FirstTime
    <3> HIDE DEF d
    <3> QED BY <3>2, <3>3, NormalTime
  <2> QED BY <2>1, <2>2
<1> DEFINE d == gmtime(started')
<1>2. d \in Normal /\ timegm(d) = started'
  BY <1>1, TimeNormal
<1>3. fileDate' = new_file(d, ok).date /\ fhout' = new_file(d, ok).out
  BY Zenon DEF FirstTime
<1>4. fileDate' = d /\ (fhout' \in {Null, Stdout} \/ (~fToStdout /\ fhout' = <<d.day, d.hour>>))
  BY <1>1, <1>2, <1>3, NewFile
<1>5. fFirstTime /\ ~fFirstTime' /\ (fToStdout' <=> fToStdout) /\ (falseGPS' <=> falseGPS)
  BY Zenon DEF FirstTime
<1>6. line' = line /\ seconds' = seconds /\ seconds = 0
  BY <1>5 DEF FirstTime, FileInv
<1> HIDE DEF d
<1>7. line = None
  BY <1>5 DEF FileInv, LastLine
<1>8. FileType'
  BY <1>1, <1>2, <1>4, <1>6 DEF FileInv, FileType
<1>9. HourFile'
  <2>1. d.day \in Int /\ d.hour \in Int
    BY <1>2, Lengths DEF Normal
  <2> QED BY <1>4, <1>5, <2>1, OwnHour DEF HourFile
<1>10. PcClock'
  <2>1. timegm(fileDate') = started' + seconds'
    <3>1. timegm(fileDate') = started'
      BY <1>2, <1>4
    <3>2. seconds' = 0
      BY <1>6
    <3>3. ASSUME NEW s \in Int PROVE s = s + 0
      OBVIOUS
    <3> QED BY <1>1, <3>1, <3>2, <3>3
  <2> QED BY <2>1 DEF PcClock
<1> QED BY <1>6, <1>7, <1>8, <1>9, <1>10 DEF FileInv, LastLine, GpsClock

(* A second of the false PPS moves the clock by one and the file with it. *)
LEMMA FalseSecondFile ==
  ASSUME FileInv, NEW ok \in BOOLEAN, FalseSecond(ok)
  PROVE  FileInv' /\ OpensLater
<1> DEFINE d == FalseDate(fileDate)
           t == timegm(fileDate) + 1
<1>1. ~fFirstTime /\ ~fFirstTime' /\ falseGPS /\ falseGPS' /\ (fToStdout' <=> fToStdout)
  BY Zenon DEF FalseSecond, Running
<1>2. fileDate \in Normal /\ timegm(fileDate) \in Int /\ t \in Int
      /\ seconds \in Nat /\ started \in Int /\ seconds' = seconds + 1 /\ started' = started
      /\ line'.word = 0
  BY NormalTime DEF FileInv, FileType, FalseSecond, Stamp
<1>3. timegm(d) = t
  <2>1. fileDate.day \in Int /\ fileDate.hour \in Int /\ fileDate.min \in Int /\ fileDate.sec \in Int
    BY <1>2, Lengths DEF Normal
  <2>2. d.day = fileDate.day /\ d.hour = fileDate.hour /\ d.min = fileDate.min /\ d.sec = fileDate.sec + 1
    BY <1>2 DEF FalseDate, Normal
  <2> DEFINE a == ((fileDate.day * HOURS + fileDate.hour) * MINUTES + fileDate.min) * SECONDS
  <2>3. a \in Int
    BY <2>1, Lengths
  <2>4. timegm(fileDate) = a + fileDate.sec /\ timegm(d) = a + (fileDate.sec + 1)
    BY <2>2 DEF timegm
  <2> HIDE DEF a, d
  <2> QED BY <2>1, <2>3, <2>4
<1> DEFINE f == IF HourOver(d) /\ ~fToStdout THEN new_file(d, ok)
                ELSE [date |-> gmtime(timegm(d)), out |-> fhout]
<1>4. fileDate' = f.date /\ fhout' = f.out /\ line' = [time |-> timegm(fileDate'), to |-> fhout', word |-> 0]
  BY Zenon DEF FalseSecond, Stamp
<1>5. gmtime(t) \in Normal /\ timegm(gmtime(t)) = t
  BY <1>2, TimeNormal
<1>6. /\ fileDate' = gmtime(t)
      /\ \/ fhout' \in {Null, Stdout}
         \/ ~fToStdout /\ fhout' = <<fileDate'.day, fileDate'.hour>>
      /\ HourOver(d) \/ fhout' = fhout
  <2>1. CASE HourOver(d) /\ ~fToStdout
    <3>1. f = new_file(d, ok)
      BY <2>1
    <3> HIDE DEF d, t, f
    <3> QED BY <1>1, <1>2, <1>3, <1>4, <2>1, <3>1, NewFile
  <2>2. CASE ~(HourOver(d) /\ ~fToStdout)
    <3>1. f.date = gmtime(t) /\ f.out = fhout
      BY <1>3, <2>2
    <3>2. CASE fToStdout
      BY <1>1, <1>4, <3>1, <3>2 DEF FileInv, HourFile
    <3>3. CASE ~HourOver(d)
      <4>1. gmtime(t).day = fileDate.day /\ gmtime(t).hour = fileDate.hour
        BY <1>2, <3>3, HourGoesOn
      <4> HIDE DEF d, t, f
      <4> QED BY <1>1, <1>4, <3>1, <4>1 DEF FileInv, HourFile
    <3> QED BY <2>2, <3>2, <3>3
  <2> QED BY <2>1, <2>2
<1> DEFINE e == gmtime(t)
<1>61. e.day \in Int /\ e.hour \in Int /\ fileDate' = e
  BY <1>5, <1>6, Lengths DEF Normal
<1> HIDE DEF e
<1>62. HourFile'
  BY <1>1, <1>6, <1>61, OwnHour DEF HourFile
<1> HIDE DEF d, f
<1>7. FileType'
  BY <1>2, <1>5, <1>6 DEF FileInv, FileType
<1>8. LastLine'
  BY <1>1, <1>2, <1>4 DEF LastLine
<1>9. PcClock'
  <2>1. timegm(fileDate) = started + seconds
    BY <1>1 DEF FileInv, PcClock
  <2>2. timegm(fileDate') = started' + seconds'
    BY <1>2, <1>5, <1>6, <2>1
  <2> QED BY <2>2 DEF PcClock
<1>10. GpsClock'
  BY <1>1 DEF GpsClock
<1>11. OpensLater
  <2>1. gmtime(timegm(fileDate)) = fileDate /\ timegm(fileDate) <= t
    BY <1>2, NormalTime
  <2>2. Onward(fileDate, fileDate')
    BY <1>2, <1>6, <2>1, HoursOrdered
  <2> QED BY <1>6, <1>61, <2>2, OwnHour DEF OpensLater, Onward, NameOf
<1> QED BY <1>1, <1>62, <1>7, <1>8, <1>9, <1>10, <1>11 DEF FileInv

(* The bytes of a word are numbers. *)
LEMMA ByteType ==
  ASSUME NEW w \in Nat
  PROVE  Bytes(w).hour \in Nat /\ Bytes(w).min \in Nat /\ Bytes(w).sec \in Nat
<1>1. BYTE \in Nat \ {0} /\ BYTE * BYTE \in Nat \ {0}
  BY FileAssumption
<1>2. w \div (BYTE * BYTE) \in Int /\ w \div BYTE \in Int
  BY <1>1, DivMod
<1>3. (w \div (BYTE * BYTE)) % BYTE \in 0..BYTE-1 /\ (w \div BYTE) % BYTE \in 0..BYTE-1
      /\ w % BYTE \in 0..BYTE-1
  BY <1>1, <1>2, DivMod
<1> QED BY <1>1, <1>3 DEF Bytes

(* The line of a word: what is left once the file is known. *)
LEMMA GpsLineFile ==
  ASSUME NEW w \in Nat, NEW day \in Int, NEW e,
         e = [day |-> day, hour |-> Bytes(w).hour, min |-> Bytes(w).min, sec |-> Bytes(w).sec],
         timegm(e) \in Int, fileDate' = gmtime(timegm(e)),
         gmtime(timegm(e)) \in Normal, timegm(gmtime(timegm(e))) = timegm(e),
         line' = [time |-> timegm(fileDate'), to |-> fhout', word |-> w],
         seconds \in Nat, seconds' = seconds + 1, started \in Int, started' = started,
         ~fFirstTime', ~falseGPS', HourFile'
  PROVE  FileInv'
<1> DEFINE x == (Bytes(w).hour * MINUTES + Bytes(w).min) * SECONDS + Bytes(w).sec
<1>1. line'.word = w
  OBVIOUS
<1>2. FileType'
  BY <1>1 DEF FileType
<1>3. LastLine'
  <2>1. line' = [time |-> timegm(fileDate'), to |-> fhout', word |-> line'.word]
    BY <1>1
  <2>2. seconds' # 0
    OBVIOUS
  <2> QED BY <2>1, <2>2 DEF LastLine
<1>4. PcClock'
  BY DEF PcClock
<1>5. GpsClock'
  <2>1. Bytes(w).hour \in Int /\ Bytes(w).min \in Int /\ Bytes(w).sec \in Int
    BY ByteType
  <2>2. timegm(e) = day * DAY + x
    <3>1. e.day = day /\ e.hour = Bytes(w).hour /\ e.min = Bytes(w).min /\ e.sec = Bytes(w).sec
      BY Zenon
    <3>2. timegm(e) = ((day * HOURS + Bytes(w).hour) * MINUTES + Bytes(w).min) * SECONDS + Bytes(w).sec
      BY <3>1, Zenon DEF timegm
    <3> QED BY <2>1, <3>2, TimeSplit
  <2>3. x \in Int
    <3>1. Bytes(w).hour * MINUTES + Bytes(w).min \in Int
      BY <2>1, Lengths
    <3> QED BY <2>1, <3>1, Lengths
  <2> HIDE DEF x
  <2>4. timegm(fileDate') % DAY = x % DAY
    BY <2>2, <2>3, WholeDays
  <2> QED BY <1>1, <2>4, Zenon DEF GpsClock, x
<1>6. (fFirstTime => seconds = 0)'
  OBVIOUS
<1> QED BY <1>2, <1>3, <1>4, <1>5, <1>6 DEF FileInv

(* A word of the GPS never moves the clock to an earlier hour, and with    *)
(* times of day the file follows it.                                       *)
LEMMA GpsSecondFile ==
  ASSUME FileInv, NEW w \in Word, NEW ok \in BOOLEAN, GpsSecond(w, ok)
  PROVE  FileInv' /\ OpensLater
<1> DEFINE b == Bytes(w)
           changed == NewHour(fileDate, b.hour) /\ ~fToStdout
           d == GpsDate(fileDate, b.hour)
           f == IF changed THEN new_file(d, ok) ELSE [date |-> d, out |-> fhout]
           e == [f.date EXCEPT !.hour = b.hour, !.min = b.min, !.sec = b.sec]
<1>1. ~fFirstTime /\ ~fFirstTime' /\ ~falseGPS /\ ~falseGPS' /\ (fToStdout' <=> fToStdout)
      /\ (plain' <=> TimeOfDay(w) /\ (changed \/ plain))
  BY Zenon DEF GpsSecond, Running
<1>2. fileDate \in Normal /\ seconds \in Nat /\ started \in Int /\ seconds' = seconds + 1 /\ started' = started
      /\ w \in Nat
  BY FileAssumption DEF FileInv, FileType, GpsSecond, Stamp
<1>3. b.hour \in Nat /\ b.min \in Nat /\ b.sec \in Nat
  BY <1>2, ByteType
<1>4. fhout' = f.out /\ fileDate' = gmtime(timegm(e))
      /\ line' = [time |-> timegm(fileDate'), to |-> fhout', word |-> w]
  BY DEF GpsSecond, Stamp
<1> HIDE DEF b
<1>5. fileDate.day \in Int /\ fileDate.hour \in 0..HOURS-1
      /\ fileDate.min \in 0..MINUTES-1 /\ fileDate.sec \in 0..SECONDS-1
  BY <1>2 DEF Normal
<1> DEFINE y == IF fileDate.hour > b.hour THEN fileDate.day + 1 ELSE fileDate.day
<1>6. d = [day |-> y, hour |-> b.hour, min |-> fileDate.min, sec |-> fileDate.sec] /\ y \in Int
  <2>1. y \in Int
    BY <1>5
  <2>2. d = [fileDate EXCEPT !.day = y, !.hour = b.hour]
    BY <1>2 DEF GpsDate, Normal
  <2> HIDE DEF y, d
  <2> QED BY <1>2, <2>1, <2>2 DEF Normal
<1>7. fileDate.day * HOURS + fileDate.hour <= y * HOURS + b.hour
  <2>1. CASE fileDate.hour > b.hour
    <3>1. (fileDate.day + 1) * HOURS = fileDate.day * HOURS + HOURS /\ fileDate.day * HOURS \in Int
      BY <1>5, Lengths
    <3> QED BY <1>3, <1>5, <2>1, <3>1, Lengths
  <2>2. CASE ~(fileDate.hour > b.hour)
    <3>1. fileDate.day * HOURS \in Int
      BY <1>5, Lengths
    <3> QED BY <1>3, <1>5, <2>2, <3>1, Lengths
  <2> QED BY <2>1, <2>2
<1> HIDE DEF d, y
<1>8. d.day = y /\ d.hour = b.hour /\ d.min = fileDate.min /\ d.sec = fileDate.sec
  BY <1>6
<1> DEFINE g == gmtime(timegm(d))
<1>9. timegm(d) \in Int /\ Onward(fileDate, g) /\ g \in Normal
  <2>1. d.min \in Nat /\ d.sec \in Nat
    BY <1>5, <1>8, Lengths
  <2>2. timegm(d) \in Int /\ Onward(fileDate, g)
    BY <1>2, <1>3, <1>6, <1>7, <1>8, <2>1, ReachedHour
  <2> QED BY <2>2, TimeNormal
<1>10. b.hour < HOURS => g = d /\ d \in Normal
  <2> SUFFICES ASSUME b.hour < HOURS PROVE g = d /\ d \in Normal
    OBVIOUS
  <2>1. d \in Normal
    <3>1. b.hour \in 0..HOURS-1
      BY <1>3, Lengths
    <3> QED BY <1>5, <1>6, <3>1 DEF Normal
  <2> QED BY <2>1, NormalTime
<1> HIDE DEF g
<1>11. CASE changed
  <2>1. ~fToStdout /\ f = new_file(d, ok)
    BY <1>11
  <2>2. f.date = g /\ (f.out \in {Null, Stdout} \/ f.out = <<g.day, g.hour>>)
    <3>1. new_file(d, ok).date = g
      BY <2>1 DEF new_file, g
    <3>2. new_file(d, ok).out \in {Null, Stdout} \/ new_file(d, ok).out = <<g.day, g.hour>>
      BY <2>1 DEF new_file, g
    <3> QED BY <2>1, <3>1, <3>2
  <2> HIDE DEF f, changed
  <2>3. g.day \in Int /\ g.hour \in 0..HOURS-1 /\ g.hour <= b.hour
    <3>1. g.day \in Int /\ g.hour \in 0..HOURS-1
      BY <1>9 DEF Normal
    <3>2. CASE b.hour < HOURS
      BY <1>3, <1>8, <1>10, <3>1, <3>2
    <3>3. CASE ~(b.hour < HOURS)
      BY <1>3, <3>1, <3>3, Lengths
    <3> QED BY <3>1, <3>2, <3>3
  <2>4. e = [g EXCEPT !.hour = b.hour, !.min = b.min, !.sec = b.sec]
    BY <2>2
  <2> HIDE DEF e
  <2>5. e = [day |-> g.day, hour |-> b.hour, min |-> b.min, sec |-> b.sec]
    BY <1>9, <2>4 DEF Normal
  <2>6. g.day * HOURS + g.hour <= g.day * HOURS + b.hour
    <3>1. g.day * HOURS \in Int
      BY <2>3, Lengths
    <3> QED BY <1>3, <2>3, <3>1, Lengths
  <2>7. timegm(e) \in Int /\ Onward(g, gmtime(timegm(e)))
    <3>1. e.day = g.day /\ e.hour = b.hour /\ e.min = b.min /\ e.sec = b.sec
      BY <2>5
    <3> QED BY <1>3, <1>9, <2>3, <2>6, <3>1, ReachedHour
  <2>8. gmtime(timegm(e)) \in Normal /\ timegm(gmtime(timegm(e))) = timegm(e)
    BY <2>7, TimeNormal
  <2>9. TimeOfDay(w) => e \in Normal /\ g = d /\ fileDate' = e
    <3> SUFFICES ASSUME TimeOfDay(w) PROVE e \in Normal /\ g = d /\ fileDate' = e
      OBVIOUS
    <3>1. b.hour \in 0..HOURS-1 /\ b.min \in 0..MINUTES-1 /\ b.sec \in 0..SECONDS-1
      BY <1>3, Lengths DEF TimeOfDay, b
    <3>2. e \in Normal
      BY <2>3, <2>5, <3>1 DEF Normal
    <3>3. g = d
      BY <1>10, <3>1, Lengths
    <3> QED BY <1>4, <3>2, <3>3, NormalTime
  <2>10. plain' => g.day = fileDate'.day /\ g.hour = fileDate'.hour
    BY <1>1, <1>8, <2>5, <2>9
  <2>11. HourFile'
    <3>1. CASE fhout' \in {Null, Stdout}
      BY <3>1 DEF HourFile
    <3>2. CASE fhout' = <<g.day, g.hour>>
      <4>1. fhout' \in Int \X Int /\ NameOf(fhout').day = g.day /\ NameOf(fhout').hour = g.hour
        BY <2>3, <3>2 DEF NameOf
      <4>2. Onward(NameOf(fhout'), fileDate')
        BY <1>4, <2>7, <4>1 DEF Onward
      <4> QED BY <1>1, <2>1, <2>10, <3>2, <4>1, <4>2 DEF HourFile
    <3> QED BY <1>4, <2>2, <3>1, <3>2
  <2>12. OpensLater
    <3>1. CASE fhout' \in {Null, Stdout}
      BY <3>1 DEF OpensLater
    <3>2. CASE fhout' = <<g.day, g.hour>>
      BY <1>9, <2>3, <3>2 DEF OpensLater, Onward, NameOf
    <3> QED BY <1>4, <2>2, <3>1, <3>2
  <2> QED BY <1>1, <1>2, <1>3, <1>4, <2>3, <2>5, <2>7, <2>8, <2>11, <2>12, GpsLineFile DEF b
<1>12. CASE ~changed
  <2>1. f.date = d /\ f.out = fhout /\ (fToStdout \/ fileDate.hour = b.hour)
    BY <1>12 DEF NewHour
  <2>2. ~fToStdout => y = fileDate.day /\ b.hour = fileDate.hour
    BY <1>3, <1>5, <2>1 DEF y
  <2> HIDE DEF f, changed
  <2>3. e = [d EXCEPT !.hour = b.hour, !.min = b.min, !.sec = b.sec]
    BY <2>1
  <2> HIDE DEF e
  <2>4. e = [day |-> y, hour |-> b.hour, min |-> b.min, sec |-> b.sec]
    BY <1>6, <2>3
  <2>5. timegm(e) \in Int /\ Onward(fileDate, gmtime(timegm(e)))
    <3>1. e.day = y /\ e.hour = b.hour /\ e.min = b.min /\ e.sec = b.sec
      BY <2>4
    <3> QED BY <1>2, <1>3, <1>6, <1>7, <3>1, ReachedHour
  <2>6. gmtime(timegm(e)) \in Normal /\ timegm(gmtime(timegm(e))) = timegm(e)
    BY <2>5, TimeNormal
  <2>7. TimeOfDay(w) => fileDate' = e
    <3> SUFFICES ASSUME TimeOfDay(w) PROVE fileDate' = e
      OBVIOUS
    <3>1. b.hour \in 0..HOURS-1 /\ b.min \in 0..MINUTES-1 /\ b.sec \in 0..SECONDS-1
      BY <1>3, Lengths DEF TimeOfDay, b
    <3>2. e \in Normal
      BY <1>6, <2>4, <3>1 DEF Normal
    <3> QED BY <1>4, <3>2, NormalTime
  <2>8. HourFile'
    <3>1. CASE fhout \in {Null, Stdout}
      BY <1>4, <2>1, <3>1 DEF HourFile
    <3>2. CASE fhout \notin {Null, Stdout}
      <4>1. ~fToStdout /\ fhout \in Int \X Int /\ Onward(NameOf(fhout), fileDate)
            /\ (plain => fhout = <<fileDate.day, fileDate.hour>>)
        BY <1>1, <3>2 DEF FileInv, HourFile
      <4>2. NameOf(fhout).day \in Int /\ NameOf(fhout).hour \in Int
        BY <4>1 DEF NameOf
      <4>3. fileDate'.day \in Int /\ fileDate'.hour \in Int
        BY <1>4, <2>6, Lengths DEF Normal
      <4>4. Onward(NameOf(fhout), fileDate')
        BY <1>4, <1>5, <2>5, <4>1, <4>2, <4>3, Lengths DEF Onward
      <4>5. plain' => fhout = <<fileDate'.day, fileDate'.hour>>
        <5> SUFFICES ASSUME plain' PROVE fhout = <<fileDate'.day, fileDate'.hour>>
          OBVIOUS
        <5>1. plain /\ TimeOfDay(w)
          BY <1>1, <1>12
        <5>2. fileDate'.day = fileDate.day /\ fileDate'.hour = fileDate.hour
          BY <2>2, <2>4, <2>7, <4>1, <5>1
        <5> QED BY <4>1, <5>1, <5>2
      <4> QED BY <1>1, <1>4, <2>1, <4>1, <4>4, <4>5 DEF HourFile
    <3> QED BY <3>1, <3>2
  <2>9. OpensLater
    BY <1>4, <2>1 DEF OpensLater
  <2> QED BY <1>1, <1>2, <1>3, <1>4, <1>6, <2>4, <2>5, <2>6, <2>8, <2>9, GpsLineFile DEF b
<1> QED BY <1>11, <1>12

(* The file clock always satisfies its invariant. *)
LEMMA FileInvAlways == FileSpec => []FileInv
<1>1. ASSUME FileInit PROVE FileInv
  <2>1. fileDate = gmtime(0) /\ seconds = 0 /\ started = 0 /\ line = None /\ fhout = Null
    BY <1>1 DEF FileInit
  <2>2. FileType
    BY <2>1, TimeNormal, Lengths DEF FileType, None
  <2>3. fFirstTime
    BY <1>1 DEF FileInit
  <2> QED BY <2>1, <2>2, <2>3 DEF FileInv, HourFile, LastLine, PcClock, GpsClock
<1>2. ASSUME FileInv, [FileNext]_Filevars PROVE FileInv'
  <2>1. CASE UNCHANGED Filevars
    <3>1. UNCHANGED <<fileDate, fhout, line, seconds, started, plain>>
          /\ fFirstTime' = fFirstTime /\ falseGPS' = falseGPS /\ fToStdout' = fToStdout
      BY <2>1 DEF Filevars
    <3>2. FileType'
      BY <1>2, <3>1 DEF FileInv, FileType
    <3>3. HourFile' /\ LastLine' /\ PcClock'
      BY <1>2, <3>1, Zenon DEF FileInv, HourFile, LastLine, PcClock
    <3>4. GpsClock' /\ (fFirstTime => seconds = 0)'
      BY <1>2, <3>1, Zenon DEF FileInv, GpsClock
    <3> QED BY <3>2, <3>3, <3>4 DEF FileInv
  <2> QED BY <1>2, <2>1, FirstTimeFile, FalseSecondFile, GpsSecondFile DEF FileNext
<1> QED BY <1>1, <1>2, PTL DEF FileSpec

(* Every line of a second is in the file whose name has its day and hour,  *)
(* for every length of minutes, hours and days: with the false clock, and  *)
(* with any times of day in the words of a GPS, in any order.              *)
THEOREM SecondsInTheirFiles == FileSpec => []SecondInItsFile
<1>1. ASSUME FileInv PROVE SecondInItsFile
  <2>1. CASE line = None
    BY <2>1 DEF SecondInItsFile
  <2>2. CASE line # None
    <3>1. line.time = timegm(fileDate) /\ line.to = fhout
      BY <1>1, <2>2 DEF FileInv, LastLine
    <3>2. gmtime(line.time) = fileDate
      BY <1>1, <3>1, NormalTime DEF FileInv, FileType
    <3> QED BY <1>1, <3>1, <3>2 DEF FileInv, HourFile, SecondInItsFile
  <2> QED BY <2>1, <2>2
<1> QED BY <1>1, FileInvAlways, PTL

(* Before the first call of read_buffer no file is open. *)
Unopened == fFirstTime \in BOOLEAN /\ (fFirstTime => fhout = Null)

(* Within a run a data file that was left is never opened again, so what   *)
(* new_file appends to ("ab") is one stretch of time: through hours, days  *)
(* and whatever the words of the register are, times of day or not.        *)
THEOREM FilesFollowTime == FileSpec => FilesInOrder
<1> DEFINE InOrder == fhout' # fhout /\ {fhout, fhout'} \cap {Null, Stdout} = {}
                        => LaterFile(fhout, fhout')
<1>1. FileInit => Unopened
  <2> SUFFICES ASSUME FileInit PROVE Unopened
    OBVIOUS
  <2>1. fFirstTime \in BOOLEAN /\ fhout = Null
    BY Zenon DEF FileInit
  <2> QED BY <2>1 DEF Unopened
<1>2. Unopened /\ [FileNext]_Filevars => Unopened'
  <2> SUFFICES ASSUME Unopened, [FileNext]_Filevars PROVE Unopened'
    OBVIOUS
  <2>1. CASE UNCHANGED Filevars
    BY <2>1, Zenon DEF Unopened, Filevars
  <2>2. ASSUME NEW now, NEW ok, FirstTime(now, ok) PROVE fFirstTime' = FALSE
    BY <2>2, Zenon DEF FirstTime
  <2>3. ASSUME NEW ok, FalseSecond(ok) PROVE fFirstTime' = fFirstTime /\ ~fFirstTime
    BY <2>3, Zenon DEF FalseSecond, Running
  <2>4. ASSUME NEW w, NEW ok, GpsSecond(w, ok) PROVE fFirstTime' = fFirstTime /\ ~fFirstTime
    BY <2>4, Zenon DEF GpsSecond, Running
  <2> QED BY <2>1, <2>2, <2>3, <2>4, Zenon DEF FileNext, Unopened
<1>3. ASSUME FileInv, FileInv', Unopened, FileNext PROVE InOrder
  <2> SUFFICES ASSUME fhout' # fhout, fhout \notin {Null, Stdout}, fhout' \notin {Null, Stdout}
               PROVE  LaterFile(fhout, fhout')
    OBVIOUS
  <2>1. fhout \in Int \X Int /\ Onward(NameOf(fhout), fileDate) /\ fhout' \in Int \X Int
    BY <1>3 DEF FileInv, HourFile
  <2>2. fileDate.day \in Int /\ fileDate.hour \in Int
    BY <1>3, Lengths DEF FileInv, FileType, Normal
  <2>3. ~fFirstTime
    BY <1>3 DEF Unopened
  <2>4. Onward(fileDate, NameOf(fhout'))
    <3>1. ASSUME NEW now, NEW ok PROVE ~FirstTime(now, ok)
      BY <2>3, Zenon DEF FirstTime
    <3>2. OpensLater
      BY <1>3, <3>1, FalseSecondFile, GpsSecondFile, Zenon DEF FileNext
    <3> QED BY <3>2 DEF OpensLater
  <2>5. fhout[1] # fhout'[1] \/ fhout[2] # fhout'[2]
    BY <2>1
  <2> QED BY <2>1, <2>2, <2>4, <2>5 DEF Onward, NameOf, LaterFile
<1>4. FileInv /\ FileInv' /\ Unopened /\ [FileNext]_Filevars => [InOrder]_Filevars
  BY <1>3
<1> HIDE DEF InOrder
<1>5. FileSpec => [][InOrder]_Filevars
  BY <1>1, <1>2, <1>4, FileInvAlways, PTL DEF FileSpec
<1> QED BY <1>5 DEF FilesInOrder, InOrder

(* The clock of the files keeps its distance to the PC's clock and PPS     *)
(* count; with a GPS its time of day is the one of the word, for every     *)
(* word and every length of minutes, hours and days.                       *)
THEOREM FileClockKept == FileSpec => []ClockKept
<1>1. ASSUME FileInv PROVE ClockKept
  <2>1. CASE line = None
    BY <2>1, Zenon DEF ClockKept
  <2>2. CASE line # None
    <3>1. line.time = timegm(fileDate) /\ seconds # 0 /\ ~fFirstTime
      BY <1>1, <2>2 DEF FileInv, LastLine
    <3>2. CASE falseGPS
      <4>1. line.time = started + seconds
        BY <1>1, <3>1, <3>2 DEF FileInv, PcClock
      <4> QED BY <3>2, <4>1, Zenon DEF ClockKept
    <3>3. CASE ~falseGPS
      BY <1>1, <2>2, <3>1, <3>3, Zenon DEF FileInv, GpsClock, ClockKept
    <3> QED BY <3>2, <3>3
  <2> QED BY <2>1, <2>2
<1> QED BY <1>1, FileInvAlways, PTL
----------------------------------------------------------------------------
(* The sensor.  A process whose measurement is undisturbed sleeps one unit *)
(* longer than the sensor converts; when it wakes the result is its own.   *)
Conv == [kind : {"none", "temp", "pressure"}, oss : 0..3, id : Int]

BmpType ==
  /\ upc \in [User -> {"off", "ready", "wait", "read", "crashed"}]
  /\ held \in [User -> SUBSET {"bmp", "path", "file"}]
  /\ noAddr \in [User -> BOOLEAN] /\ clean \in [User -> BOOLEAN]
  /\ oss \in [User -> 0..3]
  /\ asked \in [User -> Conv] /\ nap \in [User -> Nat] /\ data \in [User -> Seq(Conv)]
  /\ conv \in Conv /\ result \in Conv /\ left \in Nat /\ faults \in Nat /\ n \in Nat

Done(u) == result = asked[u] /\ left = 0
UnderWay(u) == conv = asked[u] /\ left >= 1 /\ nap[u] = left + 1

OwnBytes(u) == \A i \in 1..Len(data[u]) : data[u][i] = asked[u]

Measured(u) ==
  clean[u] => /\ upc[u] = "wait" => data[u] = <<>> /\ (UnderWay(u) \/ Done(u))
              /\ upc[u] = "read" => Done(u)
              /\ upc[u] \in {"read", "ready"} => OwnBytes(u)

MeasureInv == BmpType /\ \A u \in User : Measured(u)

Coefficients(u) ==
  /\ upc[u] = "crashed" => held[u] = IF noAddr[u] THEN {"file"} ELSE {}
  /\ upc[u] \in {"ready", "wait", "read"} /\ faults = 0 => coef[u] = <<Short(Stored), Stored>>

CoefInv == /\ BmpType /\ eeprom \in (0..255) \X (0..255) /\ coef \in [User -> Int \X Int]
           /\ \A u \in User : Coefficients(u)

(* The program sleeps longer than the sensor converts. *)
LEMMA WaitsLonger ==
  ASSUME NEW kind \in {"temp", "pressure"}, NEW o \in 0..3
  PROVE  /\ Converts(kind, o) \in Nat /\ Converts(kind, o) >= 1
         /\ Wait(kind, o) = Converts(kind, o) + 1 /\ Wait(kind, o) \in Nat
<1>1. o = 0 \/ o = 1 \/ o = 2 \/ o = 3
  OBVIOUS
<1> QED BY <1>1 DEF Wait, Converts

(* All processes are off. *)
LEMMA BmpTypeInit == BmpInit => BmpType
BY DEF BmpInit, BmpType, Idle, Conv

(* Types are kept. *)
LEMMA BmpTypeStep ==
  ASSUME BmpType, [BmpNext]_Bmpvars PROVE BmpType'
<1>1. CASE Tick
  <2>1. nap' \in [User -> Nat]
    BY <1>1 DEF Tick, BmpType
  <2>2. left' \in Nat /\ conv' \in Conv /\ result' \in Conv
    BY <1>1 DEF Tick, BmpType, Idle, Conv
  <2>3. UNCHANGED <<upc, held, noAddr, coef, oss, asked, data, clean, eeprom, n, faults>>
    BY <1>1 DEF Tick
  <2> QED BY <2>1, <2>2, <2>3 DEF BmpType
<1>2. ASSUME NEW u \in User, NEW place \in {"malloc", "path", "open", "addr"}, OpenFails(u, place)
      PROVE  BmpType'
  <2>1. upc' \in [User -> {"off", "ready", "wait", "read", "crashed"}]
    BY <1>2 DEF OpenFails, BmpType
  <2>2. Cleanup(Acquired[place]) \in SUBSET {"bmp", "path", "file"}
    BY DEF Cleanup, Acquired
  <2>3. held' \in [User -> SUBSET {"bmp", "path", "file"}]
    BY <1>2, <2>2 DEF OpenFails, BmpType
  <2>4. noAddr' \in [User -> BOOLEAN]
    BY <1>2 DEF OpenFails, BmpType
  <2>5. UNCHANGED <<coef, oss, asked, nap, data, clean, sensor, n, faults>>
    BY <1>2 DEF OpenFails
  <2> QED BY <2>1, <2>3, <2>4, <2>5 DEF BmpType, sensor
<1>3. ASSUME NEW u \in User, NEW o \in Oss, NEW ok \in BOOLEAN, Open(u, o, ok) PROVE BmpType'
  <2>1. upc' \in [User -> {"off", "ready", "wait", "read", "crashed"}]
        /\ held' \in [User -> SUBSET {"bmp", "path", "file"}] /\ oss' \in [User -> 0..3]
    BY <1>3, BmpAssumption DEF Open, BmpType
  <2>2. clean' \in [User -> BOOLEAN]
    BY <1>3 DEF Open, BmpType
  <2>3. faults' \in Nat
    BY <1>3 DEF Open, BmpType
  <2>4. UNCHANGED <<noAddr, asked, nap, data, sensor, n>>
    BY <1>3 DEF Open
  <2> QED BY <2>1, <2>2, <2>3, <2>4 DEF BmpType, sensor
<1>4. ASSUME NEW u \in User, NEW kind \in {"temp", "pressure"}, NEW ok \in BOOLEAN,
             Command(u, kind, ok)
      PROVE  BmpType'
  <2> DEFINE c == [kind |-> kind, oss |-> IF kind = "temp" THEN 0 ELSE oss[u], id |-> n + 1]
  <2>1. c \in Conv /\ oss[u] \in 0..3
    BY DEF BmpType, Conv
  <2>2. upc' = [upc EXCEPT ![u] = "wait"] /\ asked' = [asked EXCEPT ![u] = c]
        /\ nap' = [nap EXCEPT ![u] = Wait(kind, oss[u])] /\ data' = [data EXCEPT ![u] = <<>>]
        /\ n' = n + 1 /\ (conv' = c \/ conv' = conv) /\ (left' = Converts(kind, oss[u]) \/ left' = left)
    BY <1>4 DEF Command
  <2>3. faults' \in Nat
    BY <1>4 DEF Command, BmpType
  <2>4. clean' \in [User -> BOOLEAN]
    BY <1>4, Zenon DEF Command, BmpType
  <2>5. UNCHANGED <<held, noAddr, coef, oss, eeprom, result>>
    BY <1>4 DEF Command
  <2> HIDE DEF c
  <2>6. upc' \in [User -> {"off", "ready", "wait", "read", "crashed"}] /\ asked' \in [User -> Conv]
        /\ nap' \in [User -> Nat] /\ data' \in [User -> Seq(Conv)] /\ conv' \in Conv /\ left' \in Nat
        /\ n' \in Nat
    <3>1. Wait(kind, oss[u]) \in Nat /\ Converts(kind, oss[u]) \in Nat
      BY <2>1, WaitsLonger
    <3>2. <<>> \in Seq(Conv)
      OBVIOUS
    <3>3. data' \in [User -> Seq(Conv)]
      BY <2>2, <3>2 DEF BmpType
    <3> QED BY <2>1, <2>2, <3>1, <3>3 DEF BmpType
  <2> QED BY <2>3, <2>4, <2>5, <2>6 DEF BmpType
<1>5. ASSUME NEW u \in User, Wake(u) PROVE BmpType'
  BY <1>5 DEF Wake, BmpType, sensor
<1>6. ASSUME NEW u \in User, NEW ok \in BOOLEAN, ReadData(u, ok) PROVE BmpType'
  <2>1. upc' \in [User -> {"off", "ready", "wait", "read", "crashed"}]
    BY <1>6 DEF ReadData, BmpType
  <2>2. (IF ok THEN result ELSE Idle) \in Conv /\ data[u] \in Seq(Conv)
    BY DEF BmpType, Idle, Conv
  <2>3. data' \in [User -> Seq(Conv)]
    BY <1>6, <2>2 DEF ReadData, BmpType
  <2>4. clean' \in [User -> BOOLEAN]
    BY <1>6, Zenon DEF ReadData, BmpType
  <2>5. faults' \in Nat
    BY <1>6 DEF ReadData, BmpType
  <2>6. UNCHANGED <<held, noAddr, coef, oss, asked, nap, sensor, n>>
    BY <1>6 DEF ReadData
  <2> QED BY <2>1, <2>3, <2>4, <2>5, <2>6 DEF BmpType, sensor
<1>7. ASSUME NEW u \in User, CloseBmp(u) PROVE BmpType'
  <2>1. Idle \in Conv
    BY DEF Idle, Conv
  <2> QED BY <1>7, <2>1 DEF CloseBmp, BmpType, sensor
<1>8. CASE UNCHANGED Bmpvars
  BY <1>8 DEF Bmpvars, user, sensor, BmpType
<1> QED BY <1>1, <1>2, <1>3, <1>4, <1>5, <1>6, <1>7, <1>8 DEF BmpNext

(* A process whose own state is unchanged, with an unchanged sensor. *)
LEMMA OthersMeasured ==
  ASSUME NEW v \in User, Measured(v), clean'[v] => clean[v],
         upc'[v] = upc[v], data'[v] = data[v], asked'[v] = asked[v], nap'[v] = nap[v],
         conv' = conv, left' = left, result' = result
  PROVE  Measured(v)'
BY Zenon DEF Measured, Done, UnderWay, OwnBytes

(* A step of any process, or of time, keeps the measurements. *)
LEMMA MeasureStep ==
  ASSUME MeasureInv, [BmpNext]_Bmpvars, NEW v \in User PROVE Measured(v)'
<1> USE DEF BmpType
<1>0. Measured(v) /\ BmpType
  BY DEF MeasureInv
<1>1. CASE Tick
  <2>1. upc' = upc /\ data' = data /\ asked' = asked /\ clean' = clean
    BY <1>1 DEF Tick
  <2>2. OwnBytes(v)' <=> OwnBytes(v)
    BY <2>1 DEF OwnBytes
  <2>3. nap[v] \in Nat /\ left \in Nat
    BY <1>0
  <2>4. nap'[v] = IF nap[v] > 0 THEN nap[v] - 1 ELSE 0
    BY <1>1 DEF Tick
  <2>5. left' = IF left > 0 THEN left - 1 ELSE 0
    BY <1>1, Zenon DEF Tick
  <2>6. (left = 1 => result' = conv) /\ (left # 1 => result' = result /\ conv' = conv)
    BY <1>1, Zenon DEF Tick
  <2>7. ASSUME Done(v) PROVE Done(v)'
    <3>1. left = 0 /\ result = asked[v]
      BY <2>7 DEF Done
    <3>2. left' = 0 /\ result' = result
      BY <2>5, <2>6, <3>1
    <3> QED BY <2>1, <3>1, <3>2 DEF Done
  <2>8. ASSUME UnderWay(v) PROVE Done(v)' \/ UnderWay(v)'
    <3>1. conv = asked[v] /\ left >= 1 /\ nap[v] = left + 1
      BY <2>8 DEF UnderWay
    <3>2. CASE left = 1
      <4>1. left' = 0 /\ result' = conv
        BY <2>5, <2>6, <3>2
      <4> QED BY <2>1, <3>1, <4>1 DEF Done
    <3>3. CASE left # 1
      <4>1. left' = left - 1 /\ nap'[v] = nap[v] - 1
        BY <2>3, <2>4, <2>5, <3>1
      <4>2. left' >= 1 /\ nap'[v] = left' + 1
        BY <2>3, <3>1, <3>3, <4>1
      <4>3. conv' = conv
        BY <2>6, <3>3
      <4> QED BY <2>1, <3>1, <4>2, <4>3 DEF UnderWay
    <3> QED BY <3>2, <3>3
  <2> QED BY <1>0, <2>1, <2>2, <2>7, <2>8, Zenon DEF Measured
<1>2. ASSUME NEW u \in User, NEW place \in {"malloc", "path", "open", "addr"}, OpenFails(u, place)
      PROVE  Measured(v)'
  <2>1. upc' = [upc EXCEPT ![u] = "crashed"] /\ UNCHANGED <<asked, nap, data, clean, conv, left, result>>
    BY <1>2 DEF OpenFails, sensor
  <2>2. CASE u = v
    <3>1. upc'[v] = "crashed"
      BY <1>0, <2>1, <2>2
    <3> QED BY <3>1 DEF Measured
  <2>3. CASE u # v
    <3>1. upc'[v] = upc[v]
      BY <1>0, <2>1, <2>3
    <3> QED BY <1>0, <2>1, <3>1, OthersMeasured
  <2> QED BY <2>2, <2>3
<1>3. ASSUME NEW u \in User, NEW o \in Oss, NEW ok \in BOOLEAN, Open(u, o, ok) PROVE Measured(v)'
  <2>1. upc' = [upc EXCEPT ![u] = "ready"] /\ clean' = [clean EXCEPT ![u] = FALSE]
        /\ UNCHANGED <<asked, nap, data, conv, left, result>>
    BY <1>3 DEF Open, sensor
  <2>2. CASE u = v
    <3>1. ~clean'[v]
      BY <1>0, <2>1, <2>2
    <3> QED BY <3>1 DEF Measured
  <2>3. CASE u # v
    <3>1. upc'[v] = upc[v] /\ clean'[v] = clean[v]
      BY <1>0, <2>1, <2>3
    <3> QED BY <1>0, <2>1, <3>1, OthersMeasured
  <2> QED BY <2>2, <2>3
<1>4. ASSUME NEW u \in User, NEW kind \in {"temp", "pressure"}, NEW ok \in BOOLEAN,
             Command(u, kind, ok)
      PROVE  Measured(v)'
  <2> DEFINE c == [kind |-> kind, oss |-> IF kind = "temp" THEN 0 ELSE oss[u], id |-> n + 1]
  <2>1. upc' = [upc EXCEPT ![u] = "wait"] /\ asked' = [asked EXCEPT ![u] = c]
        /\ nap' = [nap EXCEPT ![u] = Wait(kind, oss[u])] /\ data' = [data EXCEPT ![u] = <<>>]
        /\ (ok => conv' = c /\ left' = Converts(kind, oss[u])) /\ (~ok => conv' = conv /\ left' = left)
        /\ result' = result
    BY <1>4 DEF Command
  <2>2. clean' = [w \in User |-> IF w = u THEN ok ELSE clean[w] /\ ~ok]
    BY <1>4, Zenon DEF Command
  <2> HIDE DEF c
  <2>3. CASE u = v
    <3>1. clean'[v] => ok
      BY <2>2, <2>3, Zenon
    <3>2. oss[u] \in 0..3
      BY <1>0
    <3>3. upc'[v] = "wait" /\ data'[v] = <<>> /\ asked'[v] = c /\ nap'[v] = Wait(kind, oss[u])
      BY <1>0, <2>1, <2>3
    <3>4. ASSUME ok PROVE UnderWay(v)'
      BY <2>1, <3>2, <3>3, <3>4, WaitsLonger DEF UnderWay
    <3> QED BY <3>1, <3>3, <3>4 DEF Measured
  <2>4. CASE u # v
    <3>1. clean'[v] => clean[v] /\ ~ok
      BY <2>2, <2>4, Zenon
    <3>2. upc'[v] = upc[v] /\ data'[v] = data[v] /\ asked'[v] = asked[v] /\ nap'[v] = nap[v]
      BY <1>0, <2>1, <2>4
    <3>3. CASE ok
      BY <3>1, <3>3 DEF Measured
    <3>4. CASE ~ok
      BY <1>0, <2>1, <3>1, <3>2, <3>4, OthersMeasured
    <3> QED BY <3>3, <3>4
  <2> QED BY <2>3, <2>4
<1>5. ASSUME NEW u \in User, Wake(u) PROVE Measured(v)'
  <2>1. upc[u] = "wait" /\ nap[u] = 0 /\ upc' = [upc EXCEPT ![u] = "read"]
        /\ UNCHANGED <<asked, nap, data, clean, conv, left, result>>
    BY <1>5 DEF Wake, sensor
  <2>2. CASE u = v
    <3>1. upc'[v] = "read" /\ clean'[v] = clean[v] /\ left \in Nat
      BY <1>0, <2>1, <2>2
    <3>2. ASSUME clean[v] PROVE data[v] = <<>> /\ Done(v)
      <4>1. data[v] = <<>> /\ (UnderWay(v) \/ Done(v))
        BY <1>0, <2>1, <2>2, <3>2 DEF Measured
      <4>2. ~UnderWay(v)
        BY <2>1, <2>2, <3>1 DEF UnderWay
      <4> QED BY <4>1, <4>2
    <3>3. ASSUME clean[v] PROVE Done(v)' /\ OwnBytes(v)'
      BY <2>1, <3>2, <3>3 DEF Done, OwnBytes
    <3> QED BY <3>1, <3>3 DEF Measured
  <2>3. CASE u # v
    <3>1. upc'[v] = upc[v]
      BY <1>0, <2>1, <2>3
    <3> QED BY <1>0, <2>1, <3>1, OthersMeasured
  <2> QED BY <2>2, <2>3
<1>6. ASSUME NEW u \in User, NEW ok \in BOOLEAN, ReadData(u, ok) PROVE Measured(v)'
  <2>1. upc[u] = "read" /\ data' = [data EXCEPT ![u] = Append(@, IF ok THEN result ELSE Idle)]
        /\ UNCHANGED <<asked, nap, conv, left, result>>
    BY <1>6 DEF ReadData, sensor
  <2>2. \E x \in {"ready", "read"} : upc' = [upc EXCEPT ![u] = x]
    BY <1>6 DEF ReadData
  <2>3. clean' = [clean EXCEPT ![u] = @ /\ ok]
    BY <1>6, Zenon DEF ReadData
  <2>4. CASE u = v
    <3>1. clean'[v] => clean[v] /\ ok
      BY <1>0, <2>3, <2>4, Zenon
    <3>2. upc'[v] \in {"ready", "read"}
      BY <1>0, <2>2, <2>4
    <3>3. ASSUME clean[v], ok PROVE Done(v)' /\ OwnBytes(v)'
      <4>1. Done(v) /\ OwnBytes(v) /\ data[v] \in Seq(Conv) /\ result \in Conv
        BY <1>0, <2>1, <2>4, <3>3 DEF Measured
      <4>2. data'[v] = Append(data[v], result)
        BY <1>0, <2>1, <2>4, <3>3
      <4>3. \A i \in 1..Len(Append(data[v], result)) : Append(data[v], result)[i] = asked[v]
        BY <4>1 DEF Done, OwnBytes
      <4> QED BY <2>1, <4>1, <4>2, <4>3 DEF Done, OwnBytes
    <3> QED BY <3>1, <3>2, <3>3 DEF Measured
  <2>5. CASE u # v
    <3>1. upc'[v] = upc[v] /\ data'[v] = data[v]
      BY <1>0, <2>1, <2>2, <2>5
    <3>2. clean'[v] = clean[v]
      BY <1>0, <2>3, <2>5
    <3> QED BY <1>0, <2>1, <3>1, <3>2, OthersMeasured
  <2> QED BY <2>4, <2>5
<1>7. ASSUME NEW u \in User, CloseBmp(u) PROVE Measured(v)'
  <2>1. upc' = [upc EXCEPT ![u] = "off"] /\ data' = [data EXCEPT ![u] = <<>>]
        /\ asked' = [asked EXCEPT ![u] = Idle] /\ UNCHANGED <<nap, conv, left, result>>
        /\ clean' = [clean EXCEPT ![u] = FALSE]
    BY <1>7 DEF CloseBmp, sensor
  <2>2. CASE u = v
    <3>1. ~clean'[v]
      BY <1>0, <2>1, <2>2
    <3> QED BY <3>1 DEF Measured
  <2>3. CASE u # v
    <3>1. upc'[v] = upc[v] /\ data'[v] = data[v] /\ asked'[v] = asked[v] /\ clean'[v] = clean[v]
      BY <1>0, <2>1, <2>3
    <3> QED BY <1>0, <2>1, <3>1, OthersMeasured
  <2> QED BY <2>2, <2>3
<1>8. CASE UNCHANGED Bmpvars
  <2>1. UNCHANGED <<upc, data, asked, nap, clean, conv, left, result>>
    BY <1>8 DEF Bmpvars, user, sensor
  <2> QED BY <1>0, <2>1, OthersMeasured
<1> QED BY <1>1, <1>2, <1>3, <1>4, <1>5, <1>6, <1>7, <1>8 DEF BmpNext

(* The bytes of a measurement are its own unless a transfer failed or      *)
(* another process started a conversion, for any number of processes.      *)
THEOREM MeasuresOwnConversion == BmpSpec => []OwnConversion
<1>1. BmpInit => MeasureInv
  <2>1. ASSUME BmpInit, NEW u \in User PROVE Measured(u)
    <3>1. ~clean[u]
      BY <2>1 DEF BmpInit
    <3> QED BY <3>1 DEF Measured
  <2> QED BY <2>1, BmpTypeInit DEF MeasureInv
<1>2. MeasureInv /\ [BmpNext]_Bmpvars => MeasureInv'
  BY BmpTypeStep, MeasureStep DEF MeasureInv
<1>3. MeasureInv => OwnConversion
  BY DEF MeasureInv, Measured, OwnBytes, OwnConversion
<1> QED BY <1>1, <1>2, <1>3, PTL DEF BmpSpec

(* The bytes come exchanged and are put in order before the sign is taken. *)
LEMMA EpromSound ==
  ASSUME eeprom \in (0..255) \X (0..255)
  PROVE  ReadEprom(TRUE) = <<Short(Stored), Stored>>
<1> DEFINE a == eeprom[1]
           b == eeprom[2]
           w == a + 256 * b
<1>1. a \in 0..255 /\ b \in 0..255
  OBVIOUS
<1>2. ReadWord(TRUE) = w
  BY DEF ReadWord
<1>3. Stored = 256 * a + b
  BY DEF Stored
<1> HIDE DEF a, b
<1>4. w % 256 = a /\ w \div 256 = b
  BY <1>1
<1> HIDE DEF w
<1>5. a * 256 + b = Stored /\ Stored \in Int
  BY <1>1, <1>3
<1>6. (w % 256) * 256 + (w \div 256) = Stored
  BY <1>4, <1>5
<1>7. EpromReg(w, FALSE) = Stored
  BY <1>6 DEF EpromReg
<1>8. EpromReg(w, TRUE) = Short(Stored)
  BY <1>5, <1>6 DEF EpromReg, Short
<1> QED BY <1>2, <1>7, <1>8, Zenon DEF ReadEprom

(* The coefficients read from the sensor are integers. *)
LEMMA EpromType ==
  ASSUME eeprom \in (0..255) \X (0..255), NEW ok \in BOOLEAN
  PROVE  ReadEprom(ok) \in Int \X Int
<1>1. ReadWord(ok) \in Int
  <2> DEFINE a == eeprom[1]
             b == eeprom[2]
  <2>1. a \in Int /\ b \in Int
    OBVIOUS
  <2>2. ReadWord(ok) = IF ok THEN a + 256 * b ELSE 65535
    BY DEF ReadWord
  <2> HIDE DEF a, b
  <2> QED BY <2>1, <2>2
<1>2. ASSUME NEW w \in Int, NEW sign \in BOOLEAN PROVE EpromReg(w, sign) \in Int
  BY DEF EpromReg
<1> QED BY <1>1, <1>2 DEF ReadEprom

(* A process whose own state is unchanged. *)
LEMMA OthersCoefficients ==
  ASSUME NEW v \in User, Coefficients(v), eeprom' = eeprom, faults' = 0 => faults = 0,
         upc'[v] \in {"ready", "wait", "read"} => upc[v] \in {"ready", "wait", "read"},
         upc'[v] = "crashed" => upc[v] = "crashed", held'[v] = held[v],
         noAddr'[v] = noAddr[v], coef'[v] = coef[v]
  PROVE  Coefficients(v)'
<1>1. Stored' = Stored
  BY DEF Stored
<1> QED BY <1>1 DEF Coefficients

(* A step of any process keeps the coefficients of all. *)
LEMMA CoefStep ==
  ASSUME CoefInv, [BmpNext]_Bmpvars
  PROVE  /\ eeprom' = eeprom /\ coef' \in [User -> Int \X Int]
         /\ \A v \in User : Coefficients(v)'
<1>1. BmpType /\ eeprom \in (0..255) \X (0..255) /\ coef \in [User -> Int \X Int]
      /\ \A v \in User : Coefficients(v)
  BY DEF CoefInv
<1> USE DEF BmpType
<1>2. CASE Tick \/ UNCHANGED Bmpvars
  <2>1. UNCHANGED <<upc, held, noAddr, coef, eeprom, faults>>
    BY <1>2 DEF Tick, Bmpvars, user, sensor
  <2> QED BY <1>1, <2>1, OthersCoefficients
<1>3. ASSUME NEW u \in User, NEW place \in {"malloc", "path", "open", "addr"}, OpenFails(u, place)
      PROVE  /\ eeprom' = eeprom /\ coef' \in [User -> Int \X Int]
             /\ \A v \in User : Coefficients(v)'
  <2>1. upc' = [upc EXCEPT ![u] = "crashed"] /\ UNCHANGED <<coef, eeprom, faults>>
        /\ held' = [held EXCEPT ![u] = IF place = "malloc" THEN {} ELSE Cleanup(Acquired[place])]
    BY <1>3 DEF OpenFails, sensor
  <2>2. noAddr' = [noAddr EXCEPT ![u] = (place = "addr")]
    BY <1>3, Zenon DEF OpenFails
  <2>3. ASSUME NEW v \in User PROVE Coefficients(v)'
    <3>1. CASE v = u
      <4>1. upc'[v] = "crashed" /\ held'[v] = IF place = "malloc" THEN {} ELSE Cleanup(Acquired[place])
        BY <1>1, <2>1, <3>1
      <4>2. noAddr'[v] <=> place = "addr"
        BY <1>1, <2>2, <3>1, Zenon
      <4>3. held'[v] = IF place = "addr" THEN {"file"} ELSE {}
        BY <4>1 DEF Cleanup, Acquired
      <4> QED BY <4>1, <4>2, <4>3 DEF Coefficients
    <3>2. CASE v # u
      <4>1. upc'[v] = upc[v] /\ held'[v] = held[v] /\ noAddr'[v] = noAddr[v]
        BY <1>1, <2>1, <2>2, <3>2
      <4> QED BY <1>1, <2>1, <4>1, OthersCoefficients
    <3> QED BY <3>1, <3>2
  <2> QED BY <1>1, <2>1, <2>3
<1>4. ASSUME NEW u \in User, NEW o \in Oss, NEW ok \in BOOLEAN, Open(u, o, ok)
      PROVE  /\ eeprom' = eeprom /\ coef' \in [User -> Int \X Int]
             /\ \A v \in User : Coefficients(v)'
  <2>1. upc' = [upc EXCEPT ![u] = "ready"] /\ coef' = [coef EXCEPT ![u] = ReadEprom(ok)]
        /\ eeprom' = eeprom /\ noAddr' = noAddr
        /\ held' = [held EXCEPT ![u] = {"bmp", "path", "file"}]
    BY <1>4 DEF Open, sensor
  <2>2. (ok => faults' = faults) /\ (~ok => faults' = faults + 1) /\ faults \in Nat
    BY <1>1, <1>4 DEF Open
  <2>3. (faults' = 0 => faults = 0 /\ ok)
    BY <2>2
  <2>4. ReadEprom(ok) \in Int \X Int
    BY <1>1, EpromType
  <2>5. ASSUME NEW v \in User PROVE Coefficients(v)'
    <3>1. CASE v = u
      <4>1. upc'[v] = "ready" /\ coef'[v] = ReadEprom(ok)
        BY <1>1, <2>1, <3>1
      <4>2. ASSUME faults' = 0 PROVE coef'[v] = ReadEprom(TRUE)
        BY <2>3, <4>1, <4>2
      <4>3. ReadEprom(TRUE) = <<Short(Stored), Stored>>
        BY <1>1, EpromSound
      <4>4. Stored' = Stored
        BY <2>1 DEF Stored
      <4> QED BY <4>1, <4>2, <4>3, <4>4 DEF Coefficients
    <3>2. CASE v # u
      <4>1. upc'[v] = upc[v] /\ held'[v] = held[v] /\ coef'[v] = coef[v]
        BY <1>1, <2>1, <3>2
      <4> QED BY <1>1, <2>1, <2>3, <4>1, OthersCoefficients
    <3> QED BY <3>1, <3>2
  <2> QED BY <1>1, <2>1, <2>4, <2>5
<1>5. ASSUME NEW u \in User, UNCHANGED <<held, noAddr, coef, eeprom>>, faults' = 0 => faults = 0,
             NEW x \in {"wait", "read", "ready"}, upc' = [upc EXCEPT ![u] = x],
             upc[u] \in {"ready", "wait", "read"}
      PROVE  /\ eeprom' = eeprom /\ coef' \in [User -> Int \X Int]
             /\ \A v \in User : Coefficients(v)'
  <2>1. ASSUME NEW v \in User PROVE Coefficients(v)'
    <3>1. upc'[v] = IF v = u THEN x ELSE upc[v]
      BY <1>1, <1>5
    <3> QED BY <1>1, <1>5, <3>1, OthersCoefficients
  <2> QED BY <1>1, <1>5, <2>1
<1>6. ASSUME NEW u \in User, NEW kind \in {"temp", "pressure"}, NEW ok \in BOOLEAN,
             Command(u, kind, ok)
      PROVE  /\ eeprom' = eeprom /\ coef' \in [User -> Int \X Int]
             /\ \A v \in User : Coefficients(v)'
  <2>1. faults' = 0 => faults = 0
    BY <1>1, <1>6 DEF Command
  <2>2. UNCHANGED <<held, noAddr, coef, eeprom>> /\ upc[u] = "ready" /\ upc' = [upc EXCEPT ![u] = "wait"]
    BY <1>6 DEF Command
  <2> QED BY <1>5, <2>1, <2>2
<1>7. ASSUME NEW u \in User, Wake(u)
      PROVE  /\ eeprom' = eeprom /\ coef' \in [User -> Int \X Int]
             /\ \A v \in User : Coefficients(v)'
  <2>1. UNCHANGED <<held, noAddr, coef, eeprom, faults>> /\ upc[u] = "wait"
        /\ upc' = [upc EXCEPT ![u] = "read"]
    BY <1>7 DEF Wake, sensor
  <2> QED BY <1>5, <2>1
<1>8. ASSUME NEW u \in User, NEW ok \in BOOLEAN, ReadData(u, ok)
      PROVE  /\ eeprom' = eeprom /\ coef' \in [User -> Int \X Int]
             /\ \A v \in User : Coefficients(v)'
  <2>1. faults' = 0 => faults = 0
    BY <1>1, <1>8 DEF ReadData
  <2>2. UNCHANGED <<held, noAddr, coef, eeprom>> /\ upc[u] = "read"
        /\ \E x \in {"ready", "read"} : upc' = [upc EXCEPT ![u] = x]
    BY <1>8 DEF ReadData, sensor
  <2> QED BY <1>5, <2>1, <2>2
<1>9. ASSUME NEW u \in User, CloseBmp(u)
      PROVE  /\ eeprom' = eeprom /\ coef' \in [User -> Int \X Int]
             /\ \A v \in User : Coefficients(v)'
  <2>1. UNCHANGED <<noAddr, eeprom, faults>> /\ upc' = [upc EXCEPT ![u] = "off"]
        /\ held' = [held EXCEPT ![u] = {}] /\ coef' = [coef EXCEPT ![u] = NoCoef]
    BY <1>9 DEF CloseBmp, sensor
  <2>2. ASSUME NEW v \in User PROVE Coefficients(v)'
    <3>1. CASE v = u
      <4>1. upc'[v] = "off"
        BY <1>1, <2>1, <3>1
      <4> QED BY <4>1 DEF Coefficients
    <3>2. CASE v # u
      <4>1. upc'[v] = upc[v] /\ held'[v] = held[v] /\ coef'[v] = coef[v]
        BY <1>1, <2>1, <3>2
      <4> QED BY <1>1, <2>1, <4>1, OthersCoefficients
    <3> QED BY <3>1, <3>2
  <2>3. NoCoef \in Int \X Int
    BY DEF NoCoef
  <2> QED BY <1>1, <2>1, <2>2, <2>3
<1> QED BY <1>2, <1>3, <1>4, <1>6, <1>7, <1>8, <1>9 DEF BmpNext

(* bmp180_init gives back what it acquired, or has the coefficients as the *)
(* sensor stores them, for any number of processes.                        *)
THEOREM InitIsSound == BmpSpec => []InitSound
<1>1. ASSUME BmpInit PROVE CoefInv
  <2>1. eeprom \in (0..255) \X (0..255) /\ coef \in [User -> Int \X Int]
    BY <1>1 DEF BmpInit, NoCoef
  <2>2. ASSUME NEW u \in User PROVE Coefficients(u)
    <3>1. upc[u] = "off"
      BY <1>1 DEF BmpInit
    <3> QED BY <3>1 DEF Coefficients
  <2> QED BY <1>1, <2>1, <2>2, BmpTypeInit DEF CoefInv
<1>2. CoefInv /\ [BmpNext]_Bmpvars => CoefInv'
  BY BmpTypeStep, CoefStep DEF CoefInv
<1>3. CoefInv => InitSound
  BY DEF CoefInv, Coefficients, InitSound
<1> QED BY <1>1, <1>2, <1>3, PTL DEF BmpSpec

----------------------------------------------------------------------------
(* Reading the GPS.  A value may be older than a second only by losses.    *)
(* The invariant gives every loss an account: it has aged a value already, *)
(* or the line in the buffer shows it (Dirt) and will not be recognised,   *)
(* so that it pays for the second that ends without the sentence.          *)
Kinds == {"GPGGA", "GPRMC"}
Part == [of : {"GPGGA", "GPGSV", "GPRMC"} \X {0, 1}, piece : {"head", "fields", "star"}]

GpsType ==
  /\ at \in (1..3) \X (1..4) /\ second \in {0, 1} /\ losses \in Nat
  /\ loc \in {"idle", "reading", "spinning", "done", "crashed"}
  /\ buffer \in Seq(Part) /\ status \subseteq Kinds /\ times \in Int /\ date \in Int
  /\ synced \in BOOLEAN /\ joined \in BOOLEAN

(* The sentence that comes, the buffer when nothing of it is missing, and  *)
(* the buffer with pieces of an earlier one.                               *)
Sentence == <<Order[at[1]], second>>
Intact   == Len(buffer) = at[2] - 1 /\ \A i \in 1..Len(buffer) : buffer[i] = [of |-> Sentence, piece |-> Piece[i]]
Foreign  == Len(buffer) > 0 /\ buffer[1].of # Sentence

(* Losses that the buffer gives away. *)
Dirt == IF Intact THEN 0 ELSE IF Foreign THEN at[2] - 1 ELSE 1

(* While no two lines are read as one: a value is set exactly when its     *)
(* type was seen, and its age is paid for by losses.                       *)
Paid ==
  /\ \A i \in 1..Len(buffer) : buffer[i].of = buffer[1].of
  /\ "GPGGA" \in status => times >= 0 /\ times + Dirt <= losses
  /\ "GPGGA" \notin status => times = Unset
  /\ "GPRMC" \in status => date >= 0 /\ date + (IF at[1] = 1 THEN Dirt ELSE 1) <= losses
  /\ "GPRMC" \notin status => date = Unset
  /\ Foreign => at[2] <= losses

ReadingInv ==
  loc = "reading" => /\ ~Completed(status)
                     /\ ~joined => Paid
                     /\ synced /\ losses = 0 => Intact

GpsInv == GpsType /\ ReadingInv /\ Located

(* The sentences of a second and the pieces of a sentence. *)
LEMMA Pieces ==
  /\ Len(Order) = 3 /\ Order[1] = "GPGGA" /\ Order[2] = "GPGSV" /\ Order[3] = "GPRMC"
  /\ Len(Piece) = 4 /\ Piece[1] = "head" /\ Piece[2] = "fields" /\ Piece[3] = "star"
  /\ Piece[4] = "end"
BY DEF Order, Piece

(* What Append gives. *)
LEMMA Appended ==
  ASSUME NEW S, NEW b \in Seq(S), NEW x \in S
  PROVE  /\ Append(b, x) \in Seq(S) /\ Len(Append(b, x)) = Len(b) + 1
         /\ \A i \in 1 .. Len(b) : Append(b, x)[i] = b[i]
         /\ Append(b, x)[Len(b) + 1] = x
OBVIOUS

(* Where the stream goes on. *)
LEMMA Advances ==
  ASSUME GpsType, Advance
  PROVE  /\ at' \in (1..3) \X (1..4) /\ second' \in {0, 1}
         /\ at[2] # 4 => at' = <<at[1], at[2] + 1>> /\ second' = second
         /\ at[2] = 4 => at' = <<IF at[1] = 3 THEN 1 ELSE at[1] + 1, 1>>
<1>1. at[1] \in 1..3 /\ at[2] \in 1..4 /\ second \in {0, 1}
  BY DEF GpsType
<1> QED BY <1>1, Pieces DEF Advance

(* The sentence that comes is one of Order. *)
LEMMA Sentences ==
  ASSUME GpsType
  PROVE  /\ Sentence \in {"GPGGA", "GPGSV", "GPRMC"} \X {0, 1}
         /\ Sentence[1] = Order[at[1]]
BY Pieces DEF GpsType, Sentence

(* A value gets older by at most one, and only at the end of a second. *)
LEMMA Ages ==
  ASSUME NEW t \in Int, at' \in (1..3) \X (1..4)
  PROVE  /\ Aged(t) \in Int /\ Aged(t) <= t + 1 /\ Aged(t) >= t
         /\ at'[2] # 1 \/ at'[1] # 1 => Aged(t) = t
         /\ t = Unset => Aged(t) = Unset
<1>1. Older(t) \in Int /\ Older(t) <= t + 1 /\ Older(t) >= t /\ (t = Unset => Older(t) = Unset)
  BY GpsAssumption DEF Older, Unset
<1>2. at'[2] # 1 \/ at'[1] # 1 => at' # <<1, 1>>
  OBVIOUS
<1> QED BY <1>1, <1>2 DEF Aged

(* A line that is not whole at its end shows a loss. *)
LEMMA DirtBound == GpsType => Dirt \in 0..3 /\ (~Intact /\ at[2] = 4 => Dirt >= 1)
BY DEF GpsType, Dirt

(* A whole line is recognised. *)
LEMMA IntactLine ==
  ASSUME GpsType, Intact, at[2] = 4
  PROVE  /\ ~NoStar(buffer) /\ ~PastEnd(buffer)
         /\ at[1] = 1 => MessageType(buffer) = "GPGGA"
         /\ at[1] = 3 => MessageType(buffer) = "GPRMC"
<1>1. Len(buffer) = 3 /\ \A i \in 1..3 : buffer[i] = [of |-> Sentence, piece |-> Piece[i]]
  BY DEF Intact
<1>2. \A i \in 1..3 : buffer[i].of = Sentence /\ buffer[i].piece = Piece[i]
  BY <1>1
<1>3. ValidChecksum(buffer) /\ ~NoStar(buffer) /\ ~PastEnd(buffer)
  BY <1>1, <1>2, Pieces DEF ValidChecksum, NoStar, PastEnd
<1>4. \A t \in Kinds : Mentions(buffer, t) <=> t = Order[at[1]]
  BY <1>1, <1>2, Pieces, Sentences DEF Mentions, Kinds
<1> QED BY <1>3, <1>4, Pieces DEF MessageType, Kinds

(* A line with a right checksum and no piece of another sentence gives the *)
(* value of its own sentence.                                              *)
LEMMA OwnFields ==
  ASSUME GpsType, \A i \in 1..Len(buffer) : buffer[i].of = buffer[1].of,
         NEW t \in Kinds, MessageType(buffer) = t
  PROVE  Parsed(buffer, t) = 0 /\ buffer[1].of[1] = t /\ Len(buffer) > 0
<1>1. ValidChecksum(buffer) /\ Mentions(buffer, t)
  BY DEF MessageType, Kinds
<1>2. Len(buffer) >= 3 /\ buffer[2].piece = "fields" /\ buffer[2].of = buffer[1].of
  BY <1>1, Pieces DEF ValidChecksum
<1>3. buffer[1].of[1] = t
  BY <1>1 DEF Mentions
<1>4. buffer[1] \in Part /\ buffer[2] \in Part
  BY <1>2 DEF GpsType
<1>5. buffer[2] = [buffer[1] EXCEPT !.piece = "fields"]
  BY <1>2, <1>4 DEF Part
<1> QED BY <1>2, <1>3, <1>5 DEF Parsed

(* A new call of gps_location starts from nothing. *)
LEMMA LocationStep == ASSUME GpsInv, NEW open \in BOOLEAN, GpsLocation(open) PROVE GpsInv'
<1>1. /\ loc' \in {"reading", "spinning"} /\ status' = {} /\ buffer' = <<>> /\ times' = Unset /\ date' = Unset
      /\ at' = at /\ second' = second /\ losses' = losses
  BY DEF GpsLocation
<1>2. ~synced' /\ ~joined' /\ synced' \in BOOLEAN /\ joined' \in BOOLEAN
  BY Zenon DEF GpsLocation
<1>3. GpsType'
  BY <1>1, <1>2 DEF GpsInv, GpsType, Unset
<1>4. Paid'
  BY <1>1 DEF Paid, Foreign
<1> QED BY <1>1, <1>2, <1>3, <1>4 DEF GpsInv, ReadingInv, Located, Completed

(* Pieces pass while nobody reads. *)
LEMMA PassStep == GpsInv /\ Pass => GpsInv'
<1> SUFFICES ASSUME GpsInv, Pass PROVE GpsInv'
  OBVIOUS
<1>1. /\ UNCHANGED <<loc, buffer, status, times, date, synced, losses, joined>>
      /\ Advance /\ loc # "reading"
  BY DEF Pass
<1>2. GpsType'
  BY <1>1, Advances DEF GpsInv, GpsType
<1>3. Located'
  BY <1>1 DEF GpsInv, Located
<1> QED BY <1>1, <1>2, <1>3 DEF GpsInv, ReadingInv

(* One more piece: the line stays whole, or is as damaged as before, or is *)
(* known to be joined.                                                     *)
LEMMA PieceStep == GpsInv /\ ReadPiece => GpsInv'
<1> SUFFICES ASSUME GpsInv, ReadPiece PROVE GpsInv'
  OBVIOUS
<1> DEFINE x == [of |-> Sentence, piece |-> Piece[at[2]]]
<1>1. /\ loc = "reading" /\ Advance /\ buffer' = Append(buffer, x)
      /\ UNCHANGED <<status, times, date, losses>>
      /\ loc' = IF Len(buffer') > MAX_BUF THEN "crashed" ELSE "reading"
  BY DEF ReadPiece, Sentence
<1>2. GpsType /\ ReadingInv /\ at[1] \in 1..3 /\ at[2] \in 1..4
  BY DEF GpsInv, GpsType
<1>3. at[2] # 4
  BY <1>2, Pieces DEF ReadPiece
<1>4. at' = <<at[1], at[2] + 1>> /\ second' = second /\ Sentence' = Sentence
  BY <1>1, <1>2, <1>3, Advances DEF Sentence
<1>5. x \in Part /\ x.of = Sentence
  BY <1>2, <1>3, Sentences, Pieces DEF Part
<1>6. /\ buffer' \in Seq(Part) /\ Len(buffer') = Len(buffer) + 1 /\ Len(buffer) \in Nat
      /\ \A i \in 1 .. Len(buffer) : buffer'[i] = buffer[i]
      /\ buffer'[Len(buffer) + 1] = x
  <2>1. buffer \in Seq(Part)
    BY <1>2 DEF GpsType
  <2> QED BY <2>1, <1>1, <1>5, Appended
<1>7. /\ joined' <=> (joined \/ buffer'[1].of # buffer'[Len(buffer')].of)
      /\ synced' <=> synced
      /\ joined' \in BOOLEAN /\ synced' \in BOOLEAN
  <2>1. joined \in BOOLEAN /\ synced \in BOOLEAN
    BY <1>2 DEF GpsType
  <2> QED BY <2>1, Zenon DEF ReadPiece
<1>8. buffer'[Len(buffer')].of = Sentence
  BY <1>5, <1>6
<1> HIDE DEF x
<1>9. GpsType'
  BY <1>1, <1>2, <1>4, <1>6, <1>7, <1>3 DEF GpsType
<1>10. Intact => Intact' /\ Len(buffer') <= 3
  <2> SUFFICES ASSUME Intact PROVE Intact' /\ Len(buffer') <= 3
    OBVIOUS
  <2>1. Len(buffer') = at'[2] - 1 /\ Len(buffer') = at[2]
    BY <1>4, <1>6, <1>2 DEF Intact
  <2>2. \A i \in 1..Len(buffer) : buffer'[i] = [of |-> Sentence, piece |-> Piece[i]]
    BY <1>6 DEF Intact
  <2>3. buffer'[Len(buffer')] = [of |-> Sentence, piece |-> Piece[Len(buffer')]]
    BY <2>1, <1>6 DEF x
  <2> QED BY <2>1, <2>2, <2>3, <1>2, <1>3, <1>4, <1>6, SMTT(30) DEF Intact
<1>11. ASSUME ~joined' PROVE Paid'
  <2>1. ~joined /\ buffer'[1].of = Sentence
    BY <1>11, <1>7, <1>8
  <2>2. Paid
    BY <2>1, <1>1, <1>2 DEF ReadingInv
  <2>3. ~Foreign /\ ~Foreign'
    BY <2>1, <1>4, <1>6 DEF Foreign
  <2>4. Dirt' \in Nat /\ Dirt \in Nat /\ Dirt' <= Dirt
    BY <2>3, <1>10 DEF Dirt
  <2>5. \A i \in 1..Len(buffer') : buffer'[i].of = buffer'[1].of
    BY <2>1, <2>2, <1>6, <1>8 DEF Paid
  <2>6. /\ times \in Int /\ date \in Int /\ losses \in Nat /\ at'[1] = at[1]
        /\ status' = status /\ times' = times /\ date' = date /\ losses' = losses
    BY <1>1, <1>2, <1>4 DEF GpsType
  <2>7. "GPGGA" \in status' => times' >= 0 /\ times' + Dirt' <= losses'
    <3>1. "GPGGA" \in status => times >= 0 /\ times + Dirt <= losses
      BY <2>2 DEF Paid
    <3> QED BY <3>1, <2>4, <2>6 DEF Dirt
  <2>8. "GPRMC" \in status' =>
          date' >= 0 /\ date' + (IF at'[1] = 1 THEN Dirt' ELSE 1) <= losses'
    <3>1. "GPRMC" \in status => date >= 0 /\ date + (IF at[1] = 1 THEN Dirt ELSE 1) <= losses
      BY <2>2 DEF Paid
    <3> QED BY <3>1, <2>4, <2>6 DEF Dirt
  <2>9. /\ "GPGGA" \notin status' => times' = Unset
        /\ "GPRMC" \notin status' => date' = Unset
    BY <2>2, <2>6 DEF Paid
  <2> QED BY <2>3, <2>5, <2>7, <2>8, <2>9 DEF Paid
<1>12. ReadingInv'
  <2>1. synced' /\ losses' = 0 => Intact'
    BY <1>1, <1>2, <1>7, <1>10 DEF ReadingInv
  <2>2. ~Completed(status')
    BY <1>1, <1>2 DEF ReadingInv
  <2> QED BY <2>1, <2>2, <1>11 DEF ReadingInv
<1>13. Located'
  <2>1. loc' # "done"
    BY <1>1
  <2>2. ASSUME loc' = "crashed" PROVE losses' > 0 \/ ~synced'
    <3>1. ~Intact
      BY <2>2, <1>1, <1>6, <1>10, GpsAssumption
    <3>2. ~(synced /\ losses = 0)
      BY <3>1, <1>1, <1>2 DEF ReadingInv
    <3>3. losses = 0 => ~synced'
      BY <3>2, <1>7
    <3> QED BY <3>3, <1>1, <1>2 DEF GpsType
  <2> QED BY <2>1, <2>2 DEF Located
<1> QED BY <1>9, <1>12, <1>13 DEF GpsInv

(* A lost piece is paid for at once: it damages the line by one, or ends   *)
(* the second.                                                             *)
LEMMA LoseStep == GpsInv /\ Lose => GpsInv'
<1> SUFFICES ASSUME GpsInv, Lose PROVE GpsInv'
  OBVIOUS
<1>1. /\ loc = "reading" /\ loc' = loc /\ Advance /\ losses' = losses + 1
      /\ UNCHANGED <<buffer, status, synced, joined>>
      /\ times' = Aged(times) /\ date' = Aged(date)
  BY DEF Lose
<1>2. GpsType /\ ReadingInv /\ at[1] \in 1..3 /\ at[2] \in 1..4 /\ losses \in Nat
  BY DEF GpsInv, GpsType
<1>3. /\ at' \in (1..3) \X (1..4) /\ second' \in {0, 1}
      /\ at[2] # 4 => at'[1] = at[1] /\ at'[2] = at[2] + 1 /\ Sentence' = Sentence
      /\ at[2] = 4 => at'[1] = (IF at[1] = 3 THEN 1 ELSE at[1] + 1) /\ at'[2] = 1
  BY <1>1, <1>2, Advances DEF Sentence
<1>4. /\ times \in Int /\ times' \in Int /\ times' <= times + 1 /\ times' >= times
      /\ date \in Int /\ date' \in Int /\ date' <= date + 1 /\ date' >= date
      /\ at'[2] # 1 \/ at'[1] # 1 => times' = times /\ date' = date
      /\ times = Unset => times' = Unset
      /\ date = Unset => date' = Unset
  BY <1>1, <1>2, <1>3, Ages DEF GpsType
<1>5. GpsType'
  BY <1>1, <1>2, <1>3, <1>4 DEF GpsType
<1>6. ASSUME ~joined' PROVE Paid'
  <2>1. Paid
    BY <1>1, <1>2, <1>6 DEF ReadingInv
  <2>2. at[2] = 4 => Sentence' # Sentence
    <3>1. Sentence[1] = Order[at[1]] /\ Sentence'[1] = Order[at'[1]]
      BY <1>2, <1>5, Sentences DEF Sentence
    <3> QED BY <3>1, <1>2, <1>3, Pieces
  <2>3. Foreign' => at'[2] <= losses'
    BY <2>1, <1>1, <1>2, <1>3 DEF Paid, Foreign
  <2>4. at[2] # 4 => (Foreign' <=> Foreign)
    BY <1>1, <1>3 DEF Foreign
  <2>5. Intact => ~Foreign
    <3>1. Len(buffer) > 0 => 1 \in 1..Len(buffer)
      BY <1>2 DEF GpsType
    <3>2. Intact /\ Len(buffer) > 0 => buffer[1] = [of |-> Sentence, piece |-> Piece[1]]
      BY <3>1 DEF Intact
    <3> QED BY <3>2 DEF Foreign
  <2>6. at[2] = 4 => Intact' \/ Foreign' \/ (Foreign /\ ~Intact)
    <3> SUFFICES ASSUME at[2] = 4 PROVE Intact' \/ Foreign' \/ (Foreign /\ ~Intact)
      OBVIOUS
    <3>1. Len(buffer) \in Nat /\ buffer' = buffer
      BY <1>1, <1>2 DEF GpsType
    <3>2. CASE Len(buffer) = 0
      BY <3>1, <3>2, <1>3 DEF Intact
    <3>3. CASE Len(buffer) > 0 /\ buffer[1].of = Sentence
      BY <3>1, <3>3, <2>2 DEF Foreign
    <3>4. CASE Len(buffer) > 0 /\ buffer[1].of # Sentence
      BY <3>4, <2>5 DEF Foreign
    <3> QED BY <3>1, <3>2, <3>3, <3>4
  <2> DEFINE d == Dirt
  <2> DEFINE e == Dirt'
  <2>7. /\ d \in 0..3 /\ e \in 0..3
        /\ at[2] # 4 => e <= d + 1
        /\ at[2] = 4 => e = 0 \/ (e = 1 /\ d = 3)
    BY <2>4, <2>5, <2>6, <1>2, <1>3 DEF Dirt
  <2>8. /\ "GPGGA" \in status => times >= 0 /\ times + d <= losses
        /\ "GPRMC" \in status => date >= 0 /\ date + (IF at[1] = 1 THEN d ELSE 1) <= losses
    BY <2>1 DEF Paid
  <2>9. /\ "GPGGA" \notin status' => times' = Unset
        /\ "GPRMC" \notin status' => date' = Unset
        /\ \A i \in 1..Len(buffer') : buffer'[i].of = buffer'[1].of
    BY <2>1, <1>1, <1>4 DEF Paid
  <2> HIDE DEF d, e
  <2>10. "GPGGA" \in status' => times' >= 0 /\ times' + e <= losses'
    BY <2>7, <2>8, <1>1, <1>2, <1>3, <1>4
  <2>11. "GPRMC" \in status' => date' >= 0 /\ date' + (IF at'[1] = 1 THEN e ELSE 1) <= losses'
    BY <2>7, <2>8, <1>1, <1>2, <1>3, <1>4
  <2> QED BY <2>3, <2>9, <2>10, <2>11 DEF Paid, e, Dirt
<1>7. ReadingInv'
  <2>1. losses' # 0 /\ ~Completed(status')
    BY <1>1, <1>2 DEF ReadingInv
  <2> QED BY <2>1, <1>6 DEF ReadingInv
<1>8. Located'
  BY <1>1 DEF Located
<1> QED BY <1>5, <1>7, <1>8 DEF GpsInv

(* The end of a line: its damage pays for the end of a second in which a   *)
(* sentence was not recognised.                                            *)
LEMMA LineStep == GpsInv /\ ReadLine => GpsInv'
<1> SUFFICES ASSUME GpsInv, ReadLine PROVE GpsInv'
  OBVIOUS
<1> DEFINE type == MessageType(buffer)
<1>1. /\ loc = "reading" /\ Advance /\ buffer' = <<>>
      /\ losses' = losses /\ joined' = joined
      /\ \/ /\ NoStar(buffer) \/ PastEnd(buffer)
            /\ loc' = "crashed" /\ UNCHANGED <<status, times, date>>
         \/ /\ ~NoStar(buffer) /\ loc' # "crashed"
            /\ times' = IF type = "GPGGA" THEN Parsed(buffer, type) ELSE Aged(times)
            /\ date' = IF type = "GPRMC" THEN Parsed(buffer, type) ELSE Aged(date)
            /\ status' = Seen(status, type)
            /\ loc' = IF Completed(status') THEN "done" ELSE "reading"
  BY DEF ReadLine
<1>2. /\ GpsType /\ ReadingInv /\ at[1] \in 1..3 /\ at[2] \in 1..4 /\ losses \in Nat
      /\ times \in Int /\ date \in Int /\ status \subseteq Kinds
  BY DEF GpsInv, GpsType
<1>3. at[2] = 4
  BY <1>2, Pieces DEF ReadLine
<1>4. /\ at' \in (1..3) \X (1..4) /\ second' \in {0, 1} /\ at'[2] = 1
      /\ at'[1] = (IF at[1] = 3 THEN 1 ELSE at[1] + 1)
  BY <1>1, <1>2, <1>3, Advances
<1>5. /\ loc' = "crashed" => (synced' <=> synced)
      /\ synced' \in BOOLEAN /\ joined' \in BOOLEAN
  <2>1. joined \in BOOLEAN /\ synced \in BOOLEAN
    BY <1>2 DEF GpsType
  <2>2. joined' = joined /\ (synced' = TRUE \/ synced' = synced)
    BY Zenon DEF ReadLine
  <2>3. synced' = synced \/ loc' = IF Completed(status') THEN "done" ELSE "reading"
    BY Zenon DEF ReadLine
  <2>4. loc' = "crashed" => synced' = synced
    BY <2>3
  <2>5. synced' \in BOOLEAN /\ joined' \in BOOLEAN
    BY <2>1, <2>2, Zenon
  <2> QED BY <2>4, <2>5
<1>6. \A t \in {times, date} :
        /\ Aged(t) \in Int /\ Aged(t) <= t + 1 /\ Aged(t) >= t
        /\ at[1] # 3 => Aged(t) = t
        /\ t = Unset => Aged(t) = Unset
  BY <1>2, <1>4, Ages
<1>7. \A t \in Kinds : Parsed(buffer, t) \in Int
  BY DEF Parsed, Junk
<1>8. type \in Kinds \cup {"error", "unknown"} /\ Seen(status, type) = status \cup ({type} \cap Kinds)
  BY DEF MessageType, Kinds, Seen
<1> HIDE DEF type
<1>9. GpsType'
  <2>1. times' \in Int /\ date' \in Int
    BY <1>1, <1>2, <1>6, <1>7 DEF Kinds
  <2>2. status' \subseteq Kinds /\ loc' \in {"idle", "reading", "spinning", "done", "crashed"}
    BY <1>1, <1>2, <1>8
  <2> QED BY <2>1, <2>2, <1>1, <1>2, <1>4, <1>5 DEF GpsType
<1>10. Intact' /\ ~Foreign'
  BY <1>1, <1>4 DEF Intact, Foreign
<1>11. CASE loc' = "crashed"
  <2>1. ~Intact
    BY <1>1, <1>2, <1>3, <1>11, IntactLine
  <2>2. losses = 0 => ~synced
    BY <2>1, <1>1, <1>2 DEF ReadingInv
  <2>3. losses' > 0 \/ ~synced'
    BY <2>2, <1>1, <1>2, <1>5, <1>11
  <2> QED BY <1>11, <2>3, <1>9 DEF GpsInv, ReadingInv, Located
<1>12. CASE loc' # "crashed"
  <2>1. /\ times' = IF type = "GPGGA" THEN Parsed(buffer, type) ELSE Aged(times)
        /\ date' = IF type = "GPRMC" THEN Parsed(buffer, type) ELSE Aged(date)
        /\ status' = status \cup ({type} \cap Kinds)
        /\ loc' = IF Completed(status') THEN "done" ELSE "reading"
    BY <1>1, <1>8, <1>12
  <2>2. ASSUME ~joined
        PROVE  /\ loc' = "done" => times' \in 0 .. losses' + 1 /\ date' \in 0 .. losses' + 1
               /\ loc' = "reading" => Paid'
    <3> DEFINE d == Dirt
    <3>1. Paid
      BY <2>2, <1>1, <1>2 DEF ReadingInv
    <3>2. /\ "GPGGA" \in status => times >= 0 /\ times + d <= losses
          /\ "GPRMC" \in status => date >= 0 /\ date + (IF at[1] = 1 THEN d ELSE 1) <= losses
          /\ "GPGGA" \notin status => times = Unset
          /\ "GPRMC" \notin status => date = Unset
          /\ Foreign => 4 <= losses
      BY <3>1, <1>3 DEF Paid
    <3>3. d \in 0..3 /\ (~Intact => d >= 1)
      BY <1>2, <1>3, DirtBound
    <3>4. type \in Kinds => Parsed(buffer, type) = 0 /\ (type # Order[at[1]] => Foreign)
      <4> SUFFICES ASSUME type \in Kinds
                   PROVE  Parsed(buffer, type) = 0 /\ (type # Order[at[1]] => Foreign)
        OBVIOUS
      <4>1. Parsed(buffer, type) = 0 /\ buffer[1].of[1] = type /\ Len(buffer) > 0
        BY <3>1, <1>2, OwnFields DEF Paid, type
      <4> QED BY <4>1, <1>2, Sentences DEF Foreign
    <3>5. Intact => (at[1] = 1 => type = "GPGGA") /\ (at[1] = 3 => type = "GPRMC")
      BY <1>2, <1>3, IntactLine DEF type
    <3>6. \A i \in 1..Len(buffer') : buffer'[i].of = buffer'[1].of
      BY <1>1
    <3> HIDE DEF d
    <3>7. ~Completed(status)
      BY <1>1, <1>2 DEF ReadingInv
    <3>8. CASE type = "GPGGA"
      <4>1. times' = 0 /\ date' = Aged(date) /\ status' = status \cup {"GPGGA"}
        BY <2>1, <3>4, <3>8 DEF Kinds
      <4>2. loc' = "done" => date >= 0 /\ date <= losses
        BY <2>1, <4>1, <3>2, <3>3, <1>2 DEF Completed
      <4>3. loc' = "reading" => "GPRMC" \notin status'
        BY <2>1, <4>1, <1>2 DEF Completed, Kinds
      <4>4. loc' = "reading" => date' = Unset
        BY <4>1, <4>3, <3>2, <1>6
      <4>5. loc' = "reading" => Paid'
        BY <4>1, <4>3, <4>4, <3>6, <1>1, <1>2, <1>10 DEF Paid, Dirt
      <4> QED BY <4>1, <4>2, <4>5, <1>1, <1>2, <1>6
    <3>9. CASE type = "GPRMC"
      <4>1. date' = 0 /\ times' = Aged(times) /\ status' = status \cup {"GPRMC"}
        BY <2>1, <3>4, <3>9 DEF Kinds
      <4>2. loc' = "done" => times >= 0 /\ times <= losses
        BY <2>1, <4>1, <3>2, <3>3, <1>2 DEF Completed
      <4>3. loc' = "reading" => "GPGGA" \notin status'
        BY <2>1, <4>1, <1>2 DEF Completed, Kinds
      <4>4. loc' = "reading" => times' = Unset
        BY <4>1, <4>3, <3>2, <1>6
      <4>5. at[1] # 3 => 4 <= losses
        BY <3>2, <3>4, <3>9, <1>2, Pieces DEF Kinds
      <4>6. loc' = "reading" => Paid'
        BY <4>1, <4>3, <4>4, <4>5, <3>6, <1>1, <1>2, <1>4, <1>10 DEF Paid, Dirt
      <4> QED BY <4>1, <4>2, <4>6, <1>1, <1>2, <1>6
    <3>10. CASE type \notin Kinds
      <4>1. /\ times' = Aged(times) /\ date' = Aged(date) /\ status' = status /\ loc' = "reading"
        BY <2>1, <3>7, <3>10 DEF Kinds
      <4>2. at[1] # 2 => ~Intact
        BY <3>5, <3>10, <1>2 DEF Kinds
      <4>3. "GPGGA" \in status' => times' >= 0 /\ times' <= losses'
        BY <4>1, <4>2, <3>2, <3>3, <1>1, <1>2, <1>6
      <4>4. "GPRMC" \in status' =>
              date' >= 0 /\ date' + (IF at'[1] = 1 THEN 0 ELSE 1) <= losses'
        BY <4>1, <4>2, <3>2, <3>3, <1>1, <1>2, <1>4, <1>6
      <4>5. ("GPGGA" \notin status' => times' = Unset) /\ ("GPRMC" \notin status' => date' = Unset)
        BY <4>1, <3>2, <1>6
      <4>6. times' \in Int /\ losses' \in Nat
        BY <1>9 DEF GpsType
      <4> QED BY <4>1, <4>3, <4>4, <4>5, <4>6, <3>6, <1>10 DEF Paid, Dirt
    <3> QED BY <3>8, <3>9, <3>10 DEF Kinds
  <2>3. loc' \in {"done", "reading"} /\ (loc' = "reading" => ~Completed(status'))
    BY <2>1
  <2>4. ReadingInv'
    BY <2>2, <2>3, <1>1, <1>10 DEF ReadingInv
  <2>5. Located'
    BY <2>2, <2>3, <1>1 DEF Located
  <2> QED BY <2>4, <2>5, <1>9 DEF GpsInv
<1> QED BY <1>11, <1>12

(* The invariant holds before the first call. *)
LEMMA GpsInvInit == GpsInit => GpsInv
<1> SUFFICES ASSUME GpsInit PROVE GpsInv
  OBVIOUS
<1>1. GpsType
  <2>1. at \in (1..3) \X (1..4)
    BY Pieces DEF GpsInit
  <2>2. synced \in BOOLEAN /\ joined \in BOOLEAN
    BY Zenon DEF GpsInit
  <2> QED BY <2>1, <2>2 DEF GpsInit, GpsType, Unset
<1>2. loc = "idle"
  BY DEF GpsInit
<1> QED BY <1>1, <1>2 DEF GpsInv, ReadingInv, Located

(* Every step keeps it. *)
LEMMA GpsInvStep == GpsInv /\ [GpsNext]_Gpsvars => GpsInv'
<1>1. ASSUME GpsInv, UNCHANGED Gpsvars PROVE GpsInv'
  <2>1. GpsType' /\ Located'
    BY <1>1 DEF Gpsvars, GpsInv, GpsType, Located
  <2>2. (Intact' <=> Intact) /\ (Foreign' <=> Foreign)
    BY <1>1 DEF Gpsvars, Intact, Foreign, Sentence
  <2>3. Paid => Paid'
    BY <1>1, <2>2 DEF Gpsvars, Paid, Dirt
  <2>4. ReadingInv'
    BY <1>1, <2>2, <2>3 DEF Gpsvars, GpsInv, ReadingInv
  <2> QED BY <2>1, <2>4 DEF GpsInv
<1> QED BY <1>1, LocationStep, PassStep, PieceStep, LoseStep, LineStep DEF GpsNext

(* What gps_location returns was taken in this call from sentences whose   *)
(* checksum was right, and is not older than the pieces lost explain; it   *)
(* crashes only on a piece of a line.                                      *)
THEOREM LocationSound == GpsSpec => []Located
<1>1. GpsInv => Located
  BY DEF GpsInv
<1> QED BY <1>1, GpsInvInit, GpsInvStep, PTL DEF GpsSpec
----------------------------------------------------------------------------
(* The parser of rp_tinygps.  Terms of a sentence as the receiver sends it. *)
Worded(fs, k) ==
  /\ DOMAIN fs = 1..6
  /\ \E type \in DOMAIN Layout :
       fs[1] = Sign(type) /\ \A i \in 1..5 : fs[i + 1] \in Texts(Layout[type][i], k)

TinyType ==
  /\ slot \in 1..END /\ drops \in 0..1 /\ nSent \in Nat
  /\ (nSent = 0 => slot = END) /\ (nSent > 0 => Worded(fields, nSent)) /\ (slot \in 2..12 => Token(slot) # Empty)
  /\ isChecksum \in BOOLEAN /\ isGood \in BOOLEAN /\ valid \in BOOLEAN
  /\ termNumber \in 0..255 /\ DOMAIN new = Field /\ DOMAIN fix = Field

(* The parity holds a term that only one of the first k sentences has. *)
Marked(k) == \E j \in 1..k, f \in {"time", "date", "alt"} : <<f, j>> \in parity

Fresh == term = <<>> /\ parity = {} /\ ~isChecksum /\ termNumber = 0

(* Parity of what comes between '$' and slot p. *)
Body(p) == ({fields[i] : i \in {m \in 1..6 : 2*m < p}} \ {Empty})
             \cup (IF (p \div 2) % 2 = 0 THEN {Comma} ELSE {})

(* The first k terms behind the type have been stored. *)
Values(fs, k) ==
  \A i \in 1..k :
    LET f == Layout[sentenceType][i]
        t == fs[i + 1]
    IN /\ f = "valid" => (isGood <=> t = Sign("A"))
       /\ f = "fix" => (isGood <=> t = Sign("1"))
       /\ f \in Field /\ t # Empty =>
            new[f] = <<t, IF f = "lat" /\ i < k /\ fs[i + 2] = Sign("S") THEN -1 ELSE 1>>

TypeKnown(fs) == sentenceType \in DOMAIN Layout /\ fs[1] = Sign(sentenceType)
Complete(fs) == TypeKnown(fs) /\ Values(fs, 5)

(* Between '$' and '*': no token is missing; one is; or the '$' was lost   *)
(* and the parity still has a term of an earlier sentence.                 *)
Aligned ==
  /\ ~isChecksum /\ parity = Body(slot) /\ termNumber = slot \div 2 - 1
  /\ term = IF slot % 2 = 0 \/ fields[slot \div 2] = Empty THEN <<>> ELSE <<fields[slot \div 2]>>
  /\ slot >= 4 => TypeKnown(fields) /\ Values(fields, slot \div 2 - 2)

Off == drops = 1 /\ ~isChecksum /\ \E x \in SumOf(fields) : parity = Toggle(Body(slot), x)

Alien == drops = 1 /\ Marked(nSent - 1) /\ (isChecksum => slot <= 3)

TinyInv ==
  /\ TinyType
  /\ nSent = 0 => Fresh
  /\ slot = 1 => drops = 0 /\ ((nSent = 1 /\ Fresh) \/ Marked(nSent - 1))
  /\ slot \in 2..13 => Aligned \/ Off \/ Alien
  /\ slot >= 14 /\ nSent > 0 => Marked(nSent)
  /\ slot = 14 => /\ isChecksum => term = <<>> /\ (parity = SumOf(fields) => Complete(fields))
                  /\ drops = 0 => isChecksum /\ parity = SumOf(fields)
  /\ slot = 15 => /\ isChecksum /\ term # <<>> => checked = fields /\ (parity = SumOf(fields) => Complete(fields))
                  /\ drops = 0 => parity = SumOf(fields)
  /\ slot \notin {14, 15} /\ isChecksum => Comma \in parity
  /\ FixAsSent

(* Where a token is in the exclusive or. *)
LEMMA Toggled ==
  ASSUME NEW s, NEW x, NEW y
  PROVE  y \in Toggle(s, x) <=> IF y = x THEN y \notin s ELSE y \in s
BY DEF Toggle

(* The exclusive or forgets the order, and a token seen twice. *)
LEMMA ToggleSwap ==
  ASSUME NEW s, NEW x, NEW y
  PROVE  /\ Toggle(Toggle(s, x), y) = Toggle(Toggle(s, y), x)
         /\ Toggle(Toggle(s, x), x) = s
BY DEF Toggle

(* The texts of each term. *)
LEMMA TextsOf ==
  ASSUME NEW k
  PROVE  /\ Texts("valid", k) = {<<"A", 0>>, <<"V", 0>>} /\ Texts("fix", k) = {<<"1", 0>>, <<"0", 0>>}
         /\ Texts("ns", k) = {<<"N", 0>>, <<"S", 0>>} /\ Texts("lat", k) = {<<"", 0>>, <<"lat", k>>}
         /\ Texts("time", k) = {<<"time", k>>} /\ Texts("date", k) = {<<"date", k>>}
         /\ Texts("alt", k) = {<<"alt", k>>}
BY DEF Texts, Sign, Empty

(* What the two sentences look like. *)
LEMMA WordsOf ==
  ASSUME NEW k \in Nat, NEW fs, Worded(fs, k)
  PROVE  \/ /\ fs[1] = <<"GPRMC", 0>> /\ fs[2] = <<"time", k>> /\ fs[3] \in {<<"A", 0>>, <<"V", 0>>}
            /\ fs[4] \in {<<"", 0>>, <<"lat", k>>} /\ fs[5] \in {<<"N", 0>>, <<"S", 0>>} /\ fs[6] = <<"date", k>>
         \/ /\ fs[1] = <<"GPGGA", 0>> /\ fs[2] = <<"time", k>> /\ fs[3] \in {<<"", 0>>, <<"lat", k>>}
            /\ fs[4] \in {<<"N", 0>>, <<"S", 0>>} /\ fs[5] \in {<<"1", 0>>, <<"0", 0>>} /\ fs[6] = <<"alt", k>>
<1>1. PICK type \in DOMAIN Layout : fs[1] = Sign(type) /\ \A i \in 1..5 : fs[i + 1] \in Texts(Layout[type][i], k)
  BY DEF Worded
<1>2. fs[2] \in Texts(Layout[type][1], k) /\ fs[3] \in Texts(Layout[type][2], k) /\ fs[4] \in Texts(Layout[type][3], k)
  <2>1. fs[1 + 1] \in Texts(Layout[type][1], k) /\ fs[2 + 1] \in Texts(Layout[type][2], k) /\ fs[3 + 1] \in Texts(Layout[type][3], k)
    BY <1>1
  <2> QED BY <2>1
<1>3. fs[5] \in Texts(Layout[type][4], k) /\ fs[6] \in Texts(Layout[type][5], k)
  <2>1. fs[4 + 1] \in Texts(Layout[type][4], k) /\ fs[5 + 1] \in Texts(Layout[type][5], k)
    BY <1>1
  <2> QED BY <2>1
<1>4. type \in {"GPRMC", "GPGGA"}
  BY DEF Layout
<1>5. CASE type = "GPRMC"
  <2>1. /\ Layout[type][1] = "time" /\ Layout[type][2] = "valid" /\ Layout[type][3] = "lat"
        /\ Layout[type][4] = "ns" /\ Layout[type][5] = "date"
    BY <1>5 DEF Layout
  <2> QED BY <1>1, <1>2, <1>3, <1>5, <2>1, TextsOf DEF Sign
<1>6. CASE type = "GPGGA"
  <2>1. /\ Layout[type][1] = "time" /\ Layout[type][2] = "lat" /\ Layout[type][3] = "ns"
        /\ Layout[type][4] = "fix" /\ Layout[type][5] = "alt"
    BY <1>6 DEF Layout
  <2> QED BY <1>1, <1>2, <1>3, <1>6, <2>1, TextsOf DEF Sign
<1> QED BY <1>4, <1>5, <1>6

(* The tokens of a sentence differ, and no separator is a term; which      *)
(* terms can be missing, and which tell the sentence.                      *)
LEMMA Words ==
  ASSUME NEW k \in Nat, NEW fs, Worded(fs, k)
  PROVE  /\ \A i, m \in 1..6 : i # m => fs[i] # fs[m]
         /\ \A i \in 1..6 : /\ fs[i] \notin Separators \cup {Sign("$"), Sign("sum")}
                            /\ fs[i] = Empty => i \in {3, 4}
         /\ fs[2] = <<"time", k>> /\ fs[6] \in {<<"date", k>>, <<"alt", k>>}
         /\ \A i \in 1..6, j \in Nat, f \in {"time", "date", "alt"} : fs[i] = <<f, j>> => j = k
<1>0. \A a, b : <<a, b>>[1] = a
  OBVIOUS
<1>1. fs[1][1] \in {"GPRMC", "GPGGA"} /\ fs[2][1] = "time" /\ fs[6][1] \in {"date", "alt"}
  <2>1. fs[1] \in {<<"GPRMC", 0>>, <<"GPGGA", 0>>} /\ fs[2] = <<"time", k>> /\ fs[6] \in {<<"date", k>>, <<"alt", k>>}
    BY WordsOf, Zenon
  <2> QED BY <1>0, <2>1, Zenon
<1>2. \/ fs[3][1] \in {"A", "V"} /\ fs[4][1] \in {"", "lat"} /\ fs[5][1] \in {"N", "S"}
      \/ fs[3][1] \in {"", "lat"} /\ fs[4][1] \in {"N", "S"} /\ fs[5][1] \in {"1", "0"}
  <2>1. ASSUME NEW x, NEW a, NEW b, NEW c, NEW d, x \in {<<a, c>>, <<b, d>>} PROVE x[1] \in {a, b}
    BY <2>1, <1>0, Zenon
  <2> DEFINE Of(x, a, b) == x[1] \in {a, b}
  <2>2. \A x : x \in {<<"A", 0>>, <<"V", 0>>} => Of(x, "A", "V")
    BY <2>1, Zenon
  <2>3. \A x : x \in {<<"N", 0>>, <<"S", 0>>} => Of(x, "N", "S")
    BY <2>1, Zenon
  <2>4. \A x : x \in {<<"1", 0>>, <<"0", 0>>} => Of(x, "1", "0")
    BY <2>1, Zenon
  <2>5. \A x : x \in {<<"", 0>>, <<"lat", k>>} => Of(x, "", "lat")
    BY <2>1, Zenon
  <2> HIDE DEF Of
  <2>6. \/ Of(fs[3], "A", "V") /\ Of(fs[4], "", "lat") /\ Of(fs[5], "N", "S")
        \/ Of(fs[3], "", "lat") /\ Of(fs[4], "N", "S") /\ Of(fs[5], "1", "0")
    BY <2>2, <2>3, <2>4, <2>5, WordsOf, Zenon
  <2> QED BY <2>6, Zenon DEF Of
<1>3. \A i \in 1..6 : i \in {1, 2, 3, 4, 5, 6}
  OBVIOUS
<1>4. \A i, m \in 1..6 : i # m => fs[i][1] # fs[m][1]
  BY <1>1, <1>2, <1>3
<1>5. \A i \in 1..6 : fs[i][1] \notin {",", "*", "end", "$", "sum"} /\ (fs[i][1] = "" => i \in {3, 4})
  BY <1>1, <1>2, <1>3
<1>6. /\ fs[2] = <<"time", k>> /\ fs[6] \in {<<"date", k>>, <<"alt", k>>}
      /\ \A i \in {1, 3, 4, 5} : fs[i][1] \notin {"time", "date", "alt"}
  <2>1. fs[2] = <<"time", k>> /\ fs[6] \in {<<"date", k>>, <<"alt", k>>}
    BY WordsOf, Zenon
  <2> QED BY <1>1, <1>2, <2>1
<1>7. \A i \in 1..6, j \in Nat, f \in {"time", "date", "alt"} : fs[i] = <<f, j>> => j = k
  BY <1>3, <1>6
<1>8. \A i \in 1..6 : fs[i] \notin Separators \cup {Sign("$"), Sign("sum")} /\ (fs[i] = Empty => i \in {3, 4})
  <2>1. ASSUME NEW i \in 1..6, NEW c, fs[i] = <<c, 0>>
        PROVE  c \notin {",", "*", "end", "$", "sum"} /\ (c = "" => i \in {3, 4})
    <3>1. fs[i][1] = c
      BY <2>1, <1>0, Zenon
    <3> QED BY <3>1, <1>5, Zenon
  <2>2. \A i \in 1..6 : /\ fs[i] # <<",", 0>> /\ fs[i] # <<"*", 0>> /\ fs[i] # <<"end", 0>> /\ fs[i] # <<"$", 0>>
                       /\ fs[i] # <<"sum", 0>> /\ (fs[i] = <<"", 0>> => i \in {3, 4})
    BY <2>1, Zenon
  <2> QED BY <2>2, Zenon DEF Sign, Empty, Comma, Separators
<1> QED BY <1>4, <1>6, <1>7, <1>8

(* The tokens in the parity of an undisturbed sentence. *)
LEMMA InBody ==
  ASSUME NEW p, NEW x
  PROVE  x \in Body(p) <=> \/ x = Comma /\ (p \div 2) % 2 = 0
                           \/ x # Empty /\ \E i \in 1..6 : 2*i < p /\ x = fields[i]
BY DEF Body

(* The next token is what the parity lacks; an absent term is skipped. *)
LEMMA BodyNext ==
  ASSUME NEW k \in Nat, Worded(fields, k), NEW p \in 2..12, Token(p) # Empty
  PROVE  /\ After(p) \in p + 1 .. 13
         /\ Body(After(p)) = Toggle(Body(p), Token(p))
<1>1. Comma # Empty
  BY DEF Comma, Empty, Sign
<1>2. CASE p % 2 = 0
  <2>1. PICK m \in 1..6 : p = 2*m
    BY <1>2
  <2>2. Token(p) = fields[m] /\ fields[m] # Comma
    BY <2>1, Words DEF Token, Separators
  <2>3. After(p) = p + 1
    BY <2>1, <1>1 DEF After, Token
  <2>4. ASSUME NEW x PROVE x \in Body(p + 1) <=> x \in Toggle(Body(p), fields[m])
    <3>1. (p + 1) \div 2 = m /\ p \div 2 = m
      BY <2>1
    <3>2. x = fields[m] => x \notin Body(p) /\ x \in Body(p + 1)
      BY <2>1, <2>2, InBody, Words
    <3>3. x # fields[m] => (x \in Body(p) <=> x \in Body(p + 1))
      BY <2>1, <3>1, InBody
    <3> QED BY <3>2, <3>3, Toggled
  <2> QED BY <2>2, <2>3, <2>4
<1>3. CASE p % 2 = 1
  <2>1. PICK m \in 1..5 : p = 2*m + 1
    BY <1>3
  <2>2. Token(p) = Comma
    BY <2>1 DEF Token
  <2>3. \/ After(p) = p + 1
        \/ After(p) = p + 2 /\ fields[m + 1] = Empty /\ m < 5
    BY <2>1, Words DEF After, Token
  <2>4. ASSUME NEW x PROVE x \in Body(After(p)) <=> x \in Toggle(Body(p), Comma)
    <3>1. After(p) \div 2 = m + 1 /\ p \div 2 = m /\ (m % 2 = 0 <=> (m + 1) % 2 # 0)
      BY <2>1, <2>3
    <3>2. x # Comma => (x \in Body(p) <=> x \in Body(After(p)))
      BY <2>1, <2>3, InBody
    <3>3. \A i \in 1..6 : fields[i] # Comma
      BY Words DEF Separators
    <3>4. x = Comma => (x \in Body(p) <=> m % 2 = 0) /\ (x \in Body(After(p)) <=> (m + 1) % 2 = 0)
      BY <3>1, <3>3, InBody
    <3> QED BY <3>1, <3>2, <3>4, Toggled
  <2> QED BY <2>1, <2>2, <2>3, <2>4
<1> QED BY <1>2, <1>3

(* The whole sentence has the parity that is sent with it. *)
LEMMA BodyWhole == Body(13) = SumOf(fields)
<1>1. {m \in 1..6 : 2*m < 13} = 1..6 /\ (13 \div 2) % 2 = 0
  OBVIOUS
<1> QED BY <1>1 DEF Body, SumOf

(* Every place of a sentence and the token there. *)
LEMMA Slots ==
  ASSUME NEW k \in Nat, Worded(fields, k), NEW p \in 1..15
  PROVE  /\ p = 1  => Token(p) = Sign("$")
         /\ p = 13 => Token(p) = Sign("*")
         /\ p = 14 => Token(p) = Sign("sum")
         /\ p = 15 => Token(p) = Sign("end")
         /\ p \in 2..12 /\ p % 2 = 1 => Token(p) = Comma
         /\ p \in 2..12 /\ p % 2 = 0 => p \div 2 \in 1..6 /\ Token(p) = fields[p \div 2]
         /\ After(p) \in 2..12 => Token(After(p)) # Empty
         /\ After(p) \in p + 1 .. p + 2
         /\ After(p) = p + 2 => p \in {5, 7} /\ fields[(p + 1) \div 2] = Empty
<1>0. Empty \notin Separators \cup {Sign("$"), Sign("sum")}
  BY DEF Empty, Separators, Sign, Comma
<1>1. /\ p = 1  => Token(p) = Sign("$")
      /\ p = 13 => Token(p) = Sign("*")
      /\ p = 14 => Token(p) = Sign("sum")
      /\ p = 15 => Token(p) = Sign("end")
      /\ p \in 2..12 /\ p % 2 = 1 => Token(p) = Comma
      /\ p \in 2..12 /\ p % 2 = 0 => p \div 2 \in 1..6 /\ Token(p) = fields[p \div 2]
  BY DEF Token
<1>2. ASSUME p + 1 \in 2..12, Token(p + 1) = Empty
      PROVE  p \in {5, 7} /\ fields[(p + 1) \div 2] = Empty
  <2>1. (p + 1) % 2 = 0
    BY <1>0, <1>2 DEF Token, Separators
  <2>2. Token(p + 1) = fields[(p + 1) \div 2] /\ (p + 1) \div 2 \in 1..6
    BY <1>2, <2>1 DEF Token
  <2>3. (p + 1) \div 2 \in {3, 4}
    BY <1>2, <2>2, Words
  <2> QED BY <1>2, <2>1, <2>2, <2>3
<1>3. After(p) \in p + 1 .. p + 2 /\ (After(p) = p + 2 => p \in {5, 7} /\ fields[(p + 1) \div 2] = Empty)
  BY <1>2 DEF After
<1>4. ASSUME After(p) \in 2..12 PROVE Token(After(p)) # Empty
  <2>1. CASE After(p) = p + 2
    <3>1. p + 2 \in {7, 9}
      BY <1>3, <2>1
    <3>2. Token(p + 2) = Comma
      BY <3>1 DEF Token
    <3> QED BY <2>1, <3>2, <1>0 DEF Separators
  <2>2. CASE After(p) = p + 1
    BY <1>4, <2>2 DEF After
  <2> QED BY <1>3, <2>1, <2>2
<1> QED BY <1>1, <1>3, <1>4

(* What gps_encode does at each place. *)
LEMMA Comes ==
  ASSUME NEW k \in Nat, Worded(fields, k), slot \in 1..15, Encode
  PROVE  /\ slot = 1 => Begin
         /\ slot \in 2..12 /\ slot % 2 = 0 => Ordinary(fields[slot \div 2])
         /\ slot \in 2..12 /\ slot % 2 = 1 => Separator(Comma)
         /\ slot = 13 => Separator(Sign("*"))
         /\ slot = 14 => Ordinary(Sign("sum")) /\ checked' = fields
         /\ slot # 14 => checked' = checked
         /\ slot = 15 => Separator(Sign("end"))
         /\ slot' = After(slot) /\ UNCHANGED <<fields, drops, nSent>>
<1> DEFINE c == Token(slot)
<1>1. /\ \/ c \in Separators /\ Separator(c)
         \/ c = Sign("$") /\ Begin
         \/ c \notin Separators \cup {Sign("$")} /\ Ordinary(c)
      /\ checked' = IF c = Sign("sum") THEN fields ELSE checked
  BY DEF Encode
<1>2. /\ Sign("$") \notin Separators /\ Sign("sum") \notin Separators \cup {Sign("$")}
      /\ Comma \in Separators /\ Sign("*") \in Separators /\ Sign("end") \in Separators
  BY DEF Separators, Comma, Sign
<1>3. \A i \in 1..6 : fields[i] \notin Separators \cup {Sign("$"), Sign("sum")}
  BY Words
<1>4. slot' = After(slot) /\ UNCHANGED <<fields, drops, nSent>>
  BY DEF Encode
<1>5. /\ slot = 1  => c = Sign("$")
      /\ slot = 13 => c = Sign("*")
      /\ slot = 14 => c = Sign("sum")
      /\ slot = 15 => c = Sign("end")
      /\ slot \in 2..12 /\ slot % 2 = 1 => c = Comma
      /\ slot \in 2..12 /\ slot % 2 = 0 => slot \div 2 \in 1..6 /\ c = fields[slot \div 2]
  BY Slots
<1> HIDE DEF c
<1>6. CASE slot \in 2..12 /\ slot % 2 = 0
  BY <1>1, <1>3, <1>4, <1>5, <1>6
<1>7. CASE slot \in 2..12 /\ slot % 2 = 1
  BY <1>1, <1>2, <1>4, <1>5, <1>7
<1>8. CASE slot = 1 \/ slot = 13 \/ slot = 14 \/ slot = 15
  BY <1>1, <1>2, <1>4, <1>5, <1>8
<1> QED BY <1>6, <1>7, <1>8

(* The order of the terms: the sign comes behind the latitude, and one of  *)
(* the terms says whether the sentence is valid.                           *)
LEMMA Places ==
  ASSUME NEW type \in DOMAIN Layout
  PROVE  /\ \A i \in 1..5 : Layout[type][i] \in Field \cup {"valid", "fix", "ns"}
         /\ \A i, m \in 1..5 : Layout[type][i] = Layout[type][m] => i = m
         /\ \A i, m \in 1..5 : Layout[type][i] \in {"valid", "fix"} /\ Layout[type][m] \in {"valid", "fix"} => i = m
         /\ \A i \in 1..5 : Layout[type][i] = "lat" => i + 1 \in 1..5 /\ Layout[type][i + 1] = "ns"
         /\ \A i \in 1..5 : Layout[type][i] = "ns" => i - 1 \in 1..5 /\ Layout[type][i - 1] = "lat"
<1>1. type \in {"GPRMC", "GPGGA"}
  BY DEF Layout
<1>2. \A i \in 1..5 : i \in {1, 2, 3, 4, 5}
  OBVIOUS
<1>3. CASE type = "GPRMC"
  <2>1. /\ Layout[type][1] = "time" /\ Layout[type][2] = "valid" /\ Layout[type][3] = "lat"
        /\ Layout[type][4] = "ns" /\ Layout[type][5] = "date"
    BY <1>3 DEF Layout
  <2> QED BY <1>2, <2>1 DEF Field
<1>4. CASE type = "GPGGA"
  <2>1. /\ Layout[type][1] = "time" /\ Layout[type][2] = "lat" /\ Layout[type][3] = "ns"
        /\ Layout[type][4] = "fix" /\ Layout[type][5] = "alt"
    BY <1>4 DEF Layout
  <2> QED BY <1>2, <2>1 DEF Field
<1> QED BY <1>1, <1>3, <1>4

(* Only the latitude can be missing, and only the flags are flags. *)
LEMMA Shown ==
  ASSUME NEW k \in Nat, NEW fs, Worded(fs, k), TypeKnown(fs), NEW i \in 1..5
  PROVE  /\ fs[i + 1] = Empty => Layout[sentenceType][i] = "lat"
         /\ fs[i + 1] \in Texts(Layout[sentenceType][i], k)
<1>1. PICK type \in DOMAIN Layout : fs[1] = Sign(type) /\ \A m \in 1..5 : fs[m + 1] \in Texts(Layout[type][m], k)
  BY DEF Worded
<1>2. Sign(type) = Sign(sentenceType)
  BY <1>1 DEF TypeKnown
<1>3. type = sentenceType
  BY <1>2 DEF Sign
<1>4. fs[i + 1] \in Texts(Layout[sentenceType][i], k)
  BY <1>1, <1>3
<1>5. Layout[sentenceType][i] \in {"time", "date", "alt", "valid", "fix", "ns", "lat"}
  BY Places DEF TypeKnown, Field
<1>6. ASSUME NEW f \in {"time", "date", "alt", "valid", "fix", "ns"} PROVE Empty \notin Texts(f, k)
  <2>1. \A a, b : <<a, b>>[1] = a
    OBVIOUS
  <2>2. \A a, b : a # "" => Empty # <<a, b>>
    BY <2>1, Zenon DEF Empty, Sign
  <2>3. "time" # "" /\ "date" # "" /\ "alt" # "" /\ "A" # "" /\ "V" # "" /\ "1" # "" /\ "0" # "" /\ "N" # "" /\ "S" # ""
    OBVIOUS
  <2>4. /\ Empty \notin Texts("time", k) /\ Empty \notin Texts("date", k) /\ Empty \notin Texts("alt", k)
        /\ Empty \notin Texts("valid", k) /\ Empty \notin Texts("fix", k) /\ Empty \notin Texts("ns", k)
    <3>1. /\ Empty # <<"time", k>> /\ Empty # <<"date", k>> /\ Empty # <<"alt", k>>
          /\ Empty # <<"A", 0>> /\ Empty # <<"V", 0>> /\ Empty # <<"1", 0>> /\ Empty # <<"0", 0>>
          /\ Empty # <<"N", 0>> /\ Empty # <<"S", 0>>
      BY <2>2, <2>3, Zenon
    <3> QED BY <3>1, TextsOf, ZenonT(60)
  <2> QED BY <2>4, Zenon
<1> QED BY <1>4, <1>5, <1>6

(* gps_term_complete stores the next term of an undisturbed sentence. *)
LEMMA ValuesNext ==
  ASSUME NEW k \in Nat, Worded(fields, k), TypeKnown(fields), DOMAIN new = Field, isGood \in BOOLEAN,
         ~isChecksum, NEW m \in 0..4, termNumber = m + 1, Values(fields, m),
         term = IF fields[m + 2] = Empty THEN <<>> ELSE <<fields[m + 2]>>,
         NEW p, TermComplete(p), fields' = fields
  PROVE  /\ sentenceType' = sentenceType /\ Values(fields, m + 1)' /\ valid' = FALSE /\ fix' = fix
         /\ DOMAIN new' = Field /\ isGood' \in BOOLEAN
<1> DEFINE L == Layout[sentenceType]
           t == fields[m + 2]
<1>1. sentenceType \in DOMAIN Layout /\ m + 1 \in 1..5 /\ m + 2 = (m + 1) + 1
  BY DEF TypeKnown
<1>2. Place = L[m + 1]
  BY <1>1 DEF Place, Combine
<1>3. /\ valid' = FALSE /\ fix' = fix /\ sentenceType' = sentenceType
      /\ IF termNumber > 0 /\ ~isChecksum /\ term # <<>>
         THEN /\ new' = Store(Place, term[1])
              /\ isGood' = CASE Place = "valid" -> term[1] = Sign("A")
                             [] Place = "fix" -> term[1] = Sign("1")
                             [] OTHER -> isGood
         ELSE UNCHANGED <<new, isGood>>
  BY <1>1 DEF TermComplete
<1>4. CASE t = Empty
  <2>1. UNCHANGED <<new, isGood>>
    BY <1>3, <1>4
  <2>2. L[m + 1] = "lat"
    BY <1>1, <1>4, Shown
  <2>3. ASSUME NEW i \in 1..m PROVE L[i] # "lat"
    BY <1>1, <2>2, Places
  <2>4. Values(fields, m + 1)'
    BY <1>1, <1>3, <1>4, <2>1, <2>2, <2>3 DEF Values
  <2> QED BY <1>3, <2>1, <2>4
<1>5. CASE t # Empty
  <2>1. term = <<t>> /\ term # <<>> /\ term[1] = t
    BY <1>5
  <2>2. /\ new' = Store(L[m + 1], t)
        /\ isGood' = CASE L[m + 1] = "valid" -> t = Sign("A")
                       [] L[m + 1] = "fix" -> t = Sign("1")
                       [] OTHER -> isGood
    BY <1>2, <1>3, <2>1
  <2> DEFINE l == L[m + 1]
  <2>3. l \in Field \cup {"valid", "fix", "ns"}
    BY <1>1, Places
  <2>4. isGood' \in BOOLEAN
    <3>1. l # "valid" /\ l # "fix" => isGood' = isGood
      BY <2>2
    <3>2. l = "valid" => isGood' = (t = Sign("A"))
      BY <2>2
    <3>3. l = "fix" => isGood' = (t = Sign("1"))
      BY <2>2
    <3> QED BY <3>1, <3>2, <3>3
  <2>5. DOMAIN new' = Field
    BY <2>2 DEF Store
  <2>6. ASSUME NEW i \in 1..m + 1
        PROVE  /\ L[i] = "valid" => (isGood' <=> fields[i + 1] = Sign("A"))
               /\ L[i] = "fix" => (isGood' <=> fields[i + 1] = Sign("1"))
    <3>1. CASE i = m + 1
      <4>1. fields[i + 1] = t /\ L[i] = l
        BY <3>1
      <4> QED BY <2>2, <4>1
    <3>2. CASE i \in 1..m
      <4>1. L[i] \in {"valid", "fix"} => l # "valid" /\ l # "fix"
        BY <3>2, <1>1, Places
      <4>2. L[i] \in {"valid", "fix"} => isGood' = isGood
        BY <4>1, <2>2
      <4> QED BY <3>2, <4>2 DEF Values
    <3> QED BY <3>1, <3>2
  <2>7. ASSUME NEW i \in 1..m + 1, L[i] \in Field, fields[i + 1] # Empty
        PROVE  new'[L[i]] = <<fields[i + 1], IF L[i] = "lat" /\ i < m + 1 /\ fields[i + 2] = Sign("S") THEN -1 ELSE 1>>
    <3>1. CASE i = m + 1
      <4>1. fields[i + 1] = t /\ L[i] = l /\ l \in Field
        BY <3>1, <2>7
      <4>2. new' = [new EXCEPT ![l] = <<t, 1>>]
        <5>1. l # "ns"
          BY <4>1 DEF Field
        <5> QED BY <2>2, <4>1, <5>1 DEF Store
      <4> QED BY <3>1, <4>1, <4>2
    <3>2. CASE i \in 1..m /\ l \in Field
      <4>1. L[i] # l
        BY <3>2, <1>1, Places
      <4>2. new' = [new EXCEPT ![l] = <<t, 1>>]
        <5>1. l # "ns"
          BY <3>2 DEF Field
        <5> QED BY <2>2, <3>2, <5>1 DEF Store
      <4>3. new'[L[i]] = new[L[i]]
        BY <4>1, <4>2, <2>7
      <4>4. new[L[i]] = <<fields[i + 1], IF L[i] = "lat" /\ i < m /\ fields[i + 2] = Sign("S") THEN -1 ELSE 1>>
        BY <3>2, <2>7 DEF Values
      <4>5. L[i] = "lat" => i < m
        <5>1. L[i] = "lat" => L[i + 1] = "ns"
          BY <1>1, <3>2, Places, SMTT(30)
        <5>2. "ns" \notin Field
          BY DEF Field
        <5> QED BY <3>2, <5>1, <5>2
      <4> QED BY <3>2, <4>3, <4>4, <4>5
    <3>3. CASE i \in 1..m /\ l \in {"valid", "fix", "ns"} /\ ~(l = "ns" /\ t = Sign("S"))
      <4>1. l \notin Field
        BY <3>3 DEF Field
      <4>2. new' = new
        BY <2>2, <3>3, <4>1 DEF Store
      <4>3. new[L[i]] = <<fields[i + 1], IF L[i] = "lat" /\ i < m /\ fields[i + 2] = Sign("S") THEN -1 ELSE 1>>
        BY <3>3, <2>7 DEF Values
      <4>4. L[i] = "lat" /\ i = m => fields[i + 2] # Sign("S")
        <5>1. L[i] = "lat" => L[i + 1] = "ns"
          BY <1>1, <3>3, Places
        <5> QED BY <3>3, <5>1
      <4> QED BY <3>3, <4>2, <4>3, <4>4
    <3>4. CASE i \in 1..m /\ l = "ns" /\ t = Sign("S")
      <4>1. new' = [new EXCEPT !["lat"] = <<@[1], -@[2]>>]
        <5>1. l = "ns" /\ l \notin Field
          BY <3>4 DEF Field
        <5> QED BY <2>2, <3>4, <5>1 DEF Store
      <4>2. m \in 1..5 /\ L[m] = "lat"
        BY <1>1, <3>4, Places
      <4>3. new[L[i]] = <<fields[i + 1], IF L[i] = "lat" /\ i < m /\ fields[i + 2] = Sign("S") THEN -1 ELSE 1>>
        BY <3>4, <2>7 DEF Values
      <4>4. CASE L[i] = "lat"
        <5>1. i = m /\ i + 2 = m + 2
          BY <4>2, <4>4, <1>1, <3>4, Places
        <5>2. new["lat"] = <<fields[i + 1], 1>>
          BY <4>3, <4>4, <5>1
        <5>3. new'["lat"] = <<fields[i + 1], -1>>
          BY <4>1, <5>2 DEF Field
        <5> QED BY <3>4, <4>4, <5>1, <5>3
      <4>5. CASE L[i] # "lat"
        BY <4>1, <4>3, <4>5, <2>7
      <4> QED BY <4>4, <4>5
    <3>5. i \in 1..m \/ i = m + 1
      OBVIOUS
    <3> QED BY <2>3, <3>1, <3>2, <3>3, <3>4, <3>5
  <2>8. Values(fields, m + 1)'
    BY <1>3, <2>6, <2>7 DEF Values
  <2> QED BY <1>3, <2>4, <2>5, <2>8
<1> QED BY <1>4, <1>5

(* gps_term_complete keeps the types. *)
LEMMA TermTyped ==
  ASSUME DOMAIN new = Field, DOMAIN fix = Field, isGood \in BOOLEAN, NEW p, TermComplete(p)
  PROVE  DOMAIN new' = Field /\ DOMAIN fix' = Field /\ isGood' \in BOOLEAN /\ valid' \in BOOLEAN
<1>1. CASE isChecksum /\ term # <<>>
  BY <1>1 DEF TermComplete, Passes
<1>2. CASE ~(isChecksum /\ term # <<>>)
  <2>1. valid' = FALSE /\ fix' = fix
    BY <1>2 DEF TermComplete
  <2>2. \/ new' = Store(Place, term[1])
        \/ new' = new
    BY <1>2 DEF TermComplete
  <2>3. DOMAIN new' = Field
    BY <2>2 DEF Store
  <2>4. \/ isGood' = isGood
        \/ isGood' = (term[1] = Sign("A"))
        \/ isGood' = (term[1] = Sign("1"))
    BY <1>2 DEF TermComplete
  <2> QED BY <2>1, <2>3, <2>4
<1> QED BY <1>1, <1>2

(* A term that tells its sentence is no other token. *)
LEMMA MarkApart ==
  ASSUME NEW k \in Nat, Worded(fields, k), NEW j \in Nat, j # k, NEW f \in {"time", "date", "alt"}
  PROVE  <<f, j>> \notin SumOf(fields) \cup {Comma, Sign("sum")}
<1>1. \A i \in 1..6 : fields[i] # <<f, j>>
  BY Words
<1>2. \A a, b : <<a, b>>[1] = a
  OBVIOUS
<1>3. f # "," /\ f # "sum"
  OBVIOUS
<1>4. <<f, j>> # Comma /\ <<f, j>> # Sign("sum")
  BY <1>2, <1>3, Zenon DEF Comma, Sign
<1> QED BY <1>1, <1>4, Zenon DEF SumOf

(* The terms of earlier sentences stay in the parity until the next '$'. *)
LEMMA MarkStays ==
  ASSUME NEW k \in Nat, Worded(fields, k), Marked(k - 1), NEW x \in SumOf(fields) \cup {Comma, Sign("sum")},
         parity' = Toggle(parity, x)
  PROVE  Marked(k - 1)'
<1>1. PICK j \in 1..k - 1, f \in {"time", "date", "alt"} : <<f, j>> \in parity
  BY DEF Marked
<1>2. j \in Nat /\ j # k
  OBVIOUS
<1>3. <<f, j>> # x
  BY <1>2, MarkApart
<1>4. <<f, j>> \in parity'
  BY <1>1, <1>3, Toggled
<1> QED BY <1>4 DEF Marked

(* With them in it the parity is not that of the sentence. *)
LEMMA MarkShows ==
  ASSUME NEW k \in Nat, Worded(fields, k), Marked(k - 1)
  PROVE  parity # SumOf(fields)
<1>1. PICK j \in 1..k - 1, f \in {"time", "date", "alt"} : <<f, j>> \in parity
  BY DEF Marked
<1>2. j \in Nat /\ j # k
  OBVIOUS
<1> QED BY <1>1, <1>2, MarkApart

(* A sentence that lost at most one token marks the parity. *)
LEMMA SumMarks ==
  ASSUME NEW k \in Nat \ {0}, Worded(fields, k), NEW x,
         parity = SumOf(fields) \/ parity = Toggle(SumOf(fields), x)
  PROVE  Marked(k)
<1>1. fields[2] = <<"time", k>> /\ fields[6] \in {<<"date", k>>, <<"alt", k>>} /\ fields[2] # fields[6]
  BY Words
<1>2. fields[2] # Empty /\ fields[6] # Empty
  BY Words
<1>3. fields[2] \in SumOf(fields) /\ fields[6] \in SumOf(fields)
  BY <1>2 DEF SumOf
<1>4. fields[2] \in parity \/ fields[6] \in parity
  BY <1>1, <1>3, Toggled
<1>5. k \in 1..k
  OBVIOUS
<1>6. <<"time", k>> \in parity \/ <<"date", k>> \in parity \/ <<"alt", k>> \in parity
  BY <1>1, <1>4
<1> QED BY <1>5, <1>6 DEF Marked

(* A token of the sentence is one of those that its checksum covers. *)
LEMMA TokenCovered ==
  ASSUME NEW k \in Nat, Worded(fields, k), NEW p \in 2..12, Token(p) # Empty
  PROVE  Token(p) \in SumOf(fields)
<1>1. CASE p % 2 = 0
  <2>1. p \div 2 \in 1..6 /\ Token(p) = fields[p \div 2]
    BY <1>1, Slots
  <2> QED BY <2>1 DEF SumOf
<1>2. CASE p % 2 = 1
  <2>1. Token(p) = Comma
    BY <1>2, Slots
  <2> QED BY <2>1 DEF SumOf
<1> QED BY <1>1, <1>2

(* Between '$' and '*' every token goes into the parity, and no sentence   *)
(* is found valid there: what the comma behind a late checksum leaves in   *)
(* the parity is no checksum of a sentence.                                *)
LEMMA BodyToken ==
  ASSUME TinyInv, slot \in 2..12, Encode
  PROVE  /\ slot' = After(slot) /\ slot' \in slot + 1 .. 13 /\ Body(slot)' = Toggle(Body(slot), Token(slot))
         /\ UNCHANGED <<fields, drops, nSent, checked>> /\ valid' = FALSE /\ TinyType'
         /\ ~isChecksum => ~isChecksum' /\ parity' = Toggle(parity, Token(slot))
         /\ isChecksum => \/ slot = 2 /\ parity' = parity /\ slot' = 3
                          \/ slot = 3 /\ parity' = Toggle(parity, Token(slot)) /\ ~isChecksum'
<1>1. nSent \in Nat /\ nSent > 0 /\ Worded(fields, nSent) /\ Token(slot) # Empty
  BY DEF TinyInv, TinyType, END
<1>2. slot \in 1..15
  OBVIOUS
<1>3. slot' = After(slot) /\ UNCHANGED <<fields, drops, nSent, checked>>
  BY <1>1, <1>2, Comes
<1>4. After(slot) \in slot + 1 .. 13 /\ Body(After(slot)) = Toggle(Body(slot), Token(slot))
  BY <1>1, BodyNext
<1>5. Body(slot)' = Body(After(slot))
  BY <1>3 DEF Body
<1>6. Body(slot)' = Toggle(Body(slot), Token(slot))
  BY <1>4, <1>5
<1>7. slot' \in 2..12 => Token(slot)' # Empty
  <2>1. After(slot) \in 2..12 => Token(After(slot)) # Empty
    BY <1>1, <1>2, Slots
  <2>2. Token(slot)' = Token(After(slot))
    BY <1>3 DEF Token
  <2> QED BY <1>3, <2>1, <2>2
<1>8. Worded(fields, nSent)'
  BY <1>1, <1>3 DEF Worded
<1>9. isChecksum => slot <= 3
  BY DEF TinyInv, Aligned, Off, Alien
<1>10. /\ slot' \in 1..END /\ drops' \in 0..1 /\ nSent' \in Nat
       /\ (nSent' = 0 => slot' = END) /\ (nSent' > 0 => Worded(fields, nSent)')
       /\ (slot' \in 2..12 => Token(slot)' # Empty)
  <2>1. drops \in 0..1
    BY DEF TinyInv, TinyType
  <2> QED BY <1>1, <1>3, <1>4, <1>7, <1>8, <2>1 DEF END
<1>11. CASE slot % 2 = 0
  <2>1. Token(slot) = fields[slot \div 2]
    BY <1>1, <1>2, <1>11, Slots
  <2>2. Ordinary(Token(slot))
    BY <1>1, <1>2, <1>11, <2>1, Comes
  <2>3. slot = 2 => After(slot) = 3
    BY <1>1, <1>2, Slots
  <2>4. TinyType'
    <3>1. UNCHANGED <<isChecksum, termNumber, isGood, new, fix>> /\ valid' = FALSE
      BY <2>2 DEF Ordinary
    <3>2. /\ isChecksum' \in BOOLEAN /\ isGood' \in BOOLEAN /\ valid' \in BOOLEAN
          /\ termNumber' \in 0..255 /\ DOMAIN new' = Field /\ DOMAIN fix' = Field
      BY <3>1 DEF TinyInv, TinyType
    <3> QED BY <1>10, <3>2 DEF TinyType
  <2>5. valid' = FALSE /\ isChecksum' = isChecksum /\ parity' = (IF isChecksum THEN parity ELSE Toggle(parity, Token(slot)))
    BY <2>2 DEF Ordinary
  <2>6. isChecksum => slot = 2
    BY <1>9, <1>11
  <2> QED BY <1>3, <1>4, <1>6, <2>3, <2>4, <2>5, <2>6
<1>12. CASE slot % 2 = 1
  <2>1. Token(slot) = Comma /\ Separator(Comma)
    BY <1>1, <1>2, <1>12, Slots, Comes
  <2>2. parity' = Toggle(parity, Comma) /\ TermComplete(parity') /\ termNumber' = (termNumber + 1) % 256
    BY <2>1 DEF Separator
  <2>3. isChecksum' = FALSE
    BY <2>1 DEF Separator, Comma, Sign
  <2>4. DOMAIN new' = Field /\ DOMAIN fix' = Field /\ isGood' \in BOOLEAN /\ valid' \in BOOLEAN
    BY <2>2, TermTyped DEF TinyInv, TinyType
  <2>5. termNumber' \in 0..255
    <3>1. termNumber \in 0..255
      BY DEF TinyInv, TinyType
    <3> QED BY <2>2, <3>1
  <2>6. TinyType'
    <3>1. isChecksum' \in BOOLEAN
      BY <2>3
    <3> QED BY <1>10, <2>4, <2>5, <3>1 DEF TinyType
  <2>7. valid' = FALSE
    <3>1. CASE isChecksum
      <4>1. Comma \in parity
        BY <3>1 DEF TinyInv
      <4>2. Comma \notin parity'
        BY <4>1, <2>2, Toggled
      <4>3. Comma \in SumOf(checked)
        BY DEF SumOf
      <4> QED BY <2>2, <4>2, <4>3 DEF TermComplete, Passes
    <3>2. CASE ~isChecksum
      BY <2>2, <3>2 DEF TermComplete
    <3> QED BY <3>1, <3>2 DEF TinyInv, TinyType
  <2>8. isChecksum => slot = 3
    BY <1>9, <1>12
  <2> QED BY <1>3, <1>4, <1>6, <2>1, <2>2, <2>3, <2>6, <2>7, <2>8
<1>13. slot % 2 = 0 \/ slot % 2 = 1
  OBVIOUS
<1> QED BY <1>11, <1>12, <1>13

(* An undisturbed sentence stays so. *)
LEMMA AlignedNext ==
  ASSUME TinyInv, slot \in 2..12, Encode, Aligned
  PROVE  Aligned'
<1>1. nSent \in Nat /\ nSent > 0 /\ Worded(fields, nSent) /\ Token(slot) # Empty
  BY DEF TinyInv, TinyType, END
<1>2. slot \in 1..15
  OBVIOUS
<1>3. /\ ~isChecksum' /\ parity' = Body(slot)' /\ slot' = After(slot) /\ fields' = fields
      /\ slot' \in slot + 1 .. 13
  BY BodyToken DEF Aligned
<1>4. CASE slot % 2 = 0
  <2> DEFINE m == slot \div 2
  <2>1. Token(slot) = fields[m] /\ Ordinary(fields[m]) /\ After(slot) = slot + 1 /\ fields[m] # Empty
    BY <1>1, <1>2, <1>4, Slots, Comes
  <2>2. slot' \div 2 = m /\ slot' % 2 = 1 /\ (slot' >= 4 => slot >= 4)
    BY <1>3, <1>4, <2>1
  <2>3. term = <<>>
    BY <1>4 DEF Aligned
  <2>4. term' = <<fields[m]>> /\ UNCHANGED <<termNumber, sentenceType, isGood, new>>
    BY <2>1, <2>3 DEF Ordinary
  <2>5. termNumber' = slot' \div 2 - 1
    BY <2>2, <2>4 DEF Aligned
  <2>6. term' = IF slot' % 2 = 0 \/ fields'[slot' \div 2] = Empty THEN <<>> ELSE <<fields'[slot' \div 2]>>
    BY <1>3, <2>1, <2>2, <2>4
  <2>7. slot' >= 4 => TypeKnown(fields)' /\ Values(fields, slot \div 2 - 2)'
    <3>1. slot >= 4 => TypeKnown(fields) /\ Values(fields, slot \div 2 - 2)
      BY DEF Aligned
    <3> QED BY <1>3, <2>2, <2>4, <3>1 DEF TypeKnown, Values
  <2> QED BY <1>3, <2>5, <2>6, <2>7 DEF Aligned
<1>5. CASE slot % 2 = 1
  <2>1. PICK m \in 1..5 : slot = 2*m + 1
    BY <1>5
  <2>2. slot \div 2 = m /\ termNumber = m - 1
    BY <2>1 DEF Aligned
  <2>3. slot' \div 2 = m + 1 /\ (slot' = slot + 1 \/ (slot' = slot + 2 /\ fields[m + 1] = Empty))
    <3>1. After(slot) = slot + 2 => fields[(slot + 1) \div 2] = Empty
      BY <1>1, <1>2, Slots
    <3>2. After(slot) \in slot + 1 .. slot + 2 /\ (slot + 1) \div 2 = m + 1
      BY <1>1, <1>2, <2>1, Slots
    <3>3. slot' = 2*m + 2 \/ slot' = 2*m + 3
      BY <1>3, <2>1, <3>2
    <3>4. slot' \div 2 = m + 1
      BY <3>3
    <3>5. slot' = slot + 1 \/ slot' = slot + 2
      BY <2>1, <3>3
    <3>6. slot' = slot + 2 => fields[m + 1] = Empty
      BY <1>3, <3>1, <3>2
    <3> QED BY <3>4, <3>5, <3>6
  <2>4. Separator(Comma)
    BY <1>1, <1>2, <1>5, Comes
  <2>5. TermComplete(parity') /\ termNumber' = (termNumber + 1) % 256 /\ term' = <<>>
    BY <2>4 DEF Separator
  <2>6. termNumber' = slot' \div 2 - 1
    BY <2>2, <2>3, <2>5
  <2>7. slot' % 2 = 0 \/ fields'[slot' \div 2] = Empty
    BY <1>3, <2>1, <2>3
  <2>8. term = IF fields[m] = Empty THEN <<>> ELSE <<fields[m]>>
    BY <1>5, <2>2 DEF Aligned
  <2>9. TypeKnown(fields)' /\ Values(fields, slot \div 2 - 2)'
    <3>1. CASE m = 1
      <4>1. fields[1] \in {Sign("GPRMC"), Sign("GPGGA")}
        BY <1>1, WordsOf, Zenon DEF Sign
      <4>2. fields[1] # Empty
        BY <1>1, Words
      <4>3. sentenceType' = TypeOf(<<fields[1]>>)
        BY <2>2, <2>5, <2>8, <3>1, <4>2 DEF TermComplete, Aligned
      <4>4. CASE fields[1] = Sign("GPRMC")
        <5>1. <<fields[1]>> # <<Sign("GPGGA")>>
          BY <4>4 DEF Sign
        <5>2. sentenceType' = "GPRMC"
          BY <4>3, <4>4, <5>1 DEF TypeOf
        <5> QED BY <1>3, <2>3, <3>1, <4>4, <5>2 DEF TypeKnown, Values, Layout
      <4>5. CASE fields[1] = Sign("GPGGA")
        <5>1. <<fields[1]>> # <<Sign("GPRMC")>>
          BY <4>5 DEF Sign
        <5>2. sentenceType' = "GPGGA"
          BY <4>3, <4>5, <5>1 DEF TypeOf
        <5> QED BY <1>3, <2>3, <3>1, <4>5, <5>2 DEF TypeKnown, Values, Layout
      <4> QED BY <4>1, <4>4, <4>5
    <3>2. CASE m > 1
      <4> DEFINE l == m - 2
      <4>1. l \in 0..4 /\ termNumber = l + 1 /\ l + 2 = m
        BY <2>2, <3>2
      <4>2. TypeKnown(fields) /\ Values(fields, l)
        BY <2>1, <2>2, <3>2 DEF Aligned
      <4>3. DOMAIN new = Field /\ isGood \in BOOLEAN /\ ~isChecksum
        BY DEF TinyInv, TinyType, Aligned
      <4>4. sentenceType' = sentenceType /\ Values(fields, l + 1)'
        <5> HIDE DEF l
        <5> QED BY <1>1, <1>3, <2>5, <2>8, <4>1, <4>2, <4>3, ValuesNext
      <4>5. slot' \div 2 - 2 = l + 1
        BY <2>3, <4>1
      <4> QED BY <1>3, <4>2, <4>4, <4>5 DEF TypeKnown, Values
    <3> QED BY <3>1, <3>2
  <2> QED BY <1>3, <2>5, <2>6, <2>7, <2>9 DEF Aligned
<1>6. slot % 2 = 0 \/ slot % 2 = 1
  OBVIOUS
<1> QED BY <1>4, <1>5, <1>6

(* A token between '$' and '*'. *)
LEMMA BodyStep == TinyInv /\ slot \in 2..12 /\ Encode => TinyInv'
<1> SUFFICES ASSUME TinyInv, slot \in 2..12, Encode PROVE TinyInv'
  OBVIOUS
<1>1. nSent \in Nat /\ nSent > 0 /\ Worded(fields, nSent) /\ Token(slot) # Empty
  BY DEF TinyInv, TinyType, END
<1>2. /\ slot' = After(slot) /\ slot' \in slot + 1 .. 13 /\ Body(slot)' = Toggle(Body(slot), Token(slot))
      /\ UNCHANGED <<fields, drops, nSent, checked>> /\ valid' = FALSE /\ TinyType'
      /\ ~isChecksum => ~isChecksum' /\ parity' = Toggle(parity, Token(slot))
      /\ isChecksum => \/ slot = 2 /\ parity' = parity /\ slot' = 3
                       \/ slot = 3 /\ parity' = Toggle(parity, Token(slot)) /\ ~isChecksum'
  BY BodyToken
<1>3. slot' \in 3..13
  BY <1>2
<1>4. (Aligned \/ Off \/ Alien)'
  <2>1. CASE Aligned
    BY <2>1, AlignedNext
  <2>2. CASE Off
    <3>1. PICK x \in SumOf(fields) : parity = Toggle(Body(slot), x)
      BY <2>2 DEF Off
    <3>2. parity' = Toggle(Body(slot)', x)
      BY <1>2, <2>2, <3>1, ToggleSwap DEF Off
    <3>3. x \in SumOf(fields)'
      BY <1>2 DEF SumOf
    <3>4. drops' = 1 /\ ~isChecksum'
      BY <1>2, <2>2 DEF Off
    <3> QED BY <3>2, <3>3, <3>4 DEF Off
  <2>3. CASE Alien
    <3>1. Marked(nSent - 1) /\ drops = 1
      BY <2>3 DEF Alien
    <3>2. Token(slot) \in SumOf(fields) \cup {Comma, Sign("sum")}
      BY <1>1, TokenCovered
    <3>3. parity' = parity \/ parity' = Toggle(parity, Token(slot))
      BY <1>2
    <3>5. Marked(nSent - 1)'
      <4>1. CASE parity' = parity
        BY <1>2, <3>1, <4>1 DEF Marked
      <4>2. CASE parity' = Toggle(parity, Token(slot))
        <5> DEFINE k == nSent
        <5>1. k \in Nat /\ Worded(fields, k) /\ Marked(k - 1)
          BY <1>1, <3>1
        <5>2. \E j \in 1..k - 1, f \in {"time", "date", "alt"} : <<f, j>> \in parity'
          BY <5>1, <3>2, <4>2, MarkStays DEF Marked
        <5> QED BY <1>2, <5>2 DEF Marked
      <4> QED BY <3>3, <4>1, <4>2
    <3>6. isChecksum' => slot' <= 3
      BY <1>2
    <3> QED BY <1>2, <3>1, <3>5, <3>6 DEF Alien
  <2> QED BY <2>1, <2>2, <2>3 DEF TinyInv
<1>5. isChecksum' => Comma \in parity'
  BY <1>2 DEF TinyInv
<1>6. FixAsSent'
  BY <1>2 DEF FixAsSent
<1> QED BY <1>1, <1>2, <1>4, <1>5, <1>6, <1>3 DEF TinyInv

(* '$' begins a sentence anew. *)
LEMMA BeginStep == TinyInv /\ slot = 1 /\ Encode => TinyInv'
<1> SUFFICES ASSUME TinyInv, slot = 1, Encode PROVE TinyInv'
  OBVIOUS
<1>1. nSent \in Nat /\ nSent > 0 /\ Worded(fields, nSent) /\ slot \in 1..15
  BY DEF TinyInv, TinyType, END
<1>2. Begin /\ slot' = After(slot) /\ UNCHANGED <<fields, drops, nSent, checked>>
  BY <1>1, Comes
<1>3. After(slot) \in slot + 1 .. slot + 2 /\ (After(slot) = slot + 2 => slot \in {5, 7})
  BY <1>1, Slots
<1>4. slot' = 2
  BY <1>2, <1>3
<1>5. Token(slot)' # Empty
  <2>1. After(slot) \in 2..12 => Token(After(slot)) # Empty
    BY <1>1, Slots
  <2>2. Token(slot)' = Token(After(slot))
    BY <1>2 DEF Token
  <2> QED BY <1>2, <1>4, <2>1, <2>2
<1>6. TinyType'
  <2>1. Worded(fields, nSent)'
    BY <1>1, <1>2 DEF Worded
  <2>2. drops \in 0..1 /\ DOMAIN new = Field /\ DOMAIN fix = Field
    BY DEF TinyInv, TinyType
  <2>3. /\ isChecksum' = FALSE /\ isGood' = FALSE /\ valid' = FALSE /\ termNumber' = 0
        /\ UNCHANGED <<new, fix>>
    BY <1>2 DEF Begin
  <2>4. /\ isChecksum' \in BOOLEAN /\ isGood' \in BOOLEAN /\ valid' \in BOOLEAN
        /\ termNumber' \in 0..255 /\ DOMAIN new' = Field /\ DOMAIN fix' = Field
    <3>1. isChecksum' \in BOOLEAN /\ isGood' \in BOOLEAN /\ valid' \in BOOLEAN
      BY <2>3, Zenon
    <3>2. termNumber' \in 0..255 /\ DOMAIN new' = Field /\ DOMAIN fix' = Field
      BY <2>2, <2>3
    <3> QED BY <3>1, <3>2
  <2>5. slot' \in 1..END /\ nSent' \in Nat /\ nSent' > 0 /\ drops' \in 0..1
    BY <1>1, <1>2, <1>4, <2>2 DEF END
  <2> QED BY <1>5, <2>1, <2>4, <2>5 DEF TinyType
<1>7. Aligned'
  <2>1. Body(slot)' = {}
    <3>1. {m \in 1..6 : 2*m < 2} = {} /\ (2 \div 2) % 2 # 0
      OBVIOUS
    <3> QED BY <1>4, <3>1 DEF Body
  <2> QED BY <1>2, <1>4, <2>1 DEF Aligned, Begin
<1>8. FixAsSent' /\ ~isChecksum'
  BY <1>2 DEF FixAsSent, Begin
<1> QED BY <1>1, <1>2, <1>4, <1>6, <1>7, <1>8 DEF TinyInv

(* A sentence begins.  What is left in the parity tells an earlier one. *)
LEMMA SendStep == TinyInv /\ Send => TinyInv'
<1> SUFFICES ASSUME TinyInv, Send PROVE TinyInv'
  OBVIOUS
<1>1. /\ slot = END /\ slot' = 1 /\ nSent' = nSent + 1 /\ drops' = 0 /\ valid' = FALSE /\ nSent \in Nat
      /\ UNCHANGED <<checked, term, parity, isChecksum, termNumber, sentenceType, isGood, new, fix>>
  BY DEF Send, TinyInv, TinyType
<1>2. Worded(fields, nSent)'
  <2>1. PICK type \in DOMAIN Layout :
          \E a \in Texts(Layout[type][1], nSent'), b \in Texts(Layout[type][2], nSent'), c \in Texts(Layout[type][3], nSent'),
             d \in Texts(Layout[type][4], nSent'), e \in Texts(Layout[type][5], nSent') :
            fields' = <<Sign(type), a, b, c, d, e>>
    BY DEF Send
  <2>2. /\ DOMAIN fields' = 1..6 /\ fields'[1] = Sign(type)
        /\ fields'[2] \in Texts(Layout[type][1], nSent') /\ fields'[3] \in Texts(Layout[type][2], nSent')
        /\ fields'[4] \in Texts(Layout[type][3], nSent') /\ fields'[5] \in Texts(Layout[type][4], nSent')
        /\ fields'[6] \in Texts(Layout[type][5], nSent')
    BY <2>1
  <2>3. ASSUME NEW i \in 1..5 PROVE fields'[i + 1] \in Texts(Layout[type][i], nSent')
    <3>1. i \in {1, 2, 3, 4, 5}
      OBVIOUS
    <3> QED BY <2>2, <3>1
  <2>4. \A f, k : Texts(f, k)' = Texts(f, k)
    BY DEF Texts
  <2> QED BY <2>2, <2>3, <2>4 DEF Worded
<1>3. TinyType'
  <2>1. /\ isChecksum' \in BOOLEAN /\ isGood' \in BOOLEAN /\ valid' \in BOOLEAN
        /\ termNumber' \in 0..255 /\ DOMAIN new' = Field /\ DOMAIN fix' = Field
    BY <1>1 DEF TinyInv, TinyType
  <2>2. slot' \in 1..END /\ nSent' \in Nat /\ nSent' > 0 /\ drops' \in 0..1 /\ slot' \notin 2..12
    BY <1>1 DEF END
  <2> QED BY <1>2, <2>1, <2>2 DEF TinyType
<1>4. (nSent = 1 /\ Fresh)' \/ Marked(nSent - 1)'
  <2>1. CASE nSent = 0
    <3>1. Fresh
      BY <2>1 DEF TinyInv
    <3> QED BY <1>1, <2>1, <3>1 DEF Fresh
  <2>2. CASE nSent > 0
    <3>1. Marked(nSent)
      BY <1>1, <2>2 DEF TinyInv, END
    <3>2. nSent' - 1 = nSent
      BY <1>1
    <3> QED BY <1>1, <3>1, <3>2 DEF Marked
  <2> QED BY <1>1, <2>1, <2>2
<1>5. isChecksum' => Comma \in parity'
  BY <1>1 DEF TinyInv, END
<1>6. FixAsSent'
  BY <1>1 DEF FixAsSent
<1> QED BY <1>1, <1>3, <1>4, <1>5, <1>6 DEF TinyInv

(* Receiver and parser keep their types when a token passes. *)
LEMMA PassType ==
  ASSUME TinyInv, slot \in 1..15, slot' = After(slot), UNCHANGED <<fields, nSent>>, drops' \in 0..1,
         isChecksum' \in BOOLEAN, isGood' \in BOOLEAN, valid' \in BOOLEAN, termNumber' \in 0..255,
         DOMAIN new' = Field, DOMAIN fix' = Field
  PROVE  TinyType' /\ nSent' \in Nat /\ nSent' > 0 /\ slot' \in slot + 1 .. slot + 2
<1>1. nSent \in Nat /\ nSent > 0 /\ Worded(fields, nSent)
  BY DEF TinyInv, TinyType, END
<1>2. After(slot) \in slot + 1 .. slot + 2 /\ (After(slot) = slot + 2 => slot \in {5, 7})
  BY <1>1, Slots
<1>3. slot' \in 1..END
  BY <1>2 DEF END
<1>4. slot' \in 2..12 => Token(slot)' # Empty
  <2>1. After(slot) \in 2..12 => Token(After(slot)) # Empty
    BY <1>1, Slots
  <2>2. Token(slot)' = Token(After(slot))
    BY DEF Token
  <2> QED BY <2>1, <2>2
<1>5. Worded(fields, nSent)'
  BY <1>1 DEF Worded
<1> QED BY <1>1, <1>2, <1>3, <1>4, <1>5 DEF TinyType

(* '*' ends the part that the checksum covers. *)
LEMMA StarStep == TinyInv /\ slot = 13 /\ Encode => TinyInv'
<1> SUFFICES ASSUME TinyInv, slot = 13, Encode PROVE TinyInv'
  OBVIOUS
<1>1. nSent \in Nat /\ nSent > 0 /\ Worded(fields, nSent) /\ slot \in 1..15
  BY DEF TinyInv, TinyType, END
<1>2. Separator(Sign("*")) /\ slot' = After(slot) /\ UNCHANGED <<fields, drops, nSent, checked>>
  BY <1>1, Comes
<1>3. slot' = 14
  BY <1>2 DEF After
<1>4. Sign("*") # Comma
  BY DEF Sign, Comma
<1>5. /\ parity' = parity /\ TermComplete(parity') /\ isChecksum' = TRUE /\ term' = <<>>
      /\ termNumber' = (termNumber + 1) % 256
  BY <1>2, <1>4 DEF Separator
<1>6. ~isChecksum /\ drops \in 0..1 /\ DOMAIN new = Field /\ DOMAIN fix = Field /\ isGood \in BOOLEAN /\ termNumber \in 0..255
  BY DEF TinyInv, TinyType, Aligned, Off, Alien
<1>7. valid' = FALSE
  BY <1>5, <1>6 DEF TermComplete
<1>8. TinyType' /\ nSent' > 0
  <2>1. DOMAIN new' = Field /\ DOMAIN fix' = Field /\ isGood' \in BOOLEAN /\ valid' \in BOOLEAN
    BY <1>5, <1>6, TermTyped
  <2>2. termNumber' \in 0..255 /\ isChecksum' \in BOOLEAN /\ drops' \in 0..1
    BY <1>2, <1>5, <1>6
  <2> QED BY <1>1, <1>2, <2>1, <2>2, PassType
<1>9. /\ Marked(nSent)'
      /\ (parity = SumOf(fields) => Complete(fields)')
      /\ (drops = 0 => parity = SumOf(fields))
  <2>1. CASE Aligned
    <3>1. parity = SumOf(fields)
      BY <2>1, BodyWhole DEF Aligned
    <3>2. Marked(nSent)
      BY <1>1, <3>1, SumMarks
    <3>3. PICK m \in 0..4 : m = 4
      OBVIOUS
    <3>4. TypeKnown(fields) /\ Values(fields, m) /\ termNumber = m + 1
      BY <2>1, <3>3 DEF Aligned
    <3>5. term = IF fields[m + 2] = Empty THEN <<>> ELSE <<fields[m + 2]>>
      BY <2>1, <3>3 DEF Aligned
    <3>6. sentenceType' = sentenceType /\ Values(fields, m + 1)'
      BY <1>1, <1>2, <1>5, <1>6, <3>4, <3>5, ValuesNext
    <3>7. Complete(fields)'
      BY <1>2, <3>3, <3>4, <3>6 DEF Complete, TypeKnown, Values
    <3> QED BY <1>2, <1>5, <3>1, <3>2, <3>7 DEF Marked
  <2>2. CASE Off
    <3>1. PICK x \in SumOf(fields) : parity = Toggle(SumOf(fields), x)
      BY <2>2, BodyWhole DEF Off
    <3>2. parity # SumOf(fields)
      BY <3>1, Toggled
    <3>3. Marked(nSent)
      BY <1>1, <3>1, SumMarks
    <3> QED BY <1>2, <1>5, <2>2, <3>2, <3>3 DEF Marked, Off
  <2>3. CASE Alien
    <3>1. Marked(nSent - 1) /\ drops = 1
      BY <2>3 DEF Alien
    <3>2. parity # SumOf(fields)
      BY <1>1, <3>1, MarkShows
    <3>3. Marked(nSent)'
      BY <1>1, <1>2, <1>5, <3>1 DEF Marked
    <3> QED BY <3>1, <3>2, <3>3
  <2> QED BY <2>1, <2>2, <2>3 DEF TinyInv
<1>10. SumOf(fields)' = SumOf(fields)
  BY <1>2 DEF SumOf
<1>11. FixAsSent'
  BY <1>7 DEF FixAsSent
<1> QED BY <1>2, <1>3, <1>5, <1>8, <1>9, <1>10, <1>11 DEF TinyInv

(* The checksum. *)
LEMMA SumStep == TinyInv /\ slot = 14 /\ Encode => TinyInv'
<1> SUFFICES ASSUME TinyInv, slot = 14, Encode PROVE TinyInv'
  OBVIOUS
<1>1. nSent \in Nat /\ nSent > 0 /\ Worded(fields, nSent) /\ slot \in 1..15
  BY DEF TinyInv, TinyType, END
<1>2. Ordinary(Sign("sum")) /\ slot' = After(slot) /\ UNCHANGED <<fields, drops, nSent>> /\ checked' = fields
  BY <1>1, Comes
<1>3. slot' = 15
  BY <1>2 DEF After
<1>4. /\ parity' = (IF isChecksum THEN parity ELSE Toggle(parity, Sign("sum"))) /\ valid' = FALSE
      /\ UNCHANGED <<isChecksum, termNumber, sentenceType, isGood, new, fix>>
  BY <1>2 DEF Ordinary
<1>5. TinyType' /\ nSent' > 0
  <2>1. /\ isChecksum' \in BOOLEAN /\ isGood' \in BOOLEAN /\ valid' \in BOOLEAN
        /\ termNumber' \in 0..255 /\ DOMAIN new' = Field /\ DOMAIN fix' = Field /\ drops' \in 0..1
    BY <1>2, <1>4 DEF TinyInv, TinyType
  <2> QED BY <1>1, <1>2, <2>1, PassType
<1>6. Marked(nSent)'
  <2>1. PICK j \in 1..nSent, f \in {"time", "date", "alt"} : <<f, j>> \in parity
    BY <1>1 DEF TinyInv, Marked
  <2>2. \A a, b : <<a, b>>[1] = a
    OBVIOUS
  <2>3. f # "sum"
    OBVIOUS
  <2>4. <<f, j>> # Sign("sum")
    BY <2>2, <2>3, Zenon DEF Sign
  <2>5. <<f, j>> \in parity'
    BY <1>4, <2>1, <2>4, Toggled
  <2> QED BY <1>2, <2>5 DEF Marked
<1>7. isChecksum => (parity = SumOf(fields) => Complete(fields))
  BY DEF TinyInv
<1>8. isChecksum' => (parity' = SumOf(fields)' => Complete(fields)')
  BY <1>2, <1>4, <1>7 DEF SumOf, Complete, TypeKnown, Values
<1>9. drops' = 0 => parity' = SumOf(fields)'
  <2>1. drops = 0 => isChecksum /\ parity = SumOf(fields)
    BY DEF TinyInv
  <2> QED BY <1>2, <1>4, <2>1 DEF SumOf
<1>10. FixAsSent'
  BY <1>4 DEF FixAsSent
<1>11. checked' = fields'
  BY <1>2
<1> QED BY <1>3, <1>5, <1>6, <1>8, <1>9, <1>10, <1>11 DEF TinyInv

(* The end of the line, where a sentence is found valid. *)
LEMMA EndStep == TinyInv /\ slot = 15 /\ Encode => TinyInv'
<1> SUFFICES ASSUME TinyInv, slot = 15, Encode PROVE TinyInv'
  OBVIOUS
<1>1. nSent \in Nat /\ nSent > 0 /\ Worded(fields, nSent) /\ slot \in 1..15
  BY DEF TinyInv, TinyType, END
<1>2. Separator(Sign("end")) /\ slot' = After(slot) /\ UNCHANGED <<fields, drops, nSent, checked>>
  BY <1>1, Comes
<1>3. slot' = 16
  BY <1>2 DEF After
<1>4. Sign("end") # Comma /\ Sign("end") # Sign("*")
  BY DEF Sign, Comma
<1>5. /\ parity' = parity /\ TermComplete(parity') /\ isChecksum' = FALSE
      /\ termNumber' = (termNumber + 1) % 256
  BY <1>2, <1>4 DEF Separator
<1>6. drops \in 0..1 /\ DOMAIN new = Field /\ DOMAIN fix = Field /\ isGood \in BOOLEAN /\ termNumber \in 0..255
  BY DEF TinyInv, TinyType
<1>7. TinyType' /\ nSent' > 0
  <2>1. DOMAIN new' = Field /\ DOMAIN fix' = Field /\ isGood' \in BOOLEAN /\ valid' \in BOOLEAN
    BY <1>5, <1>6, TermTyped
  <2>2. termNumber' \in 0..255 /\ drops' \in 0..1
    BY <1>2, <1>5, <1>6
  <2>3. isChecksum' \in BOOLEAN
    BY <1>5, Zenon
  <2> QED BY <1>1, <1>2, <2>1, <2>2, <2>3, PassType
<1>8. Marked(nSent)'
  <2>1. Marked(nSent)
    BY <1>1 DEF TinyInv
  <2> QED BY <1>2, <1>5, <2>1 DEF Marked
<1>9. ASSUME valid' PROVE FixAsSent'
  <2>1. isChecksum /\ term # <<>>
    BY <1>5, <1>9 DEF TermComplete
  <2>2. /\ Passes(parity') /\ UNCHANGED <<sentenceType, isGood, new>>
        /\ fix' = [f \in Field |-> IF valid' /\ f \in Committed THEN new[f] ELSE fix[f]]
    BY <1>5, <1>9, <2>1 DEF TermComplete
  <2>3. checked = fields /\ isGood /\ parity = SumOf(fields)
    BY <1>5, <2>1, <2>2 DEF TinyInv, Passes
  <2>4. TypeKnown(fields) /\ Values(fields, 5)
    BY <2>1, <2>3 DEF TinyInv, Complete
  <2>5. checked' = fields /\ sentenceType' = sentenceType
    BY <1>2, <2>2, <2>3
  <2>6. \E i \in 2..6 : fields[i] \in {Sign("A"), Sign("1")}
    <3>1. sentenceType \in {"GPRMC", "GPGGA"}
      BY <2>4 DEF TypeKnown, Layout
    <3>2. CASE sentenceType = "GPRMC"
      <4>1. Layout[sentenceType][2] = "valid" /\ 2 \in 1..5
        BY <3>2 DEF Layout
      <4>2. fields[2 + 1] = Sign("A")
        BY <2>3, <2>4, <4>1 DEF Values
      <4> QED BY <4>2
    <3>3. CASE sentenceType = "GPGGA"
      <4>1. Layout[sentenceType][4] = "fix" /\ 4 \in 1..5
        BY <3>3 DEF Layout
      <4>2. fields[4 + 1] = Sign("1")
        BY <2>3, <2>4, <4>1 DEF Values
      <4> QED BY <4>2
    <3> QED BY <3>1, <3>2, <3>3
  <2>7. ASSUME NEW i \in 1..5, Layout[sentenceType][i] \in Committed, fields[i + 1] # Empty
        PROVE  fix'[Layout[sentenceType][i]]
                 = <<fields[i + 1], IF Layout[sentenceType][i] = "lat" /\ fields[i + 2] = Sign("S") THEN -1 ELSE 1>>
    <3> DEFINE f == Layout[sentenceType][i]
    <3>1. f \in Field
      BY <2>7 DEF Committed, Field
    <3>2. fix'[f] = new[f]
      BY <1>9, <2>2, <2>7, <3>1
    <3>3. new[f] = <<fields[i + 1], IF f = "lat" /\ i < 5 /\ fields[i + 2] = Sign("S") THEN -1 ELSE 1>>
      BY <2>4, <2>7, <3>1 DEF Values
    <3>4. f = "lat" => i < 5
      BY <2>4, Places DEF TypeKnown
    <3> QED BY <3>2, <3>3, <3>4
  <2>8. Committed' = Committed
    BY <2>5 DEF Committed
  <2> QED BY <2>4, <2>5, <2>6, <2>7, <2>8 DEF FixAsSent, TypeKnown
<1>10. FixAsSent'
  BY <1>9 DEF FixAsSent
<1> QED BY <1>3, <1>5, <1>7, <1>8, <1>10 DEF TinyInv

(* A token is lost, the first of its sentence. *)
LEMMA DropStep ==
  ASSUME MAX_DROP <= 1, TinyInv, Drop
  PROVE  TinyInv'
<1>1. /\ slot # END /\ slot' = After(slot) /\ drops = 0 /\ drops' = 1 /\ valid' = FALSE
      /\ UNCHANGED <<fields, nSent, checked, term, parity, isChecksum, termNumber, sentenceType, isGood, new, fix>>
  BY TinyAssumption DEF Drop, TinyInv, TinyType
<1>2. slot \in 1..15
  BY <1>1 DEF TinyInv, TinyType, END
<1>3. nSent \in Nat /\ nSent > 0 /\ Worded(fields, nSent)
  BY <1>2 DEF TinyInv, TinyType, END
<1>4. TinyType' /\ nSent' > 0 /\ nSent' \in Nat
  <2>1. /\ isChecksum' \in BOOLEAN /\ isGood' \in BOOLEAN /\ valid' \in BOOLEAN
        /\ termNumber' \in 0..255 /\ DOMAIN new' = Field /\ DOMAIN fix' = Field /\ drops' \in 0..1
    <3>1. isChecksum' = isChecksum /\ isGood' = isGood /\ valid' = FALSE
      BY <1>1
    <3>2. isChecksum' \in BOOLEAN /\ isGood' \in BOOLEAN /\ valid' \in BOOLEAN
      BY <3>1 DEF TinyInv, TinyType
    <3>3. termNumber' \in 0..255 /\ DOMAIN new' = Field /\ DOMAIN fix' = Field /\ drops' \in 0..1
      BY <1>1 DEF TinyInv, TinyType
    <3> QED BY <3>2, <3>3
  <2> QED BY <1>1, <1>2, <2>1, PassType
<1>5. FixAsSent'
  BY <1>1 DEF FixAsSent
<1>6. SumOf(fields)' = SumOf(fields)
  BY <1>1 DEF SumOf
<1>7. \A k : Marked(k)' <=> Marked(k)
  BY <1>1 DEF Marked
<1>8. CASE slot = 1
  <2>1. slot' = 2
    <3>1. After(slot) \in slot + 1 .. slot + 2 /\ (After(slot) = slot + 2 => slot \in {5, 7})
      BY <1>2, <1>3, Slots
    <3> QED BY <1>1, <1>8, <3>1
  <2>2. (nSent = 1 /\ Fresh) \/ Marked(nSent - 1)
    BY <1>8 DEF TinyInv
  <2>3. isChecksum' => Comma \in parity'
    BY <1>1, <1>8 DEF TinyInv
  <2>4. CASE Fresh
    <3>1. Body(slot)' = {}
      <4>1. {m \in 1..6 : 2*m < 2} = {} /\ (2 \div 2) % 2 # 0
        OBVIOUS
      <4> QED BY <2>1, <4>1 DEF Body
    <3>2. Aligned'
      BY <1>1, <2>1, <2>4, <3>1 DEF Aligned, Fresh
    <3> QED BY <1>4, <1>5, <2>1, <2>3, <3>2 DEF TinyInv
  <2>5. CASE Marked(nSent - 1)
    <3>1. Alien'
      BY <1>1, <2>1, <2>5 DEF Alien, Marked
    <3> QED BY <1>4, <1>5, <2>1, <2>3, <3>1 DEF TinyInv
  <2> QED BY <2>2, <2>4, <2>5
<1>9. CASE slot \in 2..12
  <2>1. Aligned /\ Token(slot) # Empty
    BY <1>1, <1>9 DEF TinyInv, TinyType, Off, Alien
  <2>2. After(slot) \in slot + 1 .. 13 /\ Body(After(slot)) = Toggle(Body(slot), Token(slot))
    BY <1>3, <1>9, <2>1, BodyNext
  <2>3. Body(slot)' = Toggle(Body(slot), Token(slot))
    BY <1>1, <2>2 DEF Body
  <2>4. parity' = Toggle(Body(slot)', Token(slot))
    BY <1>1, <2>1, <2>3, ToggleSwap DEF Aligned
  <2>5. Token(slot) \in SumOf(fields)
    BY <1>3, <1>9, <2>1, TokenCovered
  <2>6. Off' /\ ~isChecksum'
    BY <1>1, <1>6, <2>1, <2>4, <2>5 DEF Off, Aligned
  <2>7. slot' \in 3..13
    BY <1>1, <1>9, <2>2
  <2> QED BY <1>4, <1>5, <2>6, <2>7 DEF TinyInv
<1>10. CASE slot = 13
  <2>1. slot' = 14
    BY <1>1, <1>10 DEF After
  <2>2. Aligned
    BY <1>1, <1>10 DEF TinyInv, Off, Alien
  <2>3. parity = SumOf(fields) /\ ~isChecksum'
    BY <1>1, <1>10, <2>2, BodyWhole DEF Aligned
  <2>4. Marked(nSent)'
    BY <1>1, <1>3, <1>7, <2>3, SumMarks DEF Marked
  <2> QED BY <1>1, <1>4, <1>5, <2>1, <2>3, <2>4 DEF TinyInv
<1>11. CASE slot = 14
  <2>1. slot' = 15
    BY <1>1, <1>11 DEF After
  <2>2. isChecksum /\ term = <<>> /\ Marked(nSent)
    BY <1>1, <1>3, <1>11 DEF TinyInv
  <2>3. Marked(nSent)' /\ term' = <<>>
    BY <1>1, <2>2 DEF Marked
  <2> QED BY <1>1, <1>4, <1>5, <2>1, <2>3 DEF TinyInv
<1>12. CASE slot = 15
  <2>1. slot' = 16
    BY <1>1, <1>12 DEF After
  <2>2. parity = SumOf(fields) /\ Marked(nSent)
    BY <1>1, <1>3, <1>12 DEF TinyInv
  <2>3. Marked(nSent)' /\ Comma \in parity'
    BY <1>1, <2>2 DEF Marked, SumOf
  <2> QED BY <1>1, <1>4, <1>5, <2>1, <2>3 DEF TinyInv
<1> QED BY <1>2, <1>8, <1>9, <1>10, <1>11, <1>12

(* Nothing has been sent. *)
LEMMA TinyInvInit == TinyInit => TinyInv
<1> SUFFICES ASSUME TinyInit PROVE TinyInv
  OBVIOUS
<1>1. slot = 16 /\ nSent = 0 /\ drops = 0 /\ termNumber = 0 /\ term = <<>> /\ parity = {} /\ new = NoFix /\ fix = NoFix
  BY DEF TinyInit, END
<1>2. isChecksum = FALSE /\ isGood = FALSE /\ valid = FALSE
  BY DEF TinyInit
<1>3. isChecksum \in BOOLEAN /\ isGood \in BOOLEAN /\ valid \in BOOLEAN
  BY <1>2, Zenon
<1>4. DOMAIN NoFix = Field
  BY DEF NoFix
<1>5. TinyType
  BY <1>1, <1>3, <1>4 DEF TinyType, END
<1>6. FixAsSent
  BY <1>2, Zenon DEF FixAsSent
<1>7. Fresh
  BY <1>1, <1>2, Zenon DEF Fresh
<1> QED BY <1>1, <1>2, <1>5, <1>6, <1>7 DEF TinyInv

(* gps_encode finds no sentence valid, and commits no value, that the      *)
(* receiver did not send so, however many sentences come and wherever each *)
(* of them loses a token, its '$' or the end of its line included.  Two    *)
(* lost tokens can cancel in the checksum, hence the hypothesis.           *)
THEOREM FixesAsSent ==
  ASSUME MAX_DROP <= 1
  PROVE  TinySpec => []FixAsSent
<1>1. TinyInv /\ [TinyNext]_Tinyvars => TinyInv'
  <2> SUFFICES ASSUME TinyInv, [TinyNext]_Tinyvars PROVE TinyInv'
    OBVIOUS
  <2>1. CASE Send
    BY <2>1, SendStep
  <2>2. CASE Drop
    BY <2>2, DropStep
  <2>3. CASE Encode
    <3>1. slot \in 1..15
      BY <2>3 DEF Encode, TinyInv, TinyType, END
    <3> QED BY <2>3, <3>1, BeginStep, BodyStep, StarStep, SumStep, EndStep
  <2>4. CASE UNCHANGED Tinyvars
    <3>1. UNCHANGED <<slot, fields, drops, nSent, checked, term, parity, isChecksum, termNumber, sentenceType,
                      isGood, new, fix, valid>>
      BY <2>4 DEF Tinyvars, receiver
    <3>2. Worded(fields, nSent)' <=> Worded(fields, nSent)
      BY <3>1 DEF Worded
    <3>3. Token(slot)' = Token(slot) /\ Body(slot)' = Body(slot) /\ SumOf(fields)' = SumOf(fields)
      BY <3>1 DEF Token, Body, SumOf
    <3>4. (Marked(nSent)' <=> Marked(nSent)) /\ (Marked(nSent - 1)' <=> Marked(nSent - 1)) /\ (Fresh' <=> Fresh)
      BY <3>1 DEF Marked, Fresh
    <3>5. /\ Complete(fields)' <=> Complete(fields)
          /\ TypeKnown(fields)' <=> TypeKnown(fields)
          /\ Values(fields, slot \div 2 - 2)' <=> Values(fields, slot \div 2 - 2)
      BY <3>1 DEF Complete, TypeKnown, Values
    <3>6. (Aligned' <=> Aligned) /\ (Off' <=> Off) /\ (Alien' <=> Alien)
      BY <3>1, <3>3, <3>4, <3>5 DEF Aligned, Off, Alien
    <3>7. FixAsSent' <=> FixAsSent
      BY <3>1 DEF FixAsSent, Committed
    <3>8. TinyType' <=> TinyType
      BY <3>1, <3>2, <3>3 DEF TinyType
    <3> QED BY <3>1, <3>3, <3>4, <3>5, <3>6, <3>7, <3>8 DEF TinyInv
  <2> QED BY <2>1, <2>2, <2>3, <2>4 DEF TinyNext
<1>2. TinyInv => FixAsSent
  BY DEF TinyInv
<1> QED BY <1>1, <1>2, TinyInvInit, PTL DEF TinySpec
============================================================================
