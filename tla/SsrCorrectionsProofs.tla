------------------------ MODULE SsrCorrectionsProofs -------------------------
(***************************************************************************)
(* Proofs about SsrCorrections, for any satellites, update interval,       *)
(* ephemerides and delays within half a week.                              *)
(***************************************************************************)
EXTENDS SsrCorrections, TLAPS

------------------------------------------------------------------------------
(* Times of the week *)

(* Division by the length of a week. *)
LEMMA WeekAndTime ==
    ASSUME NEW t \in Nat
    PROVE  /\ t \div Week \in Nat /\ t % Week \in Nat
           /\ t = (t \div Week) * Week + (t % Week)
           /\ t % Week < Week
  BY ConstantsAssumption, SMTT(20)

LEMMA WeeksApart ==
    ASSUME NEW p \in Nat, NEW q \in Nat, p < q
    PROVE  p * Week + Week <= q * Week
  BY ConstantsAssumption, SMTT(20)

(* setTime of common/acsStream.cpp: the reference time of a message comes  *)
(* out right from its time of the week while the message is not too old.   *)
LEMMA SetTimeRecovers ==
    ASSUME NEW t \in Nat, now \in Nat, t <= now,
           now <= t + MaxDelay + 2 * MaxKept
    PROVE  SetTime(ReferenceTime(TimeOfWeek(t))) = ReferenceTime(t)
<1> DEFINE p == t \div Week
           q == now \div Week
           r == t % Week
           n == now % Week
           x == r + UdiNumEpochs
           late == MaxDelay + 2 * MaxKept
<1>1. /\ UdiNumEpochs \in Nat /\ Week \in Nat /\ Week > 0 /\ late \in Nat
      /\ 2 * UdiNumEpochs <= Week /\ 2 * (late - UdiNumEpochs) < Week
      /\ now <= t + late
  BY ConstantsAssumption
<1>2. /\ p \in Nat /\ r \in Nat /\ r < Week /\ t = p * Week + r
      /\ q \in Nat /\ n \in Nat /\ n < Week /\ now = q * Week + n
  BY WeekAndTime
<1>3. p * Week \in Nat /\ q * Week \in Nat
  BY <1>1, <1>2
<1> HIDE DEF p, q, r, n, late
<1>4. q = p \/ q = p + 1
  <2>1. ~(q < p)
    BY <1>1, <1>2, <1>3, WeeksApart
  <2>2. ~(p + 1 < q)
    <3> SUFFICES ASSUME p + 1 < q PROVE FALSE
      OBVIOUS
    <3>1. p * Week + Week <= (p + 1) * Week
      BY <1>2, WeeksApart
    <3>2. (p + 1) * Week + Week <= q * Week
      BY <1>2, WeeksApart
    <3>3. (p + 1) * Week \in Nat
      BY <1>1, <1>2
    <3> QED
      BY <1>1, <1>2, <1>3, <3>1, <3>2, <3>3
  <2> QED
    BY <1>2, <2>1, <2>2
<1>5. CASE q = p
  <2>1. x - n = t + UdiNumEpochs - now
    BY <1>1, <1>2, <1>3, <1>5
  <2>2. ~(2 * (n - x) > Week) /\ ~(2 * (x - n) > Week)
    BY <1>1, <1>2, <2>1
  <2>3. q * Week + x = t + UdiNumEpochs
    BY <1>1, <1>2, <1>3, <1>5
  <2> QED
    BY <2>2, <2>3 DEF SetTime, ReferenceTime, TimeOfWeek, q, n, r
<1>6. CASE q = p + 1
  <2>1. q * Week = p * Week + Week
    BY <1>1, <1>2, <1>6, SMTT(20)
  <2>2. x - n = t + UdiNumEpochs - now + Week
    BY <1>1, <1>2, <1>3, <2>1
  <2>3. ~(2 * (n - x) > Week) /\ 2 * (x - n) > Week
    BY <1>1, <1>2, <2>2
  <2>4. q * Week + (x - Week) = t + UdiNumEpochs
    BY <1>1, <1>2, <1>3, <2>1
  <2> QED
    BY <2>3, <2>4 DEF SetTime, ReferenceTime, TimeOfWeek, q, n, r
<1> QED
  BY <1>4, <1>5, <1>6

------------------------------------------------------------------------------
(* The maps of the user *)

HasNewest(records) ==
    records # {} => \E r \in records : \A q \in records : q.t0 <= r.t0

(* Whatever time is asked for, there is a newest record before it. *)
Searchable(records) ==
    HasNewest(records) /\ \A time \in Nat : HasNewest(Before(records, time))

Timed(records) == \A r \in records : r.t0 \in Nat

Times(records) == {r.t0 : r \in records}

LEMMA NewestIs ==
    ASSUME NEW records, HasNewest(records), records # {}
    PROVE  /\ Newest(records) \in records
           /\ \A q \in records : q.t0 <= Newest(records).t0
  BY DEF HasNewest, Newest

LEMMA AddNewest ==
    ASSUME NEW records, NEW new, Timed(records), new.t0 \in Nat,
           HasNewest(records)
    PROVE  HasNewest({r \in records : r.t0 # new.t0} \cup {new})
<1> DEFINE added == {r \in records : r.t0 # new.t0} \cup {new}
<1>1. CASE records = {}
  BY <1>1 DEF HasNewest
<1>2. CASE records # {}
  <2>1. PICK top \in records : \A q \in records : q.t0 <= top.t0
    BY <1>2 DEF HasNewest
  <2>2. top.t0 \in Nat /\ \A q \in records : q.t0 \in Nat
    BY <2>1 DEF Timed
  <2>3. CASE top.t0 <= new.t0
    <3>1. \A q \in added : q.t0 <= new.t0
      BY <2>1, <2>2, <2>3
    <3> QED
      BY <3>1 DEF HasNewest
  <2>4. CASE ~(top.t0 <= new.t0)
    <3>1. top \in added /\ \A q \in added : q.t0 <= top.t0
      BY <2>1, <2>2, <2>4
    <3> QED
      BY <3>1 DEF HasNewest
  <2> QED
    BY <2>3, <2>4
<1> QED
  BY <1>1, <1>2

(* What a decoded record does to a map. *)
LEMMA InsertRecord ==
    ASSUME NEW records, NEW new, Timed(records), new.t0 \in Nat,
           Searchable(records)
    PROVE  /\ Inserted(records, new) \subseteq records \cup {new}
           /\ Timed(Inserted(records, new))
           /\ Searchable(Inserted(records, new))
           /\ Times(Inserted(records, new)) = Times(records) \cup {new.t0}
<1> DEFINE added == {r \in records : r.t0 # new.t0} \cup {new}
<1>1. CASE records # {} /\ Newest(records).t0 = new.t0
  <2>1. Inserted(records, new) = records
    BY <1>1 DEF Inserted
  <2>2. Newest(records) \in records
    BY <1>1, NewestIs DEF Searchable
  <2>3. Times(records) = Times(records) \cup {new.t0}
    BY <1>1, <2>2 DEF Times
  <2> QED
    BY <2>1, <2>3
<1>2. CASE ~(records # {} /\ Newest(records).t0 = new.t0)
  <2>1. Inserted(records, new) = added
    BY <1>2 DEF Inserted
  <2>2. added \subseteq records \cup {new}
    OBVIOUS
  <2>3. Timed(added)
    BY DEF Timed
  <2>4. HasNewest(added)
    BY AddNewest DEF Searchable
  <2>5. ASSUME NEW time \in Nat PROVE HasNewest(Before(added, time))
    <3>1. HasNewest(Before(records, time)) /\ Timed(Before(records, time))
      BY DEF Searchable, Timed, Before
    <3>2. CASE new.t0 < time
      <4>1. Before(added, time) =
              {r \in Before(records, time) : r.t0 # new.t0} \cup {new}
        BY <3>2 DEF Before
      <4> QED
        BY <3>1, <4>1, AddNewest
    <3>3. CASE ~(new.t0 < time)
      <4>1. Before(added, time) = Before(records, time)
        BY <3>3 DEF Before
      <4> QED
        BY <3>1, <4>1
    <3> QED
      BY <3>2, <3>3
  <2>6. Times(added) = Times(records) \cup {new.t0}
    BY DEF Times
  <2> QED
    BY <2>1, <2>2, <2>3, <2>4, <2>5, <2>6 DEF Searchable
<1> QED
  BY <1>1, <1>2

------------------------------------------------------------------------------
(* The inductive invariant *)

(* A message that is not too old, whose entries are published. *)
Sent(m, time, publishedNow) ==
    /\ m.epochTime1s = TimeOfWeek(UpdateTime(m.t0))
    /\ UpdateTime(m.t0) \in Nat /\ UpdateTime(m.t0) <= time
    /\ time <= m.sent + MaxDelay
    /\ m.sent <= UpdateTime(m.t0) + 2 * MaxKept
    /\ \A c \in m.entries : CorrectionOf(c, m.t0) \in publishedNow

InTransit == \A i \in 1 .. Len(channel) : Sent(channel[i], now, published)

(* Published corrections are one per satellite and update, and none is of  *)
(* an epoch to come.                                                       *)
PublishedOnce ==
    /\ \A c \in published : /\ UpdateTime(c.t0) \in Nat
                           /\ UpdateTime(c.t0) <= Tsync(epoch)
    /\ \A c, d \in published : c.sat = d.sat /\ c.t0 = d.t0 => c = d

(* The stamps whose flags an update clears. *)
Flags(out) == {out.preciseClock.at, out.precise, out.broadcast.at}

(* A flag that is set was set after the satellite's latest update. *)
FlagsAreNew ==
    \A s \in Satellites : \A p \in Flags(ssrOut[s]) : \A w \in updates[s] :
        p # 0 => w < p

SmoothedLate(clock) == clock.smoothed => RtsLag > 0 /\ clock.at > RtsLag

ClocksAreOutput == \A s \in Satellites : SmoothedLate(ssrOut[s].preciseClock)

(* Orbit and clock come and go together with their ephemeris. *)
OneEphemeris ==
    \A s \in Satellites : ssrOut[s].broadcast.at # 0 =>
        /\ ssrOut[s].nextBroadcast = ssrOut[s].broadcast
        /\ ssrOut[s].iode = ssrOut[s].broadcast.iode

(* An orbit or a clock of an update interval, as far as it is recent and   *)
(* of one ephemeris.                                                       *)
GoodOrbit(s, r) ==
    /\ Recent(r.corr.precise, s, r.t0) /\ Recent(r.corr.broadcast.at, s, r.t0)
    /\ r.corr.nextBroadcast = r.corr.broadcast

GoodClock(s, r) ==
    /\ Recent(r.corr.precise.at, s, r.t0) /\ SmoothedLate(r.corr.precise)

(* The reference time is that of an epoch, later than what is published.   *)
Unpublished(t0, e, publishedNow) ==
    /\ UpdateTime(t0) \in Nat /\ UpdateTime(t0) <= Tsync(e)
    /\ \A c \in publishedNow : c.t0 < t0

(* What waits to be encoded is one of each per satellite; for each s it is *)
(* fit to be published.                                                    *)
Fit(records, s, e) ==
    /\ \A r \in records.eph : /\ GoodOrbit(s, r)
                              /\ Unpublished(r.t0, e, published)
    /\ \A r \in records.clk : /\ GoodClock(s, r)
                              /\ Unpublished(r.t0, e, published)
    /\ \A r, q \in records.eph : r = q
    /\ \A r, q \in records.clk : r = q
    /\ \A r \in records.eph : \A q \in records.clk :
          r.t0 = q.t0 => q.corr.broadcast = r.corr.broadcast

ExportIsFit == \A s \in Satellites : Fit(export[s], s, epoch)

(* A satellite waits no longer than its counter tells. *)
WaitIsCounted ==
    \A s \in Satellites :
        /\ waiting[s] <= ssrOut[s].epochsSinceUpdate
        /\ ssrOut[s].epochsSinceUpdate <= UdiNumEpochs

(* The two maps of the user have the same times, and a newest one of any.  *)
MapsAgree ==
    \A s \in Satellites :
        /\ Times(ssr[s].eph) = Times(ssr[s].clk)
        /\ Searchable(ssr[s].eph) /\ Searchable(ssr[s].clk)

(* The latest correction used is still there, and before the user's time.  *)
ReachedIsKnown ==
    \A s \in Satellites :
        \/ reached[s] = 0
        \/ reached[s] \in Times(ssr[s].eph) /\ reached[s] < Tsync(userEpoch)

NetworkInv ==
    /\ PartsAreRecent
    /\ PublishedOnce
    /\ FlagsAreNew
    /\ ClocksAreOutput
    /\ OneEphemeris
    /\ ExportIsFit
    /\ WaitIsCounted

IInv ==
    /\ TypeOK
    /\ NetworkInv
    /\ DecodedAsPublished
    /\ InTransit
    /\ MapsAgree
    /\ ReachedIsKnown

LEMMA NetworkUnchanged ==
    ASSUME NetworkInv, UNCHANGED networkVars
    PROVE  NetworkInv'
<1>1. /\ epoch' = epoch /\ ssrOut' = ssrOut /\ export' = export
      /\ updates' = updates /\ waiting' = waiting /\ published' = published
  BY DEF networkVars
<1>2. \A p, s, t0 : Recent(p, s, t0)' <=> Recent(p, s, t0)
  BY <1>1 DEF Recent, Tsync, UpdateTime
<1>3. PartsAreRecent'
  BY <1>1, <1>2 DEF NetworkInv, PartsAreRecent, Tsync, ReferenceTime
<1>4. ExportIsFit'
  BY <1>1, <1>2 DEF NetworkInv, ExportIsFit, Fit, GoodOrbit, GoodClock,
                    Unpublished, SmoothedLate, Tsync, UpdateTime
<1>5. PublishedOnce' /\ FlagsAreNew' /\ ClocksAreOutput' /\ OneEphemeris'
      /\ WaitIsCounted'
  BY <1>1 DEF NetworkInv, PublishedOnce, FlagsAreNew, ClocksAreOutput,
              OneEphemeris, WaitIsCounted, Flags, SmoothedLate, Tsync,
              UpdateTime
<1> QED
  BY <1>3, <1>4, <1>5 DEF NetworkInv

------------------------------------------------------------------------------
(* An epoch of the network *)

LEMMA EpochTimes ==
    ASSUME NEW e \in Nat
    PROVE  /\ Tsync(e) \in Nat /\ ReferenceTime(Tsync(e)) \in Nat
           /\ UpdateTime(ReferenceTime(Tsync(e))) = Tsync(e)
           /\ \A u \in Nat : u < e => /\ Tsync(u) < Tsync(e)
                                      /\ ReferenceTime(Tsync(u))
                                            < ReferenceTime(Tsync(e))
  BY ConstantsAssumption DEF Tsync, ReferenceTime, UpdateTime

LEMMA ClockType ==
    ASSUME NEW out \in SsrOut, NEW e \in Epochs, NEW clock, StampsUpTo(e, out)
    PROVE  LET new == WithClock(out, e, clock)
           IN  /\ new \in SsrOut /\ StampsUpTo(e, new)
               /\ new.preciseClock =
                     IF clock = "nothing" THEN out.preciseClock
                     ELSE [at |-> e, smoothed |-> clock = "smoothed"]
               /\ new.broadcast = out.broadcast
               /\ new.nextBroadcast = out.nextBroadcast
               /\ new.precise = out.precise /\ new.iode = out.iode
               /\ new.epochsSinceUpdate = out.epochsSinceUpdate
<1> DEFINE stamp == [at |-> e, smoothed |-> clock = "smoothed"]
           new == WithClock(out, e, clock)
<1>1. stamp \in ClockStamps /\ stamp.at = e /\ e \in 0 .. e
  BY ConstantsAssumption DEF ClockStamps, Stamps, Epochs
<1>2. CASE clock = "nothing"
  BY <1>2 DEF WithClock
<1>3. CASE clock # "nothing"
  <2>1. new = [out EXCEPT !.preciseClock = stamp]
    BY <1>3 DEF WithClock
  <2> HIDE DEF stamp, new
  <2>2. new \in SsrOut /\ new.preciseClock = stamp
    BY <1>1, <2>1 DEF SsrOut
  <2>3. /\ new.broadcast = out.broadcast
        /\ new.nextBroadcast = out.nextBroadcast
        /\ new.precise = out.precise /\ new.iode = out.iode
        /\ new.nextPrecise = out.nextPrecise
        /\ new.epochsSinceUpdate = out.epochsSinceUpdate
    BY <2>1 DEF SsrOut
  <2>4. StampsUpTo(e, new)
    BY <1>1, <2>2, <2>3 DEF StampsUpTo
  <2> QED
    BY <1>3, <2>2, <2>3, <2>4 DEF stamp, new
<1> QED
  BY <1>2, <1>3

LEMMA OrbitsType ==
    ASSUME NEW s \in Satellites, NEW out \in SsrOut, NEW e \in Epochs,
           NEW iode \in Nat, StampsUpTo(e, out)
    PROVE  /\ WithOrbits(out, s, e, iode) \in SsrOut
           /\ StampsUpTo(e, WithOrbits(out, s, e, iode))
<1> DEFINE broadcast == [at |-> e, iode |-> iode]
           out1 == IF iode # 0
                   THEN [out EXCEPT !.broadcast = broadcast, !.iode = iode,
                                    !.nextBroadcast = broadcast]
                   ELSE out
           out2 == IF e \in Precise[s] THEN [out1 EXCEPT !.precise = e]
                   ELSE out1
           out3 == IF e + UdiNumEpochs \in Precise[s]
                   THEN [out2 EXCEPT !.nextPrecise = e] ELSE out2
<1>1. broadcast \in BroadcastStamps /\ e \in Stamps /\ e \in 0 .. e
      /\ broadcast.at = e
  BY ConstantsAssumption DEF Epochs, Stamps, BroadcastStamps
<1>2. out1 \in SsrOut /\ StampsUpTo(e, out1)
  BY <1>1 DEF SsrOut, StampsUpTo
<1>3. out2 \in SsrOut /\ StampsUpTo(e, out2)
  BY <1>1, <1>2 DEF SsrOut, StampsUpTo
<1>4. out3 \in SsrOut /\ StampsUpTo(e, out3)
  BY <1>1, <1>3 DEF SsrOut, StampsUpTo
<1> QED
  BY <1>4 DEF WithOrbits

(* What the network holds of a satellite after it has computed what an     *)
(* epoch allows: what it set is of the epoch, what it kept was set after   *)
(* the satellite's latest update, and orbit and clock are of one ephemeris.*)
Ready(s, e, out) ==
    /\ out \in SsrOut /\ StampsUpTo(e, out)
    /\ \A p \in Flags(out) : p # 0 =>
          p \in 1 .. e /\ \A w \in updates[s] : w < p
    /\ SmoothedLate(out.preciseClock)
    /\ out.broadcast.at # 0 => /\ out.nextBroadcast = out.broadcast
                               /\ out.iode = out.broadcast.iode

NothingMissing(out) ==
    /\ out.preciseClock.at # 0 /\ out.precise # 0
    /\ out.broadcast.at # 0 /\ out.nextPrecise # 0
    /\ out.nextBroadcast.at # 0

LEMMA EvaluatedIs ==
    ASSUME TypeOK, NetworkInv, NEW s \in Satellites, NEW e \in Epochs,
           e > epoch, NEW used, NEW clock,
           clock = "smoothed" => RtsLag > 0 /\ e > RtsLag,
           NEW latest, \A v \in DOMAIN latest : latest[v] \in Nat
    PROVE  /\ Ready(s, e, Evaluated(s, e, clock, latest))
           /\ Evaluated(s, e, clock, latest).epochsSinceUpdate
                = ssrOut[s].epochsSinceUpdate
           /\ AllComputed(s, e, used, clock, latest) =>
                 NothingMissing(Evaluated(s, e, clock, latest))
<1> DEFINE old == ssrOut[s]
           out0 == WithClock(old, e, clock)
           out == Evaluated(s, e, clock, latest)
<1>1. /\ e \in Nat /\ e >= 1 /\ e \in 1 .. e /\ epoch \in Nat
      /\ \A w \in updates[s] : w \in Nat /\ w < e
  <2>1. e \in Nat /\ e >= 1 /\ e \in 1 .. e /\ epoch \in Nat
    BY ConstantsAssumption DEF TypeOK, Epochs
  <2>2. updates[s] \subseteq 1 .. epoch
    BY DEF TypeOK
  <2> QED
    BY <2>1, <2>2
<1>2. old \in SsrOut /\ StampsUpTo(epoch, old)
  BY DEF TypeOK
<1>3. StampsUpTo(e, old)
  <2>1. 0 .. epoch \subseteq 0 .. e
    BY <1>1
  <2> QED
    BY <1>2, <2>1 DEF StampsUpTo
<1>4. /\ out0 \in SsrOut /\ StampsUpTo(e, out0)
      /\ out0.preciseClock = IF clock = "nothing" THEN old.preciseClock
                             ELSE [at |-> e, smoothed |-> clock = "smoothed"]
      /\ out0.broadcast = old.broadcast
      /\ out0.nextBroadcast = old.nextBroadcast
      /\ out0.precise = old.precise /\ out0.iode = old.iode
      /\ out0.epochsSinceUpdate = old.epochsSinceUpdate
  BY <1>2, <1>3, ClockType
<1>5. /\ old.broadcast.at # 0 => /\ old.nextBroadcast = old.broadcast
                                 /\ old.iode = old.broadcast.iode
      /\ \A p \in Flags(old) : \A w \in updates[s] : p # 0 => w < p
      /\ SmoothedLate(old.preciseClock)
  BY DEF NetworkInv, OneEphemeris, FlagsAreNew, ClocksAreOutput
<1> HIDE DEF out0, old
<1>6. /\ SmoothedLate(out0.preciseClock)
      /\ out0.preciseClock.at \in {e, old.preciseClock.at}
      /\ clock # "nothing" => out0.preciseClock.at = e
  <2>1. CASE clock = "nothing"
    BY <1>4, <1>5, <2>1
  <2>2. CASE clock = "smoothed"
    BY <1>4, <2>2 DEF SmoothedLate
  <2>3. CASE clock # "nothing" /\ clock # "smoothed"
    <3>1. out0.preciseClock = [at |-> e, smoothed |-> FALSE]
      BY <1>4, <2>3
    <3> QED
      BY <2>3, <3>1 DEF SmoothedLate
  <2> QED
    BY <2>1, <2>2, <2>3
<1>7. /\ out \in SsrOut /\ StampsUpTo(e, out)
      /\ out.epochsSinceUpdate = out0.epochsSinceUpdate
      /\ out.preciseClock = out0.preciseClock
      /\ out.precise \in {e, out0.precise}
      /\ \/ /\ out.broadcast.at = e /\ out.nextBroadcast = out.broadcast
            /\ out.iode = out.broadcast.iode
         \/ /\ out.broadcast = out0.broadcast /\ out.iode = out0.iode
            /\ out.nextBroadcast = out0.nextBroadcast
      /\ s \in DOMAIN latest /\ latest[s] # 0 =>
            out.broadcast.at = e /\ out.nextBroadcast.at = e
      /\ s \in DOMAIN latest /\ e \in Precise[s] => out.precise = e
      /\ s \in DOMAIN latest /\ e + UdiNumEpochs \in Precise[s] =>
            out.nextPrecise = e
  <2>1. CASE s \notin DOMAIN latest
    <3>1. out = out0
      BY <2>1 DEF Evaluated, out0, old
    <3> QED
      BY <1>4, <2>1, <3>1
  <2>2. CASE s \in DOMAIN latest
    <3> DEFINE iode == latest[s]
    <3>1. out = WithOrbits(out0, s, e, iode) /\ iode \in Nat
      BY <2>2 DEF Evaluated, out0, old
    <3> HIDE DEF iode
    <3>2. out \in SsrOut /\ StampsUpTo(e, out)
      BY <1>4, <3>1, OrbitsType
    <3>3. /\ out.epochsSinceUpdate = out0.epochsSinceUpdate
          /\ out.preciseClock = out0.preciseClock
          /\ out.precise = IF e \in Precise[s] THEN e ELSE out0.precise
          /\ e + UdiNumEpochs \in Precise[s] => out.nextPrecise = e
          /\ iode # 0 => /\ out.broadcast = [at |-> e, iode |-> iode]
                         /\ out.nextBroadcast = [at |-> e, iode |-> iode]
                         /\ out.iode = iode
          /\ iode = 0 => /\ out.broadcast = out0.broadcast
                         /\ out.nextBroadcast = out0.nextBroadcast
                         /\ out.iode = out0.iode
      BY <1>4, <3>1 DEF WithOrbits, SsrOut
    <3>4. CASE iode # 0
      BY <3>2, <3>3, <3>4 DEF iode
    <3>5. CASE iode = 0
      BY <3>2, <3>3, <3>5 DEF iode
    <3> QED
      BY <3>4, <3>5
  <2> QED
    BY <2>1, <2>2
<1> HIDE DEF out
<1>8. ASSUME NEW p \in Flags(out), p # 0
      PROVE  p \in 1 .. e /\ \A w \in updates[s] : w < p
  <2>1. p = e \/ p \in Flags(old)
    BY <1>4, <1>6, <1>7 DEF Flags
  <2>2. \A w \in updates[s] : w < p
    BY <1>1, <1>5, <1>8, <2>1
  <2>3. p \in 0 .. e
    BY <1>7 DEF Flags, StampsUpTo
  <2> QED
    BY <1>1, <1>8, <2>2, <2>3
<1>9. out.broadcast.at # 0 => /\ out.nextBroadcast = out.broadcast
                              /\ out.iode = out.broadcast.iode
  BY <1>4, <1>5, <1>7
<1>10. AllComputed(s, e, used, clock, latest) =>
          /\ out.preciseClock.at # 0 /\ out.precise # 0
          /\ out.broadcast.at # 0 /\ out.nextPrecise # 0
          /\ out.nextBroadcast.at # 0
  BY <1>1, <1>6, <1>7 DEF AllComputed
<1> QED
  BY <1>4, <1>6, <1>7, <1>8, <1>9, <1>10 DEF out, old, Ready, NothingMissing

(* The end of an epoch for a satellite with an entry in nav.satNavMap: an  *)
(* update clears all flags but those for the end of the interval.          *)
LEMMA AfterUpdateIs ==
    ASSUME NEW out \in SsrOut, NEW e \in Nat, StampsUpTo(e, out),
           out.epochsSinceUpdate <= UdiNumEpochs
    PROVE  LET after == AfterUpdate(out)
           IN  /\ after \in SsrOut /\ StampsUpTo(e, after)
               /\ after.epochsSinceUpdate \in 1 .. UdiNumEpochs
               /\ UpdateDue(out) => /\ Flags(after) = {0}
                                    /\ after.preciseClock = UnsetClock
               /\ ~UpdateDue(out) =>
                     /\ after.preciseClock = out.preciseClock
                     /\ after.precise = out.precise
                     /\ after.broadcast = out.broadcast
                     /\ after.nextBroadcast = out.nextBroadcast
                     /\ after.iode = out.iode
                     /\ after.epochsSinceUpdate = out.epochsSinceUpdate + 1
<1> DEFINE cleared == Cleared(out)
           after == AfterUpdate(out)
<1>1. UdiNumEpochs \in Nat /\ UdiNumEpochs >= 1
  BY ConstantsAssumption
<1>2. /\ Unset \in BroadcastStamps /\ Unset.at = 0 /\ 0 \in Stamps
      /\ UnsetClock \in ClockStamps /\ UnsetClock.at = 0 /\ 0 \in 0 .. e
  BY ConstantsAssumption
     DEF Unset, BroadcastStamps, UnsetClock, ClockStamps, Stamps
<1>3. CASE UpdateDue(out)
  <2>1. cleared \in SsrOut
    BY <1>2 DEF Cleared, SsrOut
  <2>2. /\ cleared.preciseClock = UnsetClock /\ cleared.broadcast = Unset
        /\ cleared.precise = 0 /\ cleared.epochsSinceUpdate = 0
        /\ cleared.nextPrecise = out.nextPrecise
        /\ cleared.nextBroadcast = out.nextBroadcast
    BY DEF Cleared, SsrOut
  <2>3. after = [cleared EXCEPT !.epochsSinceUpdate = @ + 1]
    BY <1>3 DEF AfterUpdate, Counted
  <2> HIDE DEF cleared, after
  <2>4. /\ after \in SsrOut
        /\ after.preciseClock = UnsetClock /\ after.broadcast = Unset
        /\ after.precise = 0 /\ after.epochsSinceUpdate = 1
        /\ after.nextPrecise = out.nextPrecise
        /\ after.nextBroadcast = out.nextBroadcast
    BY <2>1, <2>2, <2>3 DEF SsrOut
  <2>5. StampsUpTo(e, after) /\ Flags(after) = {0}
    BY <1>2, <2>4 DEF StampsUpTo, Flags
  <2> QED
    BY <1>1, <1>3, <2>4, <2>5 DEF after
<1>4. CASE ~UpdateDue(out)
  <2>1. after = [out EXCEPT !.epochsSinceUpdate = @ + 1]
    BY <1>4 DEF AfterUpdate, Counted
  <2> HIDE DEF after
  <2>2. /\ after \in SsrOut
        /\ after.preciseClock = out.preciseClock
        /\ after.precise = out.precise /\ after.broadcast = out.broadcast
        /\ after.nextPrecise = out.nextPrecise
        /\ after.nextBroadcast = out.nextBroadcast /\ after.iode = out.iode
        /\ after.epochsSinceUpdate = out.epochsSinceUpdate + 1
    BY <2>1 DEF SsrOut
  <2>3. out.epochsSinceUpdate \in Nat /\ out.epochsSinceUpdate < UdiNumEpochs
    BY <1>1, <1>4 DEF UpdateDue, SsrOut
  <2>4. StampsUpTo(e, after)
    BY <2>2 DEF StampsUpTo
  <2> QED
    BY <1>1, <1>4, <2>2, <2>3, <2>4 DEF after
<1> QED
  BY <1>3, <1>4

(* What may be exported after calcSsrCorrections: what was kept back, and  *)
(* what this epoch's updates add.                                          *)
LEMMA ExportedIs ==
    ASSUME TypeOK, NetworkInv, NEW s \in Satellites, NEW e \in Epochs,
           e > epoch, NEW out, Ready(s, e, out), NEW observed \in BOOLEAN
    PROVE  LET ephs == ExportedOrbits(s, e, out, observed)
               clks == ExportedClocks(s, e, out, observed)
               t0 == ReferenceTime(Tsync(e))
           IN  /\ ephs \subseteq OrbitRecords /\ clks \subseteq ClockRecords
               /\ Fit([eph |-> ephs, clk |-> clks], s, e)
               /\ \A r \in ephs : \/ r.t0 = t0 /\ r.corr.iode = r.corr.broadcast.iode
                                  \/ r.t0 # t0 /\ \E q \in export[s].eph : q.t0 = r.t0
               /\ \A r \in clks : \/ r.t0 = t0
                                  \/ r.t0 # t0 /\ r \in export[s].clk
<1> DEFINE ephs == ExportedOrbits(s, e, out, observed)
           clks == ExportedClocks(s, e, out, observed)
           t0 == ReferenceTime(Tsync(e))
           orbit == [t0 |-> t0, corr |-> OrbitOf(out)]
           clock == [t0 |-> t0, corr |-> ClockOf(out)]
           newOrbit == UpdateDue(out) /\ OrbitReady(out, observed)
           newClock == UpdateDue(out) /\ ClockReady(out, observed)
           Later(r) == [t0 |-> r.t0, corr |-> [r.corr EXCEPT !.iode = out.iode]]
<1>0. /\ out \in SsrOut /\ StampsUpTo(e, out)
      /\ \A p \in Flags(out) : p # 0 =>
            p \in 1 .. e /\ \A w \in updates[s] : w < p
      /\ SmoothedLate(out.preciseClock)
      /\ out.broadcast.at # 0 => /\ out.nextBroadcast = out.broadcast
                                 /\ out.iode = out.broadcast.iode
  BY DEF Ready
<1>1. /\ e \in Nat /\ epoch \in Nat /\ epoch < e
  BY ConstantsAssumption DEF TypeOK, Epochs
<1>2. /\ Tsync(e) \in Nat /\ t0 \in Nat /\ UpdateTime(t0) = Tsync(e)
      /\ Tsync(epoch) \in Nat /\ Tsync(epoch) < Tsync(e)
      /\ ReferenceTime(Tsync(epoch)) \in Nat
      /\ ReferenceTime(Tsync(epoch)) < t0
  BY <1>1, EpochTimes
<1>3. /\ Fit(export[s], s, epoch)
      /\ export[s].eph \subseteq OrbitRecords
      /\ export[s].clk \subseteq ClockRecords
  BY DEF NetworkInv, ExportIsFit, TypeOK, Records
<1>4. \A c \in published : c.t0 < t0
  <2>1. \A c \in published : UpdateTime(c.t0) <= Tsync(epoch) /\ c.t0 \in Nat
    BY DEF NetworkInv, PublishedOnce, TypeOK, Corrections
  <2>2. UdiNumEpochs \in Nat
    BY ConstantsAssumption
  <2> QED
    BY <1>2, <2>1, <2>2 DEF UpdateTime, ReferenceTime
<1>5. Unpublished(t0, e, published)
  BY <1>2, <1>4 DEF Unpublished
<1>6. \A p \in Flags(out) : p # 0 => Recent(p, s, t0)
  <2> SUFFICES ASSUME NEW p \in Flags(out), p # 0 PROVE Recent(p, s, t0)
    OBVIOUS
  <2>1. p \in 1 .. e /\ \A w \in updates[s] : w < p
    BY <1>0
  <2>2. Tsync(p) <= Tsync(e)
    BY <1>1, <2>1 DEF Tsync
  <2> QED
    BY <1>2, <2>1, <2>2 DEF Recent
<1>7. out.iode \in Nat /\ OrbitOf(out) \in Orbits /\ ClockOf(out) \in Clocks
  BY <1>0 DEF SsrOut, OrbitOf, ClockOf, Orbits, Clocks
<1>8. orbit \in OrbitRecords /\ clock \in ClockRecords
  BY <1>2, <1>7 DEF OrbitRecords, ClockRecords
<1>9. newOrbit => /\ GoodOrbit(s, orbit)
                  /\ orbit.corr.iode = orbit.corr.broadcast.iode
                  /\ out.broadcast.at # 0
  <2> SUFFICES ASSUME newOrbit
               PROVE  /\ GoodOrbit(s, orbit)
                      /\ orbit.corr.iode = orbit.corr.broadcast.iode
                      /\ out.broadcast.at # 0
    OBVIOUS
  <2>1. out.precise # 0 /\ out.broadcast.at # 0
    BY DEF OrbitReady
  <2>2. out.precise \in Flags(out) /\ out.broadcast.at \in Flags(out)
    BY DEF Flags
  <2>3. /\ orbit.t0 = t0 /\ orbit.corr.precise = out.precise
        /\ orbit.corr.broadcast = out.broadcast
        /\ orbit.corr.nextBroadcast = out.nextBroadcast
        /\ orbit.corr.iode = out.iode
    BY DEF OrbitOf
  <2> HIDE DEF t0, orbit, newOrbit
  <2> QED
    BY <1>0, <1>6, <2>1, <2>2, <2>3 DEF GoodOrbit
<1>10. newClock => GoodClock(s, clock)
  <2> SUFFICES ASSUME newClock PROVE GoodClock(s, clock)
    OBVIOUS
  <2>1. out.preciseClock.at # 0
    BY DEF ClockReady
  <2>2. out.preciseClock.at \in Flags(out)
    BY DEF Flags
  <2>3. clock.t0 = t0 /\ clock.corr.precise = out.preciseClock
    BY DEF ClockOf
  <2> HIDE DEF t0, clock, newClock
  <2> QED
    BY <1>0, <1>6, <2>1, <2>2, <2>3 DEF GoodClock
<1>11. ASSUME NEW r \in export[s].eph
       PROVE  /\ Later(r) \in OrbitRecords
              /\ GoodOrbit(s, Later(r)) /\ Unpublished(r.t0, e, published)
              /\ Later(r).t0 = r.t0 /\ r.t0 # t0
              /\ Later(r).corr.broadcast = r.corr.broadcast
  <2>1. /\ GoodOrbit(s, r) /\ Unpublished(r.t0, epoch, published)
        /\ r \in OrbitRecords
    BY <1>3 DEF Fit
  <2>2. r.t0 \in Nat /\ r.corr \in Orbits
    BY <2>1 DEF OrbitRecords
  <2>3. /\ Later(r).corr \in Orbits /\ Later(r).t0 = r.t0
        /\ Later(r).corr.precise = r.corr.precise
        /\ Later(r).corr.broadcast = r.corr.broadcast
        /\ Later(r).corr.nextBroadcast = r.corr.nextBroadcast
    BY <1>7, <2>2 DEF Orbits
  <2>4. Later(r) \in OrbitRecords
    BY <2>2, <2>3 DEF OrbitRecords
  <2>5. UpdateTime(r.t0) \in Nat /\ UpdateTime(r.t0) <= Tsync(epoch)
        /\ \A c \in published : c.t0 < r.t0
    BY <2>1 DEF Unpublished
  <2>6. UpdateTime(r.t0) <= Tsync(e) /\ UpdateTime(r.t0) # UpdateTime(t0)
    BY <1>2, <2>5
  <2> HIDE DEF Later, t0
  <2> QED
    BY <2>1, <2>3, <2>4, <2>5, <2>6 DEF GoodOrbit, Unpublished
<1>12. ASSUME NEW r \in export[s].clk
       PROVE  /\ GoodClock(s, r) /\ Unpublished(r.t0, e, published)
              /\ r.t0 # t0
  <2>1. GoodClock(s, r) /\ Unpublished(r.t0, epoch, published)
    BY <1>3 DEF Fit
  <2>2. UpdateTime(r.t0) \in Nat /\ UpdateTime(r.t0) <= Tsync(epoch)
        /\ \A c \in published : c.t0 < r.t0
    BY <2>1 DEF Unpublished
  <2>3. UpdateTime(r.t0) <= Tsync(e) /\ UpdateTime(r.t0) # UpdateTime(t0)
    BY <1>2, <2>2
  <2> HIDE DEF t0
  <2> QED
    BY <2>1, <2>2, <2>3 DEF Unpublished
<1>13. /\ newOrbit => ephs = {orbit}
       /\ ~newOrbit => ephs = {Later(r) : r \in export[s].eph}
       /\ newClock => clks = {clock}
       /\ ~newClock => clks = export[s].clk
  BY DEF ExportedOrbits, ExportedClocks
<1>14. orbit.t0 = t0 /\ clock.t0 = t0
       /\ orbit.corr.broadcast = out.broadcast
       /\ clock.corr.broadcast = out.broadcast
  BY DEF OrbitOf, ClockOf
<1> HIDE DEF ephs, clks, t0, orbit, clock, newOrbit, newClock, Later
<1>15. ephs \subseteq OrbitRecords /\ clks \subseteq ClockRecords
  BY <1>3, <1>8, <1>11, <1>13
<1>16. ASSUME NEW r \in ephs
       PROVE  /\ GoodOrbit(s, r) /\ Unpublished(r.t0, e, published)
              /\ \/ /\ newOrbit /\ r = orbit
                 \/ /\ ~newOrbit /\ r.t0 # t0
                    /\ \E q \in export[s].eph : r = Later(q)
  BY <1>5, <1>9, <1>11, <1>13, <1>14
<1>17. ASSUME NEW r \in clks
       PROVE  /\ GoodClock(s, r) /\ Unpublished(r.t0, e, published)
              /\ \/ newClock /\ r = clock
                 \/ ~newClock /\ r.t0 # t0 /\ r \in export[s].clk
  BY <1>5, <1>10, <1>12, <1>13, <1>14
<1>18. (\A r, q \in ephs : r = q) /\ (\A r, q \in clks : r = q)
  <2>1. (\A r, q \in export[s].eph : r = q) /\ (\A r, q \in export[s].clk : r = q)
    BY <1>3 DEF Fit
  <2> QED
    BY <1>13, <2>1
<1>19. ASSUME NEW r \in ephs, NEW q \in clks, r.t0 = q.t0
       PROVE  q.corr.broadcast = r.corr.broadcast
  <2>1. CASE r = orbit /\ q = clock
    BY <1>14, <2>1
  <2>2. CASE ~(r = orbit /\ q = clock)
    <3>1. r.t0 # t0 /\ ~newOrbit /\ ~newClock /\ q \in export[s].clk
      BY <1>14, <1>16, <1>17, <1>19, <2>2
    <3>2. PICK k \in export[s].eph : r = Later(k)
      BY <1>16, <3>1
    <3>3. k.t0 = r.t0 /\ r.corr.broadcast = k.corr.broadcast
      BY <1>11, <3>2
    <3>4. \A a \in export[s].eph : \A b \in export[s].clk :
              a.t0 = b.t0 => b.corr.broadcast = a.corr.broadcast
      BY <1>3 DEF Fit
    <3> QED
      BY <1>19, <3>1, <3>3, <3>4
  <2> QED
    BY <2>1, <2>2
<1>20. Fit([eph |-> ephs, clk |-> clks], s, e)
  BY <1>16, <1>17, <1>18, <1>19 DEF Fit
<1>21. \A r \in ephs : \/ r.t0 = t0 /\ r.corr.iode = r.corr.broadcast.iode
                       \/ r.t0 # t0 /\ \E q \in export[s].eph : q.t0 = r.t0
  BY <1>9, <1>11, <1>14, <1>16
<1>22. \A r \in clks : r.t0 = t0 \/ (r.t0 # t0 /\ r \in export[s].clk)
  BY <1>14, <1>17
<1> QED
  BY <1>15, <1>20, <1>21, <1>22 DEF ephs, clks, t0

LEMMA CommonTimesAre ==
    ASSUME NEW records, NEW t0
    PROVE  t0 \in CommonTimes(records) <=>
              /\ \E s \in Satellites : \E r \in records[s].eph : r.t0 = t0
              /\ \E s \in Satellites : \E r \in records[s].clk : r.t0 = t0
<1>1. t0 \in OrbitTimes(records) <=>
          \E s \in Satellites : \E r \in records[s].eph : r.t0 = t0
  BY DEF OrbitTimes
<1>2. t0 \in ClockTimes(records) <=>
          \E s \in Satellites : \E r \in records[s].clk : r.t0 = t0
  BY DEF ClockTimes
<1> QED
  BY <1>1, <1>2 DEF CommonTimes

(* The satellites of a message have an orbit and a clock each.             *)
LEMMA PairedAre ==
    ASSUME NEW records \in [Satellites -> Records], NEW t0,
           \A s \in Satellites : /\ \A r, q \in records[s].eph : r = q
                                 /\ \A r, q \in records[s].clk : r = q
    PROVE  /\ Paired(records, t0) \subseteq Entries
           /\ \A c \in Paired(records, t0) :
                 \E r \in records[c.sat].eph, q \in records[c.sat].clk :
                    /\ r.t0 = t0 /\ q.t0 = t0
                    /\ c.eph = r.corr /\ c.clk = q.corr
           /\ \A c, d \in Paired(records, t0) : c.sat = d.sat => c = d
<1>1. ASSUME NEW c \in Paired(records, t0)
      PROVE  \E s \in Satellites :
                \E r \in records[s].eph, q \in records[s].clk :
                    /\ r.t0 = t0 /\ q.t0 = t0
                    /\ c = [sat |-> s, eph |-> r.corr, clk |-> q.corr]
  BY DEF Paired, At
<1> DEFINE paired == Paired(records, t0)
<1> HIDE DEF paired
<1>2. ASSUME NEW c \in paired
      PROVE  /\ c \in Entries /\ c.sat \in Satellites
             /\ c = [sat |-> c.sat, eph |-> c.eph, clk |-> c.clk]
             /\ \E r \in records[c.sat].eph, q \in records[c.sat].clk :
                    /\ r.t0 = t0 /\ q.t0 = t0
                    /\ c.eph = r.corr /\ c.clk = q.corr
  <2>0. PICK s \in Satellites :
            \E r \in records[s].eph, q \in records[s].clk :
                /\ r.t0 = t0 /\ q.t0 = t0
                /\ c = [sat |-> s, eph |-> r.corr, clk |-> q.corr]
    BY <1>1, <1>2 DEF paired
  <2>1. PICK r \in records[s].eph, q \in records[s].clk :
            /\ r.t0 = t0 /\ q.t0 = t0
            /\ c = [sat |-> s, eph |-> r.corr, clk |-> q.corr]
    BY <2>0
  <2>2. r \in OrbitRecords /\ q \in ClockRecords
    BY DEF Records
  <2>3. r.corr \in Orbits /\ q.corr \in Clocks
    BY <2>2 DEF OrbitRecords, ClockRecords
  <2>4. c.sat = s /\ c.eph = r.corr /\ c.clk = q.corr /\ c \in Entries
    BY <2>1, <2>3 DEF Entries
  <2> QED
    BY <2>1, <2>4
<1>3. ASSUME NEW c \in paired, NEW d \in paired, c.sat = d.sat PROVE c = d
  <2>1. PICK r \in records[c.sat].eph, q \in records[c.sat].clk :
            c.eph = r.corr /\ c.clk = q.corr
    BY <1>2
  <2>2. PICK r2 \in records[c.sat].eph, q2 \in records[c.sat].clk :
            d.eph = r2.corr /\ d.clk = q2.corr
    BY <1>2, <1>3
  <2>3. r = r2 /\ q = q2
    BY <1>2
  <2> QED
    BY <1>2, <1>3, <2>1, <2>2, <2>3
<1> QED
  BY <1>2, <1>3 DEF paired

LEMMA NetworkStep ==
    ASSUME IInv, NEW e \in Epochs, e > epoch,
           Tsync(e) <= now, now <= Tsync(e) + MaxDelay,
           \A r \in KeptBack : Tsync(e) <= UpdateTime(r.t0) + 2 * MaxKept,
           NEW used \in SUBSET Satellites, NEW clocks,
           \A s \in Satellites :
               clocks[s] = "smoothed" => RtsLag > 0 /\ e > RtsLag,
           NEW latest, DOMAIN latest \subseteq Satellites,
           \A s \in DOMAIN latest : latest[s] \in Nat,
           NEW opened \in BOOLEAN,
           NetworkEpoch(e, used, clocks, latest, opened)
    PROVE  IInv' /\ [Service!ServiceNext]_Service!serviceVars
<1> DEFINE outs == [s \in Satellites |-> Evaluated(s, e, clocks[s], latest)]
           records == Exported(e, outs, used)
           now0 == ReferenceTime(Tsync(e))
           Complete(s) == AllComputed(s, e, used, clocks[s], latest)
<1>1. /\ epoch' = e
      /\ satNavs' = satNavs \cup DOMAIN latest
      /\ clocked' = clocked \cup used
      /\ ssrOut' = [s \in Satellites |->
            IF s \in satNavs' THEN AfterUpdate(outs[s]) ELSE outs[s]]
      /\ updates' = [s \in Satellites |->
            IF s \in satNavs' /\ UpdateDue(outs[s])
            THEN updates[s] \cup {e} ELSE updates[s]]
      /\ EncodeToFile(e, records, opened)
      /\ waiting' = [s \in Satellites |->
            IF /\ Complete(s) /\ opened /\ KeptBack = {}
               /\ \A c \in published' \ published : c.sat # s
            THEN waiting[s] + 1 ELSE 0]
      /\ now' = now /\ ssr' = ssr
      /\ userEpoch' = userEpoch /\ applied' = applied /\ reached' = reached
  BY DEF NetworkEpoch, userVars
<1>2. TypeOK /\ NetworkInv /\ e \in Nat /\ epoch \in Nat /\ e <= MaxEpoch
      /\ e \in 0 .. MaxEpoch /\ e >= 1 /\ now \in Nat /\ MaxKept \in Nat
  <2>1. TypeOK /\ NetworkInv
    BY DEF IInv
  <2>2. e \in Nat /\ e <= MaxEpoch /\ e \in 0 .. MaxEpoch /\ e >= 1
        /\ MaxKept \in Nat
    BY ConstantsAssumption DEF Epochs
  <2>3. epoch \in Nat /\ now \in Nat
    BY <2>1, ConstantsAssumption DEF TypeOK
  <2> QED
    BY <2>1, <2>2, <2>3
<1>3. ASSUME NEW s \in Satellites
      PROVE  /\ Ready(s, e, outs[s])
             /\ outs[s].epochsSinceUpdate = ssrOut[s].epochsSinceUpdate
             /\ Complete(s) => NothingMissing(outs[s])
  <2> DEFINE clock == clocks[s]
  <2>1. clock = "smoothed" => RtsLag > 0 /\ e > RtsLag
    OBVIOUS
  <2>2. outs[s] = Evaluated(s, e, clock, latest)
        /\ (Complete(s) <=> AllComputed(s, e, used, clock, latest))
    OBVIOUS
  <2> HIDE DEF clock, outs, Complete
  <2>3. /\ Ready(s, e, Evaluated(s, e, clock, latest))
        /\ Evaluated(s, e, clock, latest).epochsSinceUpdate
              = ssrOut[s].epochsSinceUpdate
        /\ AllComputed(s, e, used, clock, latest) =>
              NothingMissing(Evaluated(s, e, clock, latest))
    BY <1>2, <2>1, EvaluatedIs
  <2> QED
    BY <2>2, <2>3
<1>4. ASSUME NEW s \in Satellites
      PROVE  /\ records[s] \in Records /\ Fit(records[s], s, e)
             /\ \A r \in records[s].eph :
                   \/ r.t0 = now0 /\ r.corr.iode = r.corr.broadcast.iode
                   \/ r.t0 # now0 /\ \E q \in KeptBack : q.t0 = r.t0
             /\ \A r \in records[s].clk :
                   r.t0 = now0 \/ (r.t0 # now0 /\ r \in KeptBack)
             /\ Complete(s) /\ UpdateDue(outs[s]) =>
                   \E r \in records[s].eph, q \in records[s].clk :
                       r.t0 = now0 /\ q.t0 = now0
  <2> DEFINE out == outs[s]
             observed == s \in used
             ephs == ExportedOrbits(s, e, out, observed)
             clks == ExportedClocks(s, e, out, observed)
  <2>1. records[s] = [eph |-> ephs, clk |-> clks]
    BY DEF Exported
  <2>2. observed \in BOOLEAN
    OBVIOUS
  <2>3. Complete(s) => observed
    BY DEF AllComputed
  <2> HIDE DEF observed, outs, records, Complete
  <2>4. /\ ephs \subseteq OrbitRecords /\ clks \subseteq ClockRecords
        /\ Fit([eph |-> ephs, clk |-> clks], s, e)
        /\ \A r \in ephs :
              \/ r.t0 = now0 /\ r.corr.iode = r.corr.broadcast.iode
              \/ r.t0 # now0 /\ \E q \in export[s].eph : q.t0 = r.t0
        /\ \A r \in clks : r.t0 = now0 \/ (r.t0 # now0 /\ r \in export[s].clk)
    BY <1>2, <1>3, <2>2, ExportedIs
  <2>5. export[s].eph \subseteq KeptBack /\ export[s].clk \subseteq KeptBack
    BY DEF KeptBack
  <2>6. ASSUME Complete(s), UpdateDue(out)
        PROVE  \E r \in ephs, q \in clks : r.t0 = now0 /\ q.t0 = now0
    <3>1. OrbitReady(out, observed) /\ ClockReady(out, observed)
      BY <1>3, <2>3, <2>6 DEF OrbitReady, ClockReady, NothingMissing
    <3>2. /\ [t0 |-> now0, corr |-> OrbitOf(out)] \in ephs
          /\ [t0 |-> now0, corr |-> ClockOf(out)] \in clks
      BY <2>6, <3>1 DEF ExportedOrbits, ExportedClocks
    <3> HIDE DEF ephs, clks, now0
    <3> QED
      BY <3>2
  <2> HIDE DEF ephs, clks, now0, out
  <2>7. [eph |-> ephs, clk |-> clks] \in Records
    BY <2>4 DEF Records
  <2> QED
    BY <2>1, <2>4, <2>5, <2>6, <2>7 DEF out
<1>5. records \in [Satellites -> Records]
  <2>1. records = [s \in Satellites |-> records[s]]
    BY DEF Exported
  <2> HIDE DEF records
  <2> QED
    BY <1>4, <2>1
<1>6. ASSUME NEW s \in Satellites
      PROVE  /\ waiting[s] \in Nat
             /\ waiting[s] <= outs[s].epochsSinceUpdate
             /\ outs[s].epochsSinceUpdate <= UdiNumEpochs
             /\ outs[s].epochsSinceUpdate \in Nat
  <2>1. waiting[s] \in Nat /\ waiting[s] <= ssrOut[s].epochsSinceUpdate
        /\ ssrOut[s].epochsSinceUpdate <= UdiNumEpochs
    BY <1>2 DEF TypeOK, NetworkInv, WaitIsCounted
  <2>2. outs[s].epochsSinceUpdate = ssrOut[s].epochsSinceUpdate
        /\ outs[s] \in SsrOut
    BY <1>3 DEF Ready
  <2> HIDE DEF outs
  <2> QED
    BY <2>1, <2>2 DEF SsrOut
<1>7. ASSUME NEW s \in Satellites
      PROVE  LET after == AfterUpdate(outs[s])
                 out == outs[s]
             IN  /\ after \in SsrOut /\ StampsUpTo(e, after)
                 /\ after.epochsSinceUpdate \in 1 .. UdiNumEpochs
                 /\ UpdateDue(out) => /\ Flags(after) = {0}
                                      /\ after.preciseClock = UnsetClock
                 /\ ~UpdateDue(out) =>
                       /\ after.preciseClock = out.preciseClock
                       /\ after.precise = out.precise
                       /\ after.broadcast = out.broadcast
                       /\ after.nextBroadcast = out.nextBroadcast
                       /\ after.iode = out.iode
                       /\ after.epochsSinceUpdate = out.epochsSinceUpdate + 1
  <2> HIDE DEF outs
  <2>1. outs[s] \in SsrOut /\ StampsUpTo(e, outs[s])
        /\ outs[s].epochsSinceUpdate <= UdiNumEpochs
    BY <1>3, <1>6 DEF Ready
  <2> QED
    BY <1>2, <2>1, AfterUpdateIs
<1>8. /\ Tsync(e) \in Nat /\ now0 \in Nat /\ UpdateTime(now0) = Tsync(e)
      /\ Tsync(epoch) \in Nat /\ Tsync(epoch) < Tsync(e)
      /\ ReferenceTime(Tsync(epoch)) \in Nat
      /\ ReferenceTime(Tsync(epoch)) < now0
  BY <1>2, EpochTimes
<1>9. \A c \in published : /\ c.sat \in Satellites /\ c.t0 \in Nat
                           /\ UpdateTime(c.t0) \in Nat
                           /\ UpdateTime(c.t0) <= Tsync(epoch)
                           /\ UpdateTime(c.t0) <= Tsync(e) /\ c.t0 < now0
  <2>1. \A c \in published : /\ c.sat \in Satellites /\ c.t0 \in Nat
                            /\ UpdateTime(c.t0) \in Nat
                            /\ UpdateTime(c.t0) <= Tsync(epoch)
    BY <1>2 DEF NetworkInv, PublishedOnce, TypeOK, Corrections
  <2>2. UdiNumEpochs \in Nat
    BY ConstantsAssumption
  <2> QED
    BY <1>8, <2>1, <2>2 DEF ReferenceTime, UpdateTime
(* The updates of this epoch do not matter to what was due by now.         *)
<1>10. ASSUME NEW p, NEW s \in Satellites, NEW t0,
              UpdateTime(t0) \in Nat, UpdateTime(t0) <= Tsync(e)
       PROVE  Recent(p, s, t0)' <=> Recent(p, s, t0)
  <2>1. updates'[s] = updates[s] \/ updates'[s] = updates[s] \cup {e}
    BY <1>1
  <2>2. ~(Tsync(e) < UpdateTime(t0))
    BY <1>8, <1>10
  <2>3. Recent(p, s, t0)' <=>
           /\ p # 0 /\ Tsync(p) <= UpdateTime(t0)
           /\ \A w \in updates'[s] : Tsync(w) < UpdateTime(t0) => w < p
    BY DEF Recent, Tsync, UpdateTime
  <2> QED
    BY <2>1, <2>2, <2>3 DEF Recent
<1> HIDE DEF outs, records, now0, Complete
<1>11. \A s \in Satellites :
           /\ \A r, q \in records[s].eph : r = q
           /\ \A r, q \in records[s].clk : r = q
  BY <1>4 DEF Fit
(* What the encoder adds.                                                  *)
<1>12. PICK new :
          /\ published' = published \cup new
          /\ new \subseteq Corrections
          /\ \A c, d \in new : c.t0 = d.t0 /\ (c.sat = d.sat => c = d)
          /\ \A c \in new :
                /\ c.sat \in Satellites
                /\ \E r \in records[c.sat].eph, q \in records[c.sat].clk :
                      /\ r.t0 = c.t0 /\ q.t0 = c.t0
                      /\ c.eph = r.corr /\ c.clk = q.corr
          /\ \/ export' = records /\ new = {}
             \/ export' = [s \in Satellites |-> NoRecords]
          /\ \/ channel' = channel
             \/ \E m \in Messages :
                   /\ channel' = Append(channel, m)
                   /\ m.sent = Tsync(e)
                   /\ m.epochTime1s = TimeOfWeek(UpdateTime(m.t0))
                   /\ \A c \in m.entries : CorrectionOf(c, m.t0) \in new
                   /\ \E s \in Satellites : \E r \in records[s].clk : r.t0 = m.t0
          /\ (opened /\ KeptBack = {}) =>
                \A s \in Satellites : Complete(s) /\ UpdateDue(outs[s]) =>
                    \E c \in new : c.sat = s /\ c.t0 = now0
  <2> DEFINE Added(new) ==
          /\ published' = published \cup new
          /\ new \subseteq Corrections
          /\ \A c, d \in new : c.t0 = d.t0 /\ (c.sat = d.sat => c = d)
          /\ \A c \in new :
                /\ c.sat \in Satellites
                /\ \E r \in records[c.sat].eph, q \in records[c.sat].clk :
                      /\ r.t0 = c.t0 /\ q.t0 = c.t0
                      /\ c.eph = r.corr /\ c.clk = q.corr
          /\ \/ export' = records /\ new = {}
             \/ export' = [s \in Satellites |-> NoRecords]
          /\ \/ channel' = channel
             \/ \E m \in Messages :
                   /\ channel' = Append(channel, m)
                   /\ m.sent = Tsync(e)
                   /\ m.epochTime1s = TimeOfWeek(UpdateTime(m.t0))
                   /\ \A c \in m.entries : CorrectionOf(c, m.t0) \in new
                   /\ \E s \in Satellites : \E r \in records[s].clk : r.t0 = m.t0
          /\ (opened /\ KeptBack = {}) =>
                \A s \in Satellites : Complete(s) /\ UpdateDue(outs[s]) =>
                    \E c \in new : c.sat = s /\ c.t0 = now0
  <2> SUFFICES \E new : Added(new)
    OBVIOUS
(* When nothing is kept back there is one reference time at most.          *)
  <2>1. ASSUME KeptBack = {}, NEW s \in Satellites,
               Complete(s), UpdateDue(outs[s])
        PROVE  FirstTimes(records) = {now0}
    <3> HIDE DEF Added
    <3>1. \A t \in CommonTimes(records) : t = now0
      <4> SUFFICES ASSUME NEW t \in CommonTimes(records) PROVE t = now0
        OBVIOUS
      <4>1. PICK v \in Satellites : \E r \in records[v].clk : t = r.t0
        BY CommonTimesAre
      <4>2. PICK r \in records[v].clk : t = r.t0
        BY <4>1
      <4> QED
        BY <1>4, <2>1, <4>2
    <3>2. PICK r \in records[s].eph, q \in records[s].clk :
              r.t0 = now0 /\ q.t0 = now0
      BY <1>4, <2>1
    <3>3. now0 \in CommonTimes(records)
      BY <3>2, CommonTimesAre
    <3> QED
      BY <1>8, <3>1, <3>3 DEF FirstTimes
  <2>2. CASE ~opened
    <3>1. export' = records /\ published' = published /\ channel' = channel
      BY <1>1, <2>2 DEF EncodeToFile
    <3> DEFINE none == {}
    <3>2. /\ published' = published \cup none /\ none = {}
          /\ \A c : c \notin none
      BY <3>1
    <3> HIDE DEF none
    <3>3. /\ none \subseteq Corrections
          /\ \A c, d \in none : c.t0 = d.t0 /\ (c.sat = d.sat => c = d)
      BY <3>2
    <3>4. \A c \in none :
              /\ c.sat \in Satellites
              /\ \E r \in records[c.sat].eph, q \in records[c.sat].clk :
                    /\ r.t0 = c.t0 /\ q.t0 = c.t0
                    /\ c.eph = r.corr /\ c.clk = q.corr
      BY <3>2
    <3>5. Added(none)
      BY <2>2, <3>1, <3>2, <3>3, <3>4
    <3> QED
      BY <3>5
  <2>3. CASE opened /\ FirstTimes(records) = {}
    <3>1. /\ export' = [s \in Satellites |-> NoRecords]
          /\ published' = published /\ channel' = channel
      BY <1>1, <2>3 DEF EncodeToFile, Encode
    <3> DEFINE none == {}
    <3>2. /\ published' = published \cup none /\ none = {}
          /\ \A c : c \notin none
      BY <3>1
    <3> HIDE DEF none
    <3>3. /\ none \subseteq Corrections
          /\ \A c, d \in none : c.t0 = d.t0 /\ (c.sat = d.sat => c = d)
      BY <3>2
    <3>4. \A c \in none :
              /\ c.sat \in Satellites
              /\ \E r \in records[c.sat].eph, q \in records[c.sat].clk :
                    /\ r.t0 = c.t0 /\ q.t0 = c.t0
                    /\ c.eph = r.corr /\ c.clk = q.corr
      BY <3>2
    <3>5. (opened /\ KeptBack = {}) =>
              \A s \in Satellites : ~(Complete(s) /\ UpdateDue(outs[s]))
      BY <2>1, <2>3
    <3>6. Added(none)
      BY <3>1, <3>2, <3>3, <3>4, <3>5
    <3> QED
      BY <3>6
  <2>4. CASE opened /\ FirstTimes(records) # {}
    <3>1. export' = [s \in Satellites |-> NoRecords]
      BY <1>1, <2>4 DEF EncodeToFile, Encode
    <3>2. PICK t0 \in FirstTimes(records) :
              LET entries == Paired(records, t0)
              IN  /\ published' =
                        published \cup {CorrectionOf(c, t0) : c \in entries}
                  /\ channel' = IF entries = {} THEN channel
                                ELSE Append(channel, Message(e, t0, entries))
      BY <1>1, <2>4 DEF EncodeToFile, Encode
    <3> DEFINE entries == Paired(records, t0)
               new == {CorrectionOf(c, t0) : c \in entries}
               m == Message(e, t0, entries)
    <3>3. /\ entries \subseteq Entries
          /\ \A c \in entries :
                \E r \in records[c.sat].eph, q \in records[c.sat].clk :
                   /\ r.t0 = t0 /\ q.t0 = t0
                   /\ c.eph = r.corr /\ c.clk = q.corr
          /\ \A c, d \in entries : c.sat = d.sat => c = d
      BY <1>5, <1>11, PairedAre
    <3>4. \E s \in Satellites : \E r \in records[s].clk : r.t0 = t0
      <4>1. t0 \in CommonTimes(records)
        BY DEF FirstTimes
      <4> QED
        BY <4>1, CommonTimesAre
    <3>5. t0 \in Nat /\ UpdateTime(t0) \in Nat
      <4>1. PICK s \in Satellites : \E r \in records[s].clk : r.t0 = t0
        BY <3>4
      <4>2. PICK r \in records[s].clk : r.t0 = t0
        BY <4>1
      <4>3. r \in ClockRecords /\ Unpublished(r.t0, e, published)
        BY <1>4 DEF Records, Fit
      <4> QED
        BY <4>2, <4>3 DEF ClockRecords, Unpublished
    <3> HIDE DEF entries
    <3>6. ASSUME NEW c \in entries
          PROVE  /\ CorrectionOf(c, t0).sat = c.sat /\ CorrectionOf(c, t0).t0 = t0
                 /\ CorrectionOf(c, t0).eph = c.eph
                 /\ CorrectionOf(c, t0).clk = c.clk
                 /\ CorrectionOf(c, t0) \in Corrections /\ c.sat \in Satellites
      BY <3>3, <3>5 DEF CorrectionOf, Entries, Corrections
    <3>7. new \subseteq Corrections
      BY <3>6
    <3>8. \A c, d \in new : c.t0 = d.t0 /\ (c.sat = d.sat => c = d)
      BY <3>3, <3>6
    <3>9. \A c \in new :
              /\ c.sat \in Satellites
              /\ \E r \in records[c.sat].eph, q \in records[c.sat].clk :
                    /\ r.t0 = c.t0 /\ q.t0 = c.t0
                    /\ c.eph = r.corr /\ c.clk = q.corr
      BY <3>3, <3>6
    <3>10. /\ m \in Messages /\ m.sent = Tsync(e) /\ m.t0 = t0
           /\ m.epochTime1s = TimeOfWeek(UpdateTime(m.t0))
           /\ m.entries = entries
      <4>1. TimeOfWeek(UpdateTime(t0)) \in Nat
        BY <3>5, WeekAndTime DEF TimeOfWeek
      <4> QED
        BY <1>8, <3>3, <3>5, <4>1 DEF Message, Messages
    <3>11. \/ channel' = channel
           \/ \E msg \in Messages :
                 /\ channel' = Append(channel, msg)
                 /\ msg.sent = Tsync(e)
                 /\ msg.epochTime1s = TimeOfWeek(UpdateTime(msg.t0))
                 /\ \A c \in msg.entries : CorrectionOf(c, msg.t0) \in new
                 /\ \E s \in Satellites : \E r \in records[s].clk : r.t0 = msg.t0
      <4>1. \A c \in entries : CorrectionOf(c, t0) \in new
        OBVIOUS
      <4>2. channel' = channel \/ channel' = Append(channel, m)
        BY <3>2 DEF entries
      <4> HIDE DEF new, m
      <4> QED
        BY <3>4, <3>10, <4>1, <4>2
    <3>12. ASSUME KeptBack = {}, NEW s \in Satellites,
                  Complete(s), UpdateDue(outs[s])
           PROVE  \E c \in new : c.sat = s /\ c.t0 = now0
      <4>1. t0 = now0
        BY <2>1, <3>12
      <4>2. PICK r \in records[s].eph, q \in records[s].clk :
                r.t0 = now0 /\ q.t0 = now0
        BY <1>4, <3>12
      <4>3. [sat |-> s, eph |-> r.corr, clk |-> q.corr] \in entries
        BY <4>1, <4>2 DEF entries, Paired, At
      <4>4. PICK c \in entries : c.sat = s
        BY <4>3
      <4>5. CorrectionOf(c, t0) \in new
        BY <4>4
      <4> HIDE DEF new
      <4> QED
        BY <3>6, <4>1, <4>4, <4>5
    <3>13. published' = published \cup new
      BY <3>2 DEF entries
    <3> HIDE DEF new, m
    <3>14. Added(new)
      BY <3>1, <3>7, <3>8, <3>9, <3>11, <3>12, <3>13
    <3> QED
      BY <3>14
  <2> QED
    BY <2>2, <2>3, <2>4
<1>13. ASSUME NEW c \in new
       PROVE  /\ c.sat \in Satellites /\ c.t0 \in Nat
              /\ UpdateTime(c.t0) \in Nat /\ UpdateTime(c.t0) <= Tsync(e)
              /\ \A d \in published : d.t0 < c.t0
              /\ \A p \in {c.clk.precise.at, c.eph.precise, c.eph.broadcast.at} :
                    Recent(p, c.sat, c.t0)
              /\ SmoothedLate(c.clk.precise)
              /\ c.eph.nextBroadcast = c.eph.broadcast
              /\ c.clk.broadcast = c.eph.broadcast
              /\ c.t0 = now0 => c.eph.iode = c.eph.broadcast.iode
  <2>1. c.sat \in Satellites /\ c \in Corrections
    BY <1>12
  <2>2. PICK r \in records[c.sat].eph, q \in records[c.sat].clk :
            /\ r.t0 = c.t0 /\ q.t0 = c.t0
            /\ c.eph = r.corr /\ c.clk = q.corr
    BY <1>12
  <2>3. /\ GoodOrbit(c.sat, r) /\ Unpublished(r.t0, e, published)
        /\ GoodClock(c.sat, q)
        /\ (r.t0 = q.t0 => q.corr.broadcast = r.corr.broadcast)
    BY <1>4, <2>1 DEF Fit
  <2>4. r.t0 = now0 => r.corr.iode = r.corr.broadcast.iode
    BY <1>4, <2>1
  <2>5. c.t0 \in Nat
    BY <2>1 DEF Corrections
  <2> QED
    BY <2>1, <2>2, <2>3, <2>4, <2>5 DEF GoodOrbit, GoodClock, Unpublished
<1>14. \A s \in Satellites :
          /\ updates'[s] \subseteq 1 .. e
          /\ updates'[s] = IF s \in satNavs' /\ UpdateDue(outs[s])
                           THEN updates[s] \cup {e} ELSE updates[s]
          /\ ssrOut'[s] = IF s \in satNavs' THEN AfterUpdate(outs[s]) ELSE outs[s]
          /\ waiting'[s] = IF /\ Complete(s) /\ opened /\ KeptBack = {}
                              /\ \A c \in published' \ published : c.sat # s
                           THEN waiting[s] + 1 ELSE 0
  <2> SUFFICES ASSUME NEW s \in Satellites
               PROVE  /\ updates'[s] \subseteq 1 .. e
                      /\ updates'[s] = IF s \in satNavs' /\ UpdateDue(outs[s])
                                       THEN updates[s] \cup {e} ELSE updates[s]
    BY <1>1
  <2>1. updates[s] \subseteq 1 .. epoch
    BY <1>2 DEF TypeOK
  <2>2. 1 .. epoch \subseteq 1 .. e /\ e \in 1 .. e
    BY <1>2
  <2>3. updates'[s] = IF s \in satNavs' /\ UpdateDue(outs[s])
                      THEN updates[s] \cup {e} ELSE updates[s]
    BY <1>1
  <2> QED
    BY <2>1, <2>2, <2>3
<1>15. ASSUME NEW s \in Satellites
       PROVE  LET out == outs[s]
              IN  /\ ssrOut'[s] \in SsrOut /\ StampsUpTo(e, ssrOut'[s])
                  /\ SmoothedLate(ssrOut'[s].preciseClock)
                  /\ ssrOut'[s].broadcast.at # 0 =>
                        /\ ssrOut'[s].nextBroadcast = ssrOut'[s].broadcast
                        /\ ssrOut'[s].iode = ssrOut'[s].broadcast.iode
                  /\ \A p \in Flags(ssrOut'[s]) : \A w \in updates'[s] :
                        p # 0 => w < p
  <2> DEFINE out == outs[s]
  <2>1. /\ out \in SsrOut /\ StampsUpTo(e, out)
        /\ \A p \in Flags(out) : p # 0 => \A w \in updates[s] : w < p
        /\ SmoothedLate(out.preciseClock)
        /\ out.broadcast.at # 0 => /\ out.nextBroadcast = out.broadcast
                                   /\ out.iode = out.broadcast.iode
    BY <1>3 DEF Ready
  <2> HIDE DEF out
  <2>2. CASE s \in satNavs' /\ UpdateDue(out)
    <3> DEFINE after == ssrOut'[s]
    <3>1. /\ after \in SsrOut /\ StampsUpTo(e, after) /\ Flags(after) = {0}
          /\ after.preciseClock = UnsetClock
      BY <1>7, <1>14, <2>2 DEF out
    <3> HIDE DEF after
    <3>2. after.broadcast.at = 0
      BY <3>1 DEF Flags
    <3>3. ~UnsetClock.smoothed
      BY DEF UnsetClock
    <3>4. SmoothedLate(after.preciseClock)
      BY <3>1, <3>3, Zenon DEF SmoothedLate
    <3> QED
      BY <3>1, <3>2, <3>4 DEF after
  <2>3. CASE s \in satNavs' /\ ~UpdateDue(out)
    <3> DEFINE after == ssrOut'[s]
    <3>1. /\ after \in SsrOut /\ StampsUpTo(e, after)
          /\ after.preciseClock = out.preciseClock
          /\ after.precise = out.precise
          /\ after.broadcast = out.broadcast
          /\ after.nextBroadcast = out.nextBroadcast
          /\ after.iode = out.iode
      BY <1>7, <1>14, <2>3 DEF out
    <3>2. updates'[s] = updates[s]
      BY <1>14, <2>3 DEF out
    <3> HIDE DEF after
    <3>3. Flags(after) = Flags(out)
      BY <3>1 DEF Flags
    <3> QED
      BY <2>1, <3>1, <3>2, <3>3 DEF after
  <2>4. CASE s \notin satNavs'
    <3>1. ssrOut'[s] = out /\ updates'[s] = updates[s]
      BY <1>14, <2>4 DEF out
    <3> QED
      BY <2>1, <3>1
  <2> QED
    BY <2>2, <2>3, <2>4
<1>16. FlagsAreNew' /\ ClocksAreOutput' /\ OneEphemeris'
  <2>1. FlagsAreNew'
    BY <1>15 DEF FlagsAreNew, Flags
  <2>2. ClocksAreOutput'
    BY <1>15 DEF ClocksAreOutput, SmoothedLate
  <2>3. OneEphemeris'
    BY <1>15 DEF OneEphemeris
  <2> QED
    BY <2>1, <2>2, <2>3
(* One that is complete and not published is not due.                      *)
<1>17. ASSUME NEW s \in Satellites
       PROVE  /\ waiting'[s] \in Nat
              /\ waiting'[s] <= ssrOut'[s].epochsSinceUpdate
              /\ ssrOut'[s].epochsSinceUpdate <= UdiNumEpochs
  <2> DEFINE since == outs[s].epochsSinceUpdate
             due == UpdateDue(outs[s])
  <2>1. /\ since \in Nat /\ since <= UdiNumEpochs
        /\ waiting[s] \in Nat /\ waiting[s] <= since
        /\ UdiNumEpochs \in Nat
    BY <1>6, ConstantsAssumption
  <2>2. /\ ssrOut'[s].epochsSinceUpdate \in Nat
        /\ ssrOut'[s].epochsSinceUpdate <= UdiNumEpochs
        /\ s \in satNavs' /\ ~due => ssrOut'[s].epochsSinceUpdate = since + 1
    <3>1. CASE s \in satNavs'
      <4> DEFINE after == AfterUpdate(outs[s])
      <4>1. ssrOut'[s] = after
        BY <1>14, <3>1
      <4>2. /\ after.epochsSinceUpdate \in 1 .. UdiNumEpochs
            /\ ~due => after.epochsSinceUpdate = since + 1
        BY <1>7
      <4> HIDE DEF after, since, due
      <4>3. after.epochsSinceUpdate \in Nat
            /\ after.epochsSinceUpdate <= UdiNumEpochs
        BY <2>1, <4>2
      <4> QED
        BY <4>1, <4>2, <4>3
    <3>2. CASE s \notin satNavs'
      BY <1>14, <2>1, <3>2
    <3> QED
      BY <3>1, <3>2
  <2> HIDE DEF since, due
  <2>3. CASE waiting'[s] = 0
    BY <2>2, <2>3
  <2>4. CASE waiting'[s] # 0
    <3>1. /\ Complete(s) /\ opened /\ KeptBack = {}
          /\ \A c \in published' \ published : c.sat # s
          /\ waiting'[s] = waiting[s] + 1
      BY <1>14, <2>4
    <3>2. s \in satNavs'
      BY <1>1, <3>1 DEF AllComputed, Complete
    <3>3. ~due
      <4> SUFFICES ASSUME due PROVE FALSE
        OBVIOUS
      <4>1. PICK c \in new : c.sat = s /\ c.t0 = now0
        BY <1>12, <3>1 DEF due
      <4>2. c \in published' /\ c \notin published
        BY <1>8, <1>9, <1>12, <4>1
      <4> QED
        BY <3>1, <4>1, <4>2
    <3> QED
      BY <2>1, <2>2, <3>1, <3>2, <3>3
  <2> QED
    BY <2>3, <2>4
<1>18. WaitIsCounted'
  BY <1>17 DEF WaitIsCounted
<1>19. PublishedOnce'
  <2>1. ASSUME NEW c \in published'
        PROVE  UpdateTime(c.t0) \in Nat /\ UpdateTime(c.t0) <= Tsync(e)
    BY <1>9, <1>12, <1>13, <2>1
  <2>2. ASSUME NEW c \in published', NEW d \in published',
               c.sat = d.sat, c.t0 = d.t0
        PROVE  c = d
    <3>1. CASE c \in published /\ d \in published
      BY <1>2, <2>2, <3>1 DEF NetworkInv, PublishedOnce
    <3>2. CASE c \in new /\ d \in new
      BY <1>12, <2>2, <3>2
    <3>3. CASE c \in published /\ d \in new
      <4>1. c.t0 < d.t0 /\ c.t0 \in Nat
        BY <1>9, <1>13, <3>3
      <4> QED
        BY <2>2, <4>1
    <3>4. CASE c \in new /\ d \in published
      <4>1. d.t0 < c.t0 /\ d.t0 \in Nat
        BY <1>9, <1>13, <3>4
      <4> QED
        BY <2>2, <4>1
    <3> QED
      BY <1>12, <2>2, <3>1, <3>2, <3>3, <3>4
  <2> QED
    BY <1>1, <2>1, <2>2 DEF PublishedOnce, UpdateTime, Tsync
<1>20. PartsAreRecent'
  <2> SUFFICES ASSUME NEW c \in published'
               PROVE  /\ \A p \in {c.clk.precise.at, c.eph.precise,
                                   c.eph.broadcast.at} :
                            Recent(p, c.sat, c.t0)'
                      /\ SmoothedLate(c.clk.precise)
                      /\ c.eph.nextBroadcast = c.eph.broadcast
                      /\ c.clk.broadcast = c.eph.broadcast
                      /\ c.t0 = now0 => c.eph.iode = c.eph.broadcast.iode
    BY <1>1 DEF PartsAreRecent, SmoothedLate, Recent, ReferenceTime, Tsync, now0
  <2>1. CASE c \in published
    <3>1. /\ \A p \in {c.clk.precise.at, c.eph.precise, c.eph.broadcast.at} :
                Recent(p, c.sat, c.t0)
          /\ SmoothedLate(c.clk.precise)
          /\ c.eph.nextBroadcast = c.eph.broadcast
          /\ c.clk.broadcast = c.eph.broadcast
      BY <1>2, <2>1 DEF NetworkInv, PartsAreRecent, SmoothedLate
    <3>2. /\ UpdateTime(c.t0) \in Nat /\ UpdateTime(c.t0) <= Tsync(e)
          /\ c.sat \in Satellites /\ c.t0 # now0
      BY <1>8, <1>9, <2>1
    <3> QED
      BY <1>10, <3>1, <3>2
  <2>2. CASE c \in new
    <3>1. /\ c.sat \in Satellites
          /\ UpdateTime(c.t0) \in Nat /\ UpdateTime(c.t0) <= Tsync(e)
          /\ \A p \in {c.clk.precise.at, c.eph.precise, c.eph.broadcast.at} :
                Recent(p, c.sat, c.t0)
      BY <1>13, <2>2
    <3>2. \A p \in {c.clk.precise.at, c.eph.precise, c.eph.broadcast.at} :
              Recent(p, c.sat, c.t0)'
      BY <1>10, <3>1
    <3> QED
      BY <1>13, <2>2, <3>2
  <2> QED
    BY <1>12, <2>1, <2>2
<1>21. ExportIsFit'
  <2> SUFFICES ASSUME NEW s \in Satellites
               PROVE  /\ \A r \in export'[s].eph :
                            GoodOrbit(s, r)' /\ Unpublished(r.t0, e, published')
                      /\ \A r \in export'[s].clk :
                            GoodClock(s, r)' /\ Unpublished(r.t0, e, published')
                      /\ \A r, q \in export'[s].eph : r = q
                      /\ \A r, q \in export'[s].clk : r = q
                      /\ \A r \in export'[s].eph : \A q \in export'[s].clk :
                            r.t0 = q.t0 => q.corr.broadcast = r.corr.broadcast
    BY <1>1 DEF ExportIsFit, Fit, GoodOrbit, GoodClock, Recent, SmoothedLate,
                Unpublished, Tsync, UpdateTime
  <2>1. CASE export' = [v \in Satellites |-> NoRecords]
    <3>1. export'[s].eph = {} /\ export'[s].clk = {}
      BY <2>1 DEF NoRecords
    <3> QED
      BY <3>1
  <2>2. CASE export' = records /\ new = {}
    <3>1. Fit(records[s], s, e)
      BY <1>4
    <3>2. published' = published
      BY <1>12, <2>2
    <3>3. ASSUME NEW r \in records[s].eph
          PROVE  GoodOrbit(s, r)' /\ Unpublished(r.t0, e, published')
      <4>1. GoodOrbit(s, r) /\ Unpublished(r.t0, e, published)
        BY <3>1 DEF Fit
      <4>2. \A p : Recent(p, s, r.t0)' <=> Recent(p, s, r.t0)
        BY <1>10, <4>1 DEF Unpublished
      <4> QED
        BY <3>2, <4>1, <4>2 DEF GoodOrbit
    <3>4. ASSUME NEW r \in records[s].clk
          PROVE  GoodClock(s, r)' /\ Unpublished(r.t0, e, published')
      <4>1. GoodClock(s, r) /\ Unpublished(r.t0, e, published)
        BY <3>1 DEF Fit
      <4>2. \A p : Recent(p, s, r.t0)' <=> Recent(p, s, r.t0)
        BY <1>10, <4>1 DEF Unpublished
      <4> QED
        BY <3>2, <4>1, <4>2 DEF GoodClock, SmoothedLate
    <3> QED
      BY <2>2, <3>1, <3>3, <3>4 DEF Fit
  <2> QED
    BY <1>12, <2>1, <2>2
<1>22. NetworkInv'
  BY <1>16, <1>18, <1>19, <1>20, <1>21 DEF NetworkInv
<1>23. TypeOK'
  <2>1. ssrOut' \in [Satellites -> SsrOut]
        /\ \A s \in Satellites : StampsUpTo(e, ssrOut'[s])
    BY <1>1, <1>15
  <2>2. updates' \in [Satellites -> SUBSET (1 .. e)]
    BY <1>1, <1>14
  <2>3. waiting' \in [Satellites -> Nat]
    BY <1>1, <1>17
  <2>4. export' \in [Satellites -> Records]
    <3>1. NoRecords \in Records
      BY DEF NoRecords, Records
    <3> QED
      BY <1>5, <1>12, <3>1
  <2>5. published' \subseteq Corrections
    BY <1>2, <1>12 DEF TypeOK
  <2>6. channel' \in Seq(Messages)
    <3>1. channel \in Seq(Messages)
      BY <1>2 DEF TypeOK
    <3>2. \/ channel' = channel
          \/ \E m \in Messages : channel' = Append(channel, m)
      BY <1>12
    <3> QED
      BY <3>1, <3>2
  <2>7. satNavs' \subseteq Satellites /\ clocked' \subseteq Satellites
    BY <1>1, <1>2 DEF TypeOK
  <2> QED
    BY <1>1, <1>2, <2>1, <2>2, <2>3, <2>4, <2>5, <2>6, <2>7
       DEF TypeOK, StampsUpTo
(* The new message is not older than what it carries by more than the      *)
(* epochs for which that was kept back.                                    *)
<1>24. InTransit'
  <2> DEFINE n == Len(channel)
  <2>1. channel \in Seq(Messages) /\ n \in Nat
    BY <1>2 DEF TypeOK
  <2>2. ASSUME NEW i \in 1 .. n PROVE Sent(channel[i], now, published')
    BY <1>12, <2>2 DEF IInv, InTransit, Sent
  <2>3. CASE channel' = channel
    BY <1>1, <2>2, <2>3 DEF InTransit, Sent, TimeOfWeek, UpdateTime
  <2>4. ASSUME NEW m \in Messages, channel' = Append(channel, m),
               m.sent = Tsync(e), m.epochTime1s = TimeOfWeek(UpdateTime(m.t0)),
               \A c \in m.entries : CorrectionOf(c, m.t0) \in new,
               \E s \in Satellites : \E r \in records[s].clk : r.t0 = m.t0
        PROVE  InTransit'
    <3>1. PICK s \in Satellites : \E r \in records[s].clk : r.t0 = m.t0
      BY <2>4
    <3>2. PICK r \in records[s].clk : r.t0 = m.t0
      BY <3>1
    <3>3. UpdateTime(m.t0) \in Nat /\ UpdateTime(m.t0) <= Tsync(e)
      BY <1>4, <3>2 DEF Fit, Unpublished
    <3>4. Tsync(e) <= UpdateTime(m.t0) + 2 * MaxKept
      <4>1. CASE m.t0 = now0
        BY <1>2, <1>8, <4>1
      <4>2. CASE m.t0 # now0
        BY <1>4, <3>2, <4>2
      <4> QED
        BY <4>1, <4>2
    <3>5. MaxDelay \in Nat
      BY ConstantsAssumption
    <3>6. Sent(m, now, published')
      BY <1>2, <1>8, <1>12, <2>4, <3>3, <3>4, <3>5 DEF Sent
    <3>7. ASSUME NEW i \in 1 .. Len(channel')
          PROVE  Sent(channel'[i], now, published')
      <4>1. CASE i = n + 1
        BY <2>1, <2>4, <3>6, <4>1
      <4>2. CASE i \in 1 .. n
        <5>1. channel'[i] = channel[i]
          BY <2>1, <2>4, <4>2
        <5> QED
          BY <2>2, <4>2, <5>1
      <4>3. Len(channel') = n + 1
        BY <2>1, <2>4
      <4> QED
        BY <2>1, <4>1, <4>2, <4>3
    <3> QED
      BY <1>1, <3>7 DEF InTransit, Sent, TimeOfWeek, UpdateTime
  <2> QED
    BY <1>12, <2>3, <2>4
<1>25. DecodedAsPublished' /\ MapsAgree' /\ ReachedIsKnown'
  <2>1. DecodedAsPublished'
    BY <1>1, <1>12 DEF IInv, DecodedAsPublished
  <2>2. MapsAgree' /\ ReachedIsKnown'
    BY <1>1 DEF IInv, MapsAgree, ReachedIsKnown, Times, Searchable, HasNewest,
                Before, Tsync
  <2> QED
    BY <2>1, <2>2
<1>26. Service!Publish
  <2>1. published \subseteq published' /\ published' \ published \subseteq new
    BY <1>12
  <2>2. /\ \A c, d \in new : c.t0 = d.t0 /\ (c.sat = d.sat => c = d)
        /\ \A c \in new : \A d \in published : d.t0 < c.t0
    BY <1>12, <1>13
  <2> QED
    BY <1>1, <2>1, <2>2 DEF Service!Publish
<1> QED
  BY <1>22, <1>23, <1>24, <1>25, <1>26 DEF IInv, Service!ServiceNext
(* The user decodes a message. *)
LEMMA DecodeStep ==
    ASSUME IInv, DecodeSSR
    PROVE  IInv' /\ [Service!ServiceNext]_Service!serviceVars
<1> DEFINE m == Head(channel)
           t0 == SetTime(ReferenceTime(m.epochTime1s))
           Orbit(s) == [t0 |-> t0, corr |-> EntryOf(m.entries, s).eph]
           Clock(s) == [t0 |-> t0, corr |-> EntryOf(m.entries, s).clk]
           Carried(s) == \E c \in m.entries : c.sat = s
<1>1. /\ channel # <<>> /\ channel' = Tail(channel)
      /\ ssr' = [s \in Satellites |->
            IF Carried(s)
            THEN [eph |-> Inserted(ssr[s].eph, Orbit(s)),
                  clk |-> Inserted(ssr[s].clk, Clock(s))]
            ELSE ssr[s]]
  BY DEF DecodeSSR
<1>2. /\ now' = now /\ epoch' = epoch /\ satNavs' = satNavs
      /\ clocked' = clocked /\ ssrOut' = ssrOut /\ export' = export
      /\ updates' = updates /\ waiting' = waiting
      /\ published' = published
      /\ userEpoch' = userEpoch /\ applied' = applied /\ reached' = reached
  BY DEF DecodeSSR, networkVars, userVars
<1>3. TypeOK /\ MapsAgree /\ channel \in Seq(Messages) /\ Len(channel) \in Nat
      /\ Len(channel) >= 1
  BY <1>1 DEF IInv, TypeOK
<1>4. m \in Messages /\ m = channel[1] /\ Sent(m, now, published)
  BY <1>1, <1>3 DEF IInv, InTransit
<1>5. t0 = m.t0 /\ t0 \in Nat
  <2> DEFINE t == UpdateTime(m.t0)
  <2>1. m.t0 \in Nat /\ m.sent \in Nat /\ now \in Nat
    BY <1>3, <1>4 DEF Messages, TypeOK
  <2>2. /\ m.epochTime1s = TimeOfWeek(t) /\ t \in Nat /\ t <= now
        /\ now <= m.sent + MaxDelay /\ m.sent <= t + 2 * MaxKept
    BY <1>4 DEF Sent
  <2>3. ReferenceTime(t) = m.t0
    BY <2>1, ConstantsAssumption DEF ReferenceTime, UpdateTime
  <2> HIDE DEF t
  <2>4. now <= t + MaxDelay + 2 * MaxKept
    BY <2>1, <2>2, ConstantsAssumption
  <2>5. SetTime(ReferenceTime(TimeOfWeek(t))) = ReferenceTime(t)
    BY <2>1, <2>2, <2>4, SetTimeRecovers
  <2> QED
    BY <2>1, <2>2, <2>3, <2>5
<1> HIDE DEF t0
<1>6. ASSUME NEW s \in Satellites, Carried(s)
      PROVE  /\ Orbit(s) \in OrbitRecords /\ Clock(s) \in ClockRecords
             /\ \E c \in published : /\ c.sat = s /\ c.t0 = t0
                                     /\ c.eph = Orbit(s).corr
                                     /\ c.clk = Clock(s).corr
  <2> DEFINE entry == EntryOf(m.entries, s)
  <2>1. entry \in m.entries /\ entry.sat = s
    BY <1>6 DEF EntryOf
  <2>2. entry \in Entries
    BY <1>4, <2>1 DEF Messages
  <2>3. CorrectionOf(entry, m.t0) \in published
    BY <1>4, <2>1 DEF Sent
  <2> HIDE DEF entry
  <2>4. entry.eph \in Orbits /\ entry.clk \in Clocks
    BY <2>2 DEF Entries
  <2>5. Orbit(s) \in OrbitRecords /\ Clock(s) \in ClockRecords
    BY <1>5, <2>4 DEF OrbitRecords, ClockRecords, entry
  <2>6. /\ CorrectionOf(entry, m.t0).sat = s
        /\ CorrectionOf(entry, m.t0).t0 = t0
        /\ CorrectionOf(entry, m.t0).eph = entry.eph
        /\ CorrectionOf(entry, m.t0).clk = entry.clk
    BY <1>5, <2>1 DEF CorrectionOf
  <2> QED
    BY <2>3, <2>5, <2>6 DEF entry
<1>7. ASSUME NEW s \in Satellites
      PROVE  /\ ssr[s].eph \in SUBSET OrbitRecords
             /\ ssr[s].clk \in SUBSET ClockRecords
             /\ Timed(ssr[s].eph) /\ Timed(ssr[s].clk)
             /\ Searchable(ssr[s].eph) /\ Searchable(ssr[s].clk)
             /\ Times(ssr[s].eph) = Times(ssr[s].clk)
  BY <1>3 DEF TypeOK, MapsAgree, Timed, Records, OrbitRecords, ClockRecords
<1>8. ASSUME NEW s \in Satellites, Carried(s)
      PROVE  /\ ssr'[s].eph \subseteq ssr[s].eph \cup {Orbit(s)}
             /\ ssr'[s].clk \subseteq ssr[s].clk \cup {Clock(s)}
             /\ Searchable(ssr'[s].eph) /\ Searchable(ssr'[s].clk)
             /\ Times(ssr'[s].eph) = Times(ssr[s].eph) \cup {t0}
             /\ Times(ssr'[s].clk) = Times(ssr[s].clk) \cup {t0}
             /\ ssr'[s] = [eph |-> ssr'[s].eph, clk |-> ssr'[s].clk]
  <2>1. Orbit(s).t0 = t0 /\ Clock(s).t0 = t0
    OBVIOUS
  <2>2. ssr'[s] = [eph |-> Inserted(ssr[s].eph, Orbit(s)),
                   clk |-> Inserted(ssr[s].clk, Clock(s))]
    BY <1>1, <1>8
  <2> HIDE DEF Orbit, Clock, Carried
  <2>3. /\ Inserted(ssr[s].eph, Orbit(s)) \subseteq ssr[s].eph \cup {Orbit(s)}
        /\ Searchable(Inserted(ssr[s].eph, Orbit(s)))
        /\ Times(Inserted(ssr[s].eph, Orbit(s))) = Times(ssr[s].eph) \cup {t0}
    BY <1>5, <1>7, <2>1, InsertRecord
  <2>4. /\ Inserted(ssr[s].clk, Clock(s)) \subseteq ssr[s].clk \cup {Clock(s)}
        /\ Searchable(Inserted(ssr[s].clk, Clock(s)))
        /\ Times(Inserted(ssr[s].clk, Clock(s))) = Times(ssr[s].clk) \cup {t0}
    BY <1>5, <1>7, <2>1, InsertRecord
  <2> QED
    BY <2>2, <2>3, <2>4
<1>9. ASSUME NEW s \in Satellites, ~Carried(s)
      PROVE  ssr'[s] = ssr[s]
  BY <1>1, <1>9
<1> HIDE DEF m, Orbit, Clock, Carried
<1>10. TypeOK'
  <2>1. ASSUME NEW s \in Satellites
        PROVE  ssr'[s] \in Records
    <3>1. CASE Carried(s)
      <4>1. ssr'[s].eph \subseteq OrbitRecords /\ ssr'[s].clk \subseteq ClockRecords
        <5>1. Orbit(s) \in OrbitRecords /\ Clock(s) \in ClockRecords
          BY <1>6, <3>1
        <5>2. ssr'[s].eph \subseteq ssr[s].eph \cup {Orbit(s)}
              /\ ssr'[s].clk \subseteq ssr[s].clk \cup {Clock(s)}
          BY <1>8, <3>1
        <5>3. ssr[s].eph \subseteq OrbitRecords /\ ssr[s].clk \subseteq ClockRecords
          BY <1>7
        <5> QED
          BY <5>1, <5>2, <5>3
      <4>2. ssr'[s] = [eph |-> ssr'[s].eph, clk |-> ssr'[s].clk]
        BY <1>8, <3>1
      <4> QED
        BY <4>1, <4>2 DEF Records
    <3>2. CASE ~Carried(s)
      BY <1>3, <1>9, <3>2 DEF TypeOK
    <3> QED
      BY <3>1, <3>2
  <2>2. ssr' \in [Satellites -> Records]
    BY <1>1, <2>1
  <2>3. channel' \in Seq(Messages)
    BY <1>1, <1>3
  <2> QED
    BY <1>2, <1>3, <2>2, <2>3 DEF TypeOK
<1>11. NetworkInv'
  BY <1>2, NetworkUnchanged DEF IInv, networkVars
<1>12. DecodedAsPublished'
  <2> SUFFICES ASSUME NEW s \in Satellites
               PROVE  /\ \A r \in ssr'[s].eph : \E c \in published :
                            c.sat = s /\ c.t0 = r.t0 /\ c.eph = r.corr
                      /\ \A r \in ssr'[s].clk : \E c \in published :
                            c.sat = s /\ c.t0 = r.t0 /\ c.clk = r.corr
    BY <1>2 DEF DecodedAsPublished
  <2>1. /\ \A r \in ssr[s].eph : \E c \in published :
              c.sat = s /\ c.t0 = r.t0 /\ c.eph = r.corr
        /\ \A r \in ssr[s].clk : \E c \in published :
              c.sat = s /\ c.t0 = r.t0 /\ c.clk = r.corr
    BY DEF IInv, DecodedAsPublished
  <2>2. CASE Carried(s)
    <3>1. Orbit(s).t0 = t0 /\ Clock(s).t0 = t0
      BY DEF Orbit, Clock
    <3>2. \E c \in published : /\ c.sat = s /\ c.t0 = t0
                              /\ c.eph = Orbit(s).corr
                              /\ c.clk = Clock(s).corr
      BY <1>6, <2>2
    <3>3. \A r \in ssr'[s].eph : r \in ssr[s].eph \/ r = Orbit(s)
      BY <1>8, <2>2
    <3>4. \A r \in ssr'[s].clk : r \in ssr[s].clk \/ r = Clock(s)
      BY <1>8, <2>2
    <3>5. \A r \in ssr'[s].eph : \E c \in published :
              c.sat = s /\ c.t0 = r.t0 /\ c.eph = r.corr
      BY <2>1, <3>1, <3>2, <3>3
    <3>6. \A r \in ssr'[s].clk : \E c \in published :
              c.sat = s /\ c.t0 = r.t0 /\ c.clk = r.corr
      BY <2>1, <3>1, <3>2, <3>4
    <3> QED
      BY <3>5, <3>6
  <2>3. CASE ~Carried(s)
    BY <1>9, <2>1, <2>3
  <2> QED
    BY <2>2, <2>3
<1>13. InTransit'
  <2>1. /\ Len(channel') = Len(channel) - 1
        /\ \A i \in 1 .. Len(channel') : channel'[i] = channel[i + 1]
    BY <1>1, <1>3
  <2>2. \A i \in 1 .. Len(channel') :
            i + 1 \in 1 .. Len(channel) /\ Sent(channel[i + 1], now, published)
    BY <1>3, <2>1 DEF IInv, InTransit
  <2> QED
    BY <1>2, <2>1, <2>2 DEF InTransit, Sent, TimeOfWeek, UpdateTime
<1>14. MapsAgree'
  <2> SUFFICES ASSUME NEW s \in Satellites
               PROVE  /\ Times(ssr'[s].eph) = Times(ssr'[s].clk)
                      /\ Searchable(ssr'[s].eph) /\ Searchable(ssr'[s].clk)
    BY DEF MapsAgree, Times, Searchable, HasNewest, Before
  <2> QED
    BY <1>7, <1>8, <1>9
<1>15. ReachedIsKnown'
  <2> SUFFICES ASSUME NEW s \in Satellites, reached[s] # 0
               PROVE  /\ reached[s] \in Times(ssr'[s].eph)
                      /\ reached[s] < Tsync(userEpoch)
    BY <1>2 DEF ReachedIsKnown, Times, Tsync
  <2>1. reached[s] \in Times(ssr[s].eph) /\ reached[s] < Tsync(userEpoch)
    BY DEF IInv, ReachedIsKnown
  <2> QED
    BY <1>8, <1>9, <2>1
<1> QED
  BY <1>2, <1>10, <1>11, <1>12, <1>13, <1>14, <1>15
     DEF IInv, Service!serviceVars

(* A message is lost, or the time goes on. *)
LEMMA LossStep ==
    ASSUME IInv, LoseMessage
    PROVE  IInv' /\ UNCHANGED Service!serviceVars
<1>1. /\ channel # <<>> /\ channel' = Tail(channel)
      /\ now' = now /\ epoch' = epoch /\ satNavs' = satNavs
      /\ clocked' = clocked /\ ssrOut' = ssrOut /\ export' = export
      /\ updates' = updates /\ waiting' = waiting
      /\ published' = published /\ ssr' = ssr
      /\ userEpoch' = userEpoch /\ applied' = applied /\ reached' = reached
  BY DEF LoseMessage, networkVars, userVars
<1>2. TypeOK /\ channel \in Seq(Messages) /\ Len(channel) \in Nat
  BY DEF IInv, TypeOK
<1>3. TypeOK'
  BY <1>1, <1>2 DEF TypeOK
<1>4. NetworkInv'
  BY <1>1, NetworkUnchanged DEF IInv, networkVars
<1>5. DecodedAsPublished' /\ MapsAgree' /\ ReachedIsKnown'
  BY <1>1 DEF IInv, DecodedAsPublished, MapsAgree, ReachedIsKnown, Times,
              Searchable, HasNewest, Before, Tsync
<1>6. InTransit'
  <2>1. /\ Len(channel') = Len(channel) - 1
        /\ \A i \in 1 .. Len(channel') : channel'[i] = channel[i + 1]
    BY <1>1, <1>2
  <2>2. \A i \in 1 .. Len(channel') :
            i + 1 \in 1 .. Len(channel) /\ Sent(channel[i + 1], now, published)
    BY <1>2, <2>1 DEF IInv, InTransit
  <2> QED
    BY <1>1, <2>1, <2>2 DEF InTransit, Sent, TimeOfWeek, UpdateTime
<1> QED
  BY <1>1, <1>3, <1>4, <1>5, <1>6 DEF IInv, Service!serviceVars

LEMMA TickStep ==
    ASSUME IInv, Tick
    PROVE  IInv' /\ UNCHANGED Service!serviceVars
<1>1. /\ \A i \in 1 .. Len(channel) : now < channel[i].sent + MaxDelay
      /\ now' = now + 1
      /\ channel' = channel /\ epoch' = epoch /\ satNavs' = satNavs
      /\ clocked' = clocked /\ ssrOut' = ssrOut /\ export' = export
      /\ updates' = updates /\ waiting' = waiting
      /\ published' = published /\ ssr' = ssr
      /\ userEpoch' = userEpoch /\ applied' = applied /\ reached' = reached
  BY DEF Tick, networkVars, userVars
<1>2. TypeOK /\ channel \in Seq(Messages) /\ now \in Nat
  BY DEF IInv, TypeOK
<1>3. TypeOK'
  BY <1>1, <1>2 DEF TypeOK
<1>4. NetworkInv'
  BY <1>1, NetworkUnchanged DEF IInv, networkVars
<1>5. DecodedAsPublished' /\ MapsAgree' /\ ReachedIsKnown'
  BY <1>1 DEF IInv, DecodedAsPublished, MapsAgree, ReachedIsKnown, Times,
              Searchable, HasNewest, Before, Tsync
<1>6. InTransit'
  <2> SUFFICES ASSUME NEW i \in 1 .. Len(channel)
               PROVE  Sent(channel[i], now + 1, published)
    BY <1>1 DEF InTransit, Sent, TimeOfWeek, UpdateTime
  <2>1. Sent(channel[i], now, published) /\ now < channel[i].sent + MaxDelay
    BY <1>1 DEF IInv, InTransit
  <2>2. channel[i].sent \in Nat
    <3>1. channel[i] \in Messages
      BY <1>2
    <3> QED
      BY <3>1 DEF Messages
  <2>3. MaxDelay \in Nat
    BY ConstantsAssumption
  <2>4. now + 1 <= channel[i].sent + MaxDelay
    BY <1>2, <2>1, <2>2, <2>3
  <2> QED
    BY <1>2, <2>1, <2>4 DEF Sent
<1> QED
  BY <1>1, <1>3, <1>4, <1>5, <1>6 DEF IInv, Service!serviceVars

(* What the user finds for a satellite: nothing, or a correction that was  *)
(* published as it is, not before the latest it used.                      *)
LEMMA SatposIs ==
    ASSUME IInv, NEW s \in Satellites, NEW time \in Nat,
           Tsync(userEpoch) <= time, NEW held \in BOOLEAN,
           SatposSsr(s, time, held) # None
    PROVE  LET c == SatposSsr(s, time, held)
           IN  /\ c \in published /\ c.sat = s
               /\ c.t0 \in Nat /\ c.t0 >= reached[s] /\ c.t0 < time
               /\ c.t0 \in Times(ssr[s].eph)
<1> DEFINE ephs == Before(ssr[s].eph, time)
           clks == Before(ssr[s].clk, time)
           eph == Newest(ephs)
           clk == Newest(clks)
           c == SatposSsr(s, time, held)
<1>1. /\ ephs # {} /\ clks # {}
      /\ c = [sat |-> s, t0 |-> eph.t0, eph |-> eph.corr, clk |-> clk.corr]
  BY DEF SatposSsr
<1>2. /\ Times(ssr[s].eph) = Times(ssr[s].clk)
      /\ HasNewest(ephs) /\ HasNewest(clks)
  BY DEF IInv, MapsAgree, Searchable
<1>3. /\ eph \in ephs /\ \A q \in ephs : q.t0 <= eph.t0
      /\ clk \in clks /\ \A q \in clks : q.t0 <= clk.t0
  BY <1>1, <1>2, NewestIs
<1>4. /\ eph \in ssr[s].eph /\ eph.t0 < time
      /\ clk \in ssr[s].clk /\ clk.t0 < time
  BY <1>3 DEF Before
<1>5. /\ \A q \in ssr[s].eph : q.t0 < time => q.t0 <= eph.t0
      /\ \A q \in ssr[s].clk : q.t0 < time => q.t0 <= clk.t0
  BY <1>3 DEF Before
<1>6. eph.t0 \in Nat /\ clk.t0 \in Nat
  <2>1. ssr[s].eph \subseteq OrbitRecords /\ ssr[s].clk \subseteq ClockRecords
    BY DEF IInv, TypeOK, Records
  <2> HIDE DEF eph, clk
  <2> QED
    BY <1>4, <2>1 DEF OrbitRecords, ClockRecords
<1> HIDE DEF eph, clk, ephs, clks, c
(* The maps have the same times, so the two are of the same one.           *)
<1>7. eph.t0 = clk.t0
  <2>1. PICK q \in ssr[s].clk : q.t0 = eph.t0
    BY <1>2, <1>4 DEF Times
  <2>2. PICK p \in ssr[s].eph : p.t0 = clk.t0
    BY <1>2, <1>4 DEF Times
  <2>3. eph.t0 <= clk.t0
    BY <1>4, <1>5, <2>1
  <2>4. clk.t0 <= eph.t0
    BY <1>4, <1>5, <2>2
  <2> QED
    BY <1>6, <2>3, <2>4
<1>8. PICK a \in published : a.sat = s /\ a.t0 = eph.t0 /\ a.eph = eph.corr
  BY <1>4 DEF IInv, DecodedAsPublished
<1>9. PICK b \in published : b.sat = s /\ b.t0 = clk.t0 /\ b.clk = clk.corr
  BY <1>4 DEF IInv, DecodedAsPublished
<1>10. a = b
  BY <1>7, <1>8, <1>9 DEF IInv, NetworkInv, PublishedOnce
<1>11. a = [sat |-> s, t0 |-> eph.t0, eph |-> eph.corr, clk |-> clk.corr]
  <2>1. a \in Corrections
    BY DEF IInv, TypeOK
  <2>2. a = [sat |-> a.sat, t0 |-> a.t0, eph |-> a.eph, clk |-> a.clk]
    BY <2>1 DEF Corrections
  <2> QED
    BY <1>8, <1>9, <1>10, <2>2
<1>12. eph.t0 >= reached[s]
  <2>1. CASE reached[s] = 0
    BY <1>6, <2>1
  <2>2. CASE reached[s] # 0
    <3>1. reached[s] \in Times(ssr[s].eph) /\ reached[s] < Tsync(userEpoch)
      BY <2>2 DEF IInv, ReachedIsKnown
    <3>2. PICK q \in ssr[s].eph : q.t0 = reached[s]
      BY <3>1 DEF Times
    <3>3. reached[s] \in Nat /\ Tsync(userEpoch) \in Nat
      BY DEF IInv, TypeOK, Tsync
    <3>4. reached[s] < time
      BY <3>1, <3>3
    <3> QED
      BY <1>5, <1>6, <3>2, <3>3, <3>4
  <2> QED
    BY <2>1, <2>2
<1>13. eph.t0 \in Times(ssr[s].eph)
  BY <1>4 DEF Times
<1>14. c \in published /\ c.sat = s /\ c.t0 = eph.t0
  BY <1>1, <1>8, <1>11
<1> QED
  BY <1>4, <1>6, <1>12, <1>13, <1>14 DEF c

(* An epoch of the user. *)
LEMMA UserStep ==
    ASSUME IInv, UserLoop
    PROVE  IInv' /\ [Service!ServiceNext]_Service!serviceVars
<1>1. PICK u \in userEpoch + 1 .. userEpoch + 1 + MaxExcess :
          /\ Tsync(u) <= now
          /\ userEpoch' = u
          /\ \E held \in SUBSET {s \in Satellites : ssr[s] # NoRecords} :
                applied' = [s \in Satellites |->
                    SatposSsr(s, Tsync(u), s \in held)]
          /\ reached' = [s \in Satellites |->
                IF applied'[s] = None THEN reached[s] ELSE applied'[s].t0]
  BY DEF UserLoop
<1>2. PICK held \in SUBSET {s \in Satellites : ssr[s] # NoRecords} :
          applied' = [s \in Satellites |-> SatposSsr(s, Tsync(u), s \in held)]
  BY <1>1
<1>3. /\ now' = now /\ epoch' = epoch /\ satNavs' = satNavs
      /\ clocked' = clocked /\ ssrOut' = ssrOut /\ export' = export
      /\ updates' = updates /\ waiting' = waiting
      /\ published' = published
      /\ channel' = channel /\ ssr' = ssr
  BY DEF UserLoop, networkVars
<1>4. TypeOK /\ userEpoch \in Nat /\ u \in Nat /\ MaxExcess \in Nat
      /\ userEpoch <= u /\ Tsync(u) \in Nat /\ Tsync(userEpoch) <= Tsync(u)
  <2>1. TypeOK /\ userEpoch \in Nat /\ MaxExcess \in Nat
    BY ConstantsAssumption DEF IInv, TypeOK
  <2>2. u \in Nat /\ userEpoch <= u
    BY <2>1
  <2> QED
    BY <2>1, <2>2 DEF Tsync
<1>5. ASSUME NEW s \in Satellites, applied'[s] # None
      PROVE  /\ applied'[s] \in published /\ applied'[s].sat = s
             /\ applied'[s].t0 \in Nat /\ applied'[s].t0 >= reached[s]
             /\ applied'[s].t0 < Tsync(u)
             /\ applied'[s].t0 \in Times(ssr[s].eph)
  <2> DEFINE hasEphemeris == s \in held
  <2>1. applied'[s] = SatposSsr(s, Tsync(u), hasEphemeris)
    BY <1>2
  <2>2. hasEphemeris \in BOOLEAN
    OBVIOUS
  <2> HIDE DEF hasEphemeris
  <2> QED
    BY <1>4, <1>5, <2>1, <2>2, SatposIs
<1>6. /\ published \subseteq Corrections /\ reached \in [Satellites -> Nat]
  BY <1>4 DEF TypeOK
<1>7. applied' \in [Satellites -> published \cup {None}]
  BY <1>2, <1>5
<1>8. /\ reached' \in [Satellites -> Nat]
      /\ \A s \in Satellites :
            IF applied'[s] = None THEN reached'[s] = reached[s]
            ELSE reached'[s] = applied'[s].t0
  BY <1>1, <1>5, <1>6
<1>9. TypeOK'
  BY <1>1, <1>3, <1>4, <1>6, <1>7, <1>8 DEF TypeOK
<1>10. NetworkInv'
  BY <1>3, NetworkUnchanged DEF IInv, networkVars
<1>11. DecodedAsPublished' /\ MapsAgree' /\ InTransit'
  BY <1>3 DEF IInv, DecodedAsPublished, MapsAgree, InTransit, Sent, Times,
              Searchable, HasNewest, Before, TimeOfWeek, UpdateTime
<1>12. ReachedIsKnown'
  <2> SUFFICES ASSUME NEW s \in Satellites, reached'[s] # 0
               PROVE  /\ reached'[s] \in Times(ssr[s].eph)
                      /\ reached'[s] < Tsync(u)
    BY <1>1, <1>3 DEF ReachedIsKnown, Times, Tsync
  <2>1. CASE applied'[s] = None
    <3>1. reached'[s] = reached[s]
      BY <1>8, <2>1
    <3>2. reached[s] \in Times(ssr[s].eph) /\ reached[s] < Tsync(userEpoch)
      BY <3>1 DEF IInv, ReachedIsKnown
    <3>3. reached[s] \in Nat /\ Tsync(userEpoch) \in Nat
      BY <1>4, <1>6 DEF Tsync
    <3> QED
      BY <1>4, <3>1, <3>2, <3>3
  <2>2. CASE applied'[s] # None
    BY <1>5, <1>8, <2>2
  <2> QED
    BY <2>1, <2>2
<1>13. Service!Use
  BY <1>3, <1>5, <1>7, <1>8 DEF Service!Use
<1> QED
  BY <1>9, <1>10, <1>11, <1>12, <1>13 DEF IInv, Service!ServiceNext

LEMMA Initially == Init => IInv /\ Service!ServiceInit
<1> SUFFICES ASSUME Init PROVE IInv /\ Service!ServiceInit
  OBVIOUS
<1> DEFINE out == [preciseClock |-> UnsetClock, broadcast |-> Unset, iode |-> 0,
                   precise |-> 0, nextBroadcast |-> Unset, nextPrecise |-> 0,
                   epochsSinceUpdate |-> 0]
<1>1. /\ out \in SsrOut /\ StampsUpTo(0, out) /\ out.broadcast.at = 0
      /\ out.epochsSinceUpdate = 0 /\ ~out.preciseClock.smoothed
  BY ConstantsAssumption
     DEF SsrOut, StampsUpTo, Stamps, BroadcastStamps, Unset, ClockStamps,
         UnsetClock
<1>2. ssrOut = [s \in Satellites |-> out]
  BY DEF Init
<1> HIDE DEF out
<1>3. NoRecords \in Records /\ NoRecords.eph = {} /\ NoRecords.clk = {}
  BY DEF NoRecords, Records
<1>4. TypeOK
  BY <1>1, <1>2, <1>3, ConstantsAssumption DEF Init, TypeOK
<1>5. PartsAreRecent /\ PublishedOnce /\ DecodedAsPublished
  BY <1>3 DEF Init, PartsAreRecent, PublishedOnce, DecodedAsPublished
<1>6. FlagsAreNew /\ ClocksAreOutput /\ OneEphemeris /\ WaitIsCounted
  <2>1. FlagsAreNew
    BY DEF Init, FlagsAreNew
  <2>2. ClocksAreOutput
    BY <1>1, <1>2, Zenon DEF ClocksAreOutput, SmoothedLate
  <2>3. OneEphemeris /\ WaitIsCounted
    BY <1>1, <1>2, ConstantsAssumption DEF Init, OneEphemeris, WaitIsCounted
  <2> QED
    BY <2>1, <2>2, <2>3
<1>7. /\ ExportIsFit /\ InTransit
      /\ MapsAgree /\ ReachedIsKnown
  <2>1. \A s \in Satellites : export[s] = NoRecords /\ ssr[s] = NoRecords
    BY DEF Init
  <2>2. ExportIsFit
    BY <1>3, <2>1 DEF ExportIsFit, Fit
  <2>3. MapsAgree
    BY <1>3, <2>1 DEF MapsAgree, Times, Searchable, HasNewest, Before
  <2>4. InTransit /\ ReachedIsKnown
    BY DEF Init, InTransit, ReachedIsKnown
  <2> QED
    BY <2>2, <2>3, <2>4
<1>8. Service!ServiceInit
  BY DEF Init, Service!ServiceInit
<1> QED
  BY <1>4, <1>5, <1>6, <1>7, <1>8 DEF IInv, NetworkInv

(* Every step keeps the invariant and is a step of the service. *)
LEMMA Inductive ==
    IInv /\ [Next]_vars => IInv' /\ [Service!ServiceNext]_Service!serviceVars
<1> SUFFICES ASSUME IInv, [Next]_vars
             PROVE  IInv' /\ [Service!ServiceNext]_Service!serviceVars
  OBVIOUS
<1>1. CASE NetworkLoop
  <2>1. PICK e \in epoch + 1 .. epoch + 1 + MaxExcess :
            /\ e <= MaxEpoch
            /\ Tsync(e) <= now /\ now <= Tsync(e) + MaxDelay
            /\ \A r \in KeptBack : Tsync(e) <= UpdateTime(r.t0) + 2 * MaxKept
            /\ \E visible \in SUBSET {s \in Satellites : e \in Risen[s]} :
               \E used \in SUBSET visible :
               \E clocks \in [Satellites -> {"nothing", "filter", "smoothed"}] :
               \E latest \in [visible -> AllIssues] : \E opened \in BOOLEAN :
                  /\ \A s \in Satellites :
                        clocks[s] \in ClocksOutput(s, e, clocked \cup used)
                  /\ NetworkEpoch(e, used, clocks, latest, opened)
    BY <1>1 DEF NetworkLoop
  <2>2. PICK visible \in SUBSET {s \in Satellites : e \in Risen[s]} :
            \E used \in SUBSET visible :
            \E clocks \in [Satellites -> {"nothing", "filter", "smoothed"}] :
            \E latest \in [visible -> AllIssues] : \E opened \in BOOLEAN :
               /\ \A s \in Satellites :
                     clocks[s] \in ClocksOutput(s, e, clocked \cup used)
               /\ NetworkEpoch(e, used, clocks, latest, opened)
    BY <2>1
  <2>3. PICK used \in SUBSET visible,
             clocks \in [Satellites -> {"nothing", "filter", "smoothed"}],
             latest \in [visible -> AllIssues], opened \in BOOLEAN :
            /\ \A s \in Satellites :
                  clocks[s] \in ClocksOutput(s, e, clocked \cup used)
            /\ NetworkEpoch(e, used, clocks, latest, opened)
    BY <2>2
  <2>4. epoch \in Nat /\ MaxExcess \in Nat /\ MaxEpoch \in Nat
    BY ConstantsAssumption DEF IInv, TypeOK
  <2>5. e \in Epochs /\ e > epoch
    BY <2>1, <2>4 DEF Epochs
  <2>6. used \in SUBSET Satellites /\ DOMAIN latest \subseteq Satellites
    BY <2>2, <2>3
  <2>7. \A s \in DOMAIN latest : latest[s] \in Nat
    <3>1. AllIssues \subseteq Nat
      BY ConstantsAssumption DEF AllIssues
    <3> QED
      BY <2>3, <3>1
  <2>8. \A s \in Satellites : clocks[s] = "smoothed" => RtsLag > 0 /\ e > RtsLag
    BY <2>3 DEF ClocksOutput
  <2> QED
    BY <2>1, <2>3, <2>5, <2>6, <2>7, <2>8, NetworkStep
<1>2. CASE LoseMessage
  BY <1>2, LossStep
<1>3. CASE Tick
  BY <1>3, TickStep
<1>4. CASE DecodeSSR
  BY <1>4, DecodeStep
<1>5. CASE UserLoop
  BY <1>5, UserStep
<1>6. CASE UNCHANGED vars
  <2>1. /\ now' = now /\ epoch' = epoch /\ satNavs' = satNavs
        /\ clocked' = clocked /\ ssrOut' = ssrOut /\ export' = export
        /\ updates' = updates /\ waiting' = waiting
        /\ published' = published
        /\ channel' = channel /\ ssr' = ssr
        /\ userEpoch' = userEpoch /\ applied' = applied /\ reached' = reached
    BY <1>6 DEF vars, networkVars, userVars
  <2>2. TypeOK'
    BY <2>1 DEF IInv, TypeOK
  <2>3. NetworkInv'
    BY <2>1, NetworkUnchanged DEF IInv, networkVars
  <2>4. DecodedAsPublished' /\ MapsAgree' /\ ReachedIsKnown' /\ InTransit'
    BY <2>1 DEF IInv, DecodedAsPublished, MapsAgree, ReachedIsKnown, Times,
                Searchable, HasNewest, Before, Tsync, InTransit, Sent,
                TimeOfWeek, UpdateTime
  <2> QED
    BY <2>1, <2>2, <2>3, <2>4 DEF IInv, Service!serviceVars
<1> QED
  BY <1>1, <1>2, <1>3, <1>4, <1>5, <1>6 DEF Next

------------------------------------------------------------------------------
(* The theorems *)

(* The inductive invariant holds of the corrections of any network.        *)
THEOREM Invariant == Spec => []IInv
<1>1. Init => IInv
  BY Initially
<1>2. IInv /\ [Next]_vars => IInv'
  BY Inductive
<1> QED
  BY <1>1, <1>2, PTL DEF Spec

(* Every variable keeps its type; no stamp that the network holds is of an *)
(* epoch to come.                                                          *)
THEOREM TypeCorrect == Spec => []TypeOK
<1>1. IInv => TypeOK
  BY DEF IInv
<1> QED
  BY <1>1, Invariant, PTL

(* What is published may have parts of different epochs, but all of them   *)
(* were computed or output within the satellite's update interval: none is *)
(* left from its update before, and orbit and clock are of one ephemeris.  *)
THEOREM CorrectionsAreRecent == Spec => []PartsAreRecent
<1>1. IInv => PartsAreRecent
  BY DEF IInv, NetworkInv
<1> QED
  BY <1>1, Invariant, PTL

(* No satellite for which everything is at hand waits longer than an       *)
(* update interval, whatever the others do and however epochs are skipped. *)
THEOREM EveryoneIsServed == Spec => []EveryoneServed
<1>1. IInv => EveryoneServed
  <2> SUFFICES ASSUME IInv, NEW s \in Satellites
               PROVE  waiting[s] <= UdiNumEpochs
    BY DEF EveryoneServed
  <2>1. waiting[s] \in Nat /\ ssrOut[s].epochsSinceUpdate \in Nat
    BY DEF IInv, TypeOK, SsrOut
  <2>2. /\ waiting[s] <= ssrOut[s].epochsSinceUpdate
        /\ ssrOut[s].epochsSinceUpdate <= UdiNumEpochs
    BY DEF IInv, NetworkInv, WaitIsCounted
  <2> QED
    BY <2>1, <2>2, ConstantsAssumption
<1> QED
  BY <1>1, Invariant, PTL

(* setTime resolves the week of every message that is decoded: what the    *)
(* user holds is what was published, at its reference time.                *)
THEOREM DecodingIsRight == Spec => []DecodedAsPublished
<1>1. IInv => DecodedAsPublished
  BY DEF IInv
<1> QED
  BY <1>1, Invariant, PTL

(* The two look-ups of satpos_ssr give an orbit and a clock that were      *)
(* published together, and never an older pair than before: network,       *)
(* channel and user implement the service.                                 *)
THEOREM UserGetsThePublished == Spec => ImplementsService
<1>1. Init => Service!ServiceInit
  BY Initially
<1>2. IInv /\ [Next]_vars => [Service!ServiceNext]_Service!serviceVars
  BY Inductive
<1> QED
  BY <1>1, <1>2, Invariant, PTL
     DEF Spec, ImplementsService, Service!ServiceSpec
==============================================================================
