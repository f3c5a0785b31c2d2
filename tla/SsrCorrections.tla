--------------------------- MODULE SsrCorrections ----------------------------
(***************************************************************************)
(* SSR corrections on their way from a network to a user: what the network *)
(* computes in each epoch and publishes at each update of a satellite      *)
(* (calcSsrCorrections of common/acsStream.cpp), how orbits and clocks are *)
(* paired and encoded (common/rtcmEncoder.cpp), how the user decodes them  *)
(* (SSRDecoder of common/acsStream.cpp) and which of them it applies       *)
(* (satpos_ssr of rtklib/ephemeris.cpp).                                   *)
(*                                                                         *)
(* A position or a clock is represented by its stamp: the epoch in which   *)
(* it was computed or output, for what comes from the broadcast ephemeris  *)
(* also the ephemeris' issue of data, and for a clock whether it is that   *)
(* of the lagged smoothed filter.  A tick is half an epoch interval, so    *)
(* that the middle of an update interval is a whole number of ticks.  The  *)
(* satellites are those of one system: each is encoded by itself.          *)
(***************************************************************************)
EXTENDS Integers, Sequences

CONSTANTS
    Satellites,
    UdiNumEpochs,    \* update interval in epochs
    Risen,           \* per satellite: epochs at which it can be seen
    Precise,         \* per satellite: epochs the precise ephemeris covers
    OutputARClocks,  \* output_AR_clocks
    RtsLag,          \* rts_lag; 0 if there is no lagged smoothing or its
                     \* clocks are not output
    Week,            \* ticks in a week
    MaxAge,          \* MAXAGESSR in ticks
    MaxDelay,        \* ticks from an epoch to the decoding of its messages
    MaxEpoch,        \* bound on the epochs
    MaxExcess,       \* bound on the epochs that a late process skips
    MaxKept,         \* bound on the epochs for which no file can be opened,
                     \* so that an update is kept back; 0 with a caster
    Issues,          \* per satellite: the issues of data of its ephemerides,
                     \* and 0 if the network may be without one
    None             \* no correction

ASSUME ConstantsAssumption ==
    /\ UdiNumEpochs \in Nat \ {0}
    /\ Risen \in [Satellites -> SUBSET Nat]
    /\ Precise \in [Satellites -> SUBSET Nat]
    /\ OutputARClocks \in BOOLEAN
    /\ Issues \in [Satellites -> SUBSET Nat]
    /\ {MaxAge, MaxDelay, MaxEpoch, MaxExcess, MaxKept, RtsLag} \subseteq Nat
    /\ Week \in Nat \ {0}
    /\ 2 * UdiNumEpochs <= Week
    /\ 2 * (MaxDelay + 2 * MaxKept - UdiNumEpochs) < Week

VARIABLES
    now,         \* the time, on both sides
    epoch,       \* the epoch the network processed last, 0: none
    satNavs,     \* satellites with an entry in nav.satNavMap
    clocked,     \* satellites with a SAT_CLOCK state in the filter
    ssrOut,      \* per satellite: what the network holds for its next update
    export,      \* per satellite: the orbit and the clock, none or one of
                 \* each, for which canExport is set
    updates,     \* per satellite: the epochs of its updates (history)
    waiting,     \* per satellite: epochs in a row in which it was not
                 \* published although nothing was missing (history)
    published,   \* the corrections published (history)
    channel,     \* messages on their way
    userEpoch,
    ssr,         \* per satellite: the user's ssrEph_map and ssrClk_map
    applied,     \* per satellite: the correction used in the last epoch
    reached      \* per satellite: t0 of the latest one used (history)

networkVars ==
    <<epoch, satNavs, clocked, ssrOut, export, updates, waiting, published>>
userVars    == <<userEpoch, applied, reached>>
vars == <<now, channel, ssr, networkVars, userVars>>

Epochs == 1 .. MaxEpoch
Stamps == 0 .. MaxEpoch          \* 0: the flag is...Set is false
BroadcastStamps == [at : Stamps, iode : Nat]
ClockStamps == [at : Stamps, smoothed : BOOLEAN]
Unset == [at |-> 0, iode |-> 0]
UnsetClock == [at |-> 0, smoothed |-> FALSE]

Tsync(e) == 2 * e

AllIssues == UNION {Issues[s] : s \in Satellites}

SsrOut ==
    [preciseClock : ClockStamps, broadcast : BroadcastStamps, iode : Nat,
     precise : Stamps, nextBroadcast : BroadcastStamps, nextPrecise : Stamps,
     epochsSinceUpdate : Nat]

(* No stamp is of an epoch to come. *)
StampsUpTo(e, out) ==
    {out.preciseClock.at, out.precise, out.nextPrecise,
     out.broadcast.at, out.nextBroadcast.at} \subseteq 0 .. e

Orbits ==
    [iode : Nat, precise : Stamps, broadcast : BroadcastStamps,
     nextPrecise : Stamps, nextBroadcast : BroadcastStamps]

Clocks == [precise : ClockStamps, broadcast : BroadcastStamps]

Corrections == [sat : Satellites, t0 : Nat, eph : Orbits, clk : Clocks]

(* The entries of a message: one for each of its satellites. *)
Entries == [sat : Satellites, eph : Orbits, clk : Clocks]

(* Of a message t0 is the reference time it is meant to have, and sent the *)
(* time of the epoch that wrote it; neither is transmitted.                *)
Messages ==
    [t0 : Nat, sent : Nat, epochTime1s : Nat, entries : SUBSET Entries]

OrbitRecords == [t0 : Nat, corr : Orbits]
ClockRecords == [t0 : Nat, corr : Clocks]

Records == [eph : SUBSET OrbitRecords, clk : SUBSET ClockRecords]
NoRecords == [eph |-> {}, clk |-> {}]

TypeOK ==
    /\ now \in Nat
    /\ epoch \in 0 .. MaxEpoch
    /\ satNavs \subseteq Satellites
    /\ clocked \subseteq Satellites
    /\ ssrOut \in [Satellites -> SsrOut]
    /\ \A s \in Satellites : StampsUpTo(epoch, ssrOut[s])
    /\ export \in [Satellites -> Records]
    /\ updates \in [Satellites -> SUBSET (1 .. epoch)]
    /\ waiting \in [Satellites -> Nat]
    /\ published \subseteq Corrections
    /\ channel \in Seq(Messages)
    /\ userEpoch \in Nat
    /\ ssr \in [Satellites -> Records]
    /\ applied \in [Satellites -> Corrections \cup {None}]
    /\ reached \in [Satellites -> Nat]

Init ==
    /\ now = 0
    /\ epoch = 0
    /\ satNavs = {}
    /\ clocked = {}
    /\ ssrOut = [s \in Satellites |->
          [preciseClock |-> UnsetClock, broadcast |-> Unset, iode |-> 0,
           precise |-> 0, nextBroadcast |-> Unset, nextPrecise |-> 0,
           epochsSinceUpdate |-> 0]]
    /\ export = [s \in Satellites |-> NoRecords]
    /\ updates = [s \in Satellites |-> {}]
    /\ waiting = [s \in Satellites |-> 0]
    /\ published = {}
    /\ channel = <<>>
    /\ userEpoch = 0
    /\ ssr = [s \in Satellites |-> NoRecords]
    /\ applied = [s \in Satellites |-> None]
    /\ reached = [s \in Satellites |-> 0]

------------------------------------------------------------------------------
(* The network *)

(* What outputSatelliteClocks may leave for a satellite: nothing, the      *)
(* clock of the filter or of its ambiguity-fixed copy, or that of the      *)
(* lagged smoothed filter, which is output last.  Only satellites in the   *)
(* filter get one, and those of the smoothed filter are among them.  With  *)
(* output_AR_clocks it depends on ARsol_ready(), which is asked for each   *)
(* satellite and may change its answer from one to the next.               *)
ClocksOutput(s, e, inFilter) ==
    IF s \notin inFilter THEN {"nothing"}
    ELSE (IF OutputARClocks THEN {"nothing", "filter"} ELSE {"filter"})
         \cup (IF RtsLag > 0 /\ e > RtsLag THEN {"smoothed"} ELSE {})

WithClock(out, e, clock) ==
    IF clock = "nothing" THEN out
    ELSE [out EXCEPT !.preciseClock =
                        [at |-> e, smoothed |-> clock = "smoothed"]]

(* Mutant: all is computed for the end of the interval. *)
WithNextOrbits(out, s, e, iode) ==
    IF iode = 0 THEN out
    ELSE [out EXCEPT !.broadcast = [at |-> e + UdiNumEpochs, iode |-> iode],
                     !.iode = iode, !.precise = e + UdiNumEpochs,
                     !.nextBroadcast = [at |-> e, iode |-> iode],
                     !.nextPrecise = e]

(* The first part of calcSsrCorrections: positions and broadcast clocks at *)
(* tsync and an update interval later.  The flags ...Set are the stamps;   *)
(* isBroadcastSet is set and cleared for orbit and clock together.         *)
WithOrbits(out, s, e, iode) ==
    LET broadcast == [at |-> e, iode |-> iode]
        withBroadcast ==
            IF iode # 0
            THEN [out EXCEPT !.broadcast = broadcast, !.iode = iode,
                             !.nextBroadcast = broadcast]
            ELSE out
        withPrecise ==
            IF e \in Precise[s] THEN [withBroadcast EXCEPT !.precise = e]
            ELSE withBroadcast
    IN  IF e + UdiNumEpochs \in Precise[s]
        THEN [withPrecise EXCEPT !.nextPrecise = e]
        ELSE withPrecise

(* numObs counts the measurements of this epoch only (initSsrOut). *)
ClockReady(out, observed) ==
    out.preciseClock.at # 0 /\ out.broadcast.at # 0 /\ observed

OrbitReady(out, observed) ==
    /\ out.precise # 0 /\ out.broadcast.at # 0
    /\ out.nextPrecise # 0 /\ out.nextBroadcast.at # 0
    /\ observed

(* Mutant: off by one. *)
UpdateDueLate(out) == out.epochsSinceUpdate > UdiNumEpochs

UpdateDue(out) == out.epochsSinceUpdate >= UdiNumEpochs

(* Mutant: the clock is not cleared. *)
ClearedButClock(out) ==
    [out EXCEPT !.broadcast = Unset, !.precise = 0, !.epochsSinceUpdate = 0]

(* The end of an update: isNextPreciseSet and isNextBroadcastSet stay. *)
Cleared(out) ==
    [out EXCEPT !.preciseClock = UnsetClock, !.broadcast = Unset, !.precise = 0,
                !.epochsSinceUpdate = 0]

Counted(out) == [out EXCEPT !.epochsSinceUpdate = @ + 1]

AfterUpdate(out) == Counted(IF UpdateDue(out) THEN Cleared(out) ELSE out)

OrbitOf(out) ==
    [iode |-> out.iode, precise |-> out.precise, broadcast |-> out.broadcast,
     nextPrecise |-> out.nextPrecise, nextBroadcast |-> out.nextBroadcast]

ClockOf(out) == [precise |-> out.preciseClock, broadcast |-> out.broadcast]

ReferenceTime(t) == t + UdiNumEpochs

(* The time of the update of a reference time. *)
UpdateTime(t0) == t0 - UdiNumEpochs

(* What calcSsrCorrections sets canExport for, beside what is still there  *)
(* from before: the issue of data of such an orbit is the present one.     *)
ExportedOrbits(s, e, out, observed) ==
    IF UpdateDue(out) /\ OrbitReady(out, observed)
    THEN {[t0 |-> ReferenceTime(Tsync(e)), corr |-> OrbitOf(out)]}
    ELSE {[t0 |-> r.t0, corr |-> [r.corr EXCEPT !.iode = out.iode]] :
             r \in export[s].eph}

ExportedClocks(s, e, out, observed) ==
    IF UpdateDue(out) /\ ClockReady(out, observed)
    THEN {[t0 |-> ReferenceTime(Tsync(e)), corr |-> ClockOf(out)]}
    ELSE export[s].clk

Exported(e, outs, used) ==
    [s \in Satellites |-> [eph |-> ExportedOrbits(s, e, outs[s], s \in used),
                           clk |-> ExportedClocks(s, e, outs[s], s \in used)]]

At(records, t0) == {r \in records : r.t0 = t0}

(* encodeSsrComb takes the first reference time that some orbit and some   *)
(* clock have.                                                             *)
OrbitTimes(records) ==
    UNION {{r.t0 : r \in records[s].eph} : s \in Satellites}

ClockTimes(records) ==
    UNION {{r.t0 : r \in records[s].clk} : s \in Satellites}

CommonTimes(records) == OrbitTimes(records) \cap ClockTimes(records)

FirstTimes(records) ==
    {t0 \in CommonTimes(records) : \A t \in CommonTimes(records) : t0 <= t}

(* It sends the satellites that have both at that time. *)
Paired(records, t0) ==
    UNION {{[sat |-> s, eph |-> orbit.corr, clk |-> clock.corr] :
               orbit \in At(records[s].eph, t0), clock \in At(records[s].clk, t0)} :
           s \in Satellites}

(* time2gpst: the time of the week. *)
TimeOfWeek(t) == t % Week

CorrectionOf(entry, t0) ==
    [sat |-> entry.sat, t0 |-> t0, eph |-> entry.eph, clk |-> entry.clk]

Message(e, t0, entries) ==
    [t0 |-> t0, sent |-> Tsync(e), epochTime1s |-> TimeOfWeek(UpdateTime(t0)),
     entries |-> entries]

(* The flags canExport are cleared for all, sent or not.  (If no satellite *)
(* has both, the message has no satellites either: nothing for the user.)  *)
Encode(e, records) ==
    /\ export' = [s \in Satellites |-> NoRecords]
    /\ \/ /\ FirstTimes(records) = {}
          /\ UNCHANGED <<published, channel>>
       \/ \E t0 \in FirstTimes(records) :
             LET entries == Paired(records, t0)
             IN  /\ published' =
                       published \cup {CorrectionOf(c, t0) : c \in entries}
                 /\ channel' = IF entries = {} THEN channel
                               ELSE Append(channel, Message(e, t0, entries))

(* rtcmEncodeToFile returns before it encodes if it cannot open the file. *)
EncodeToFile(e, records, opened) ==
    \/ opened /\ Encode(e, records)
    \/ ~opened /\ export' = records /\ UNCHANGED <<published, channel>>

(* Everything a correction needs is computed in the epoch. *)
AllComputed(s, e, used, clock, latest) ==
    /\ s \in DOMAIN latest /\ s \in used
    /\ clock # "nothing" /\ latest[s] # 0
    /\ e \in Precise[s] /\ e + UdiNumEpochs \in Precise[s]

KeptBack == UNION {export[s].eph \cup export[s].clk : s \in Satellites}

Evaluated(s, e, clock, latest) ==
    LET out == WithClock(ssrOut[s], e, clock)
    IN  IF s \in DOMAIN latest THEN WithOrbits(out, s, e, latest[s]) ELSE out

(* One epoch of the network (mainOncePerEpoch).  Some of the visible       *)
(* satellites are used in the filter; clocks is what is output of each     *)
(* one's clock; latest is the broadcast ephemeris it has of each visible   *)
(* one, 0 if none is recent enough (seleph); the file is opened or not.    *)
NetworkEpoch(e, used, clocks, latest, opened) ==
    LET outs == [s \in Satellites |-> Evaluated(s, e, clocks[s], latest)]
    IN  /\ epoch' = e
        /\ satNavs' = satNavs \cup DOMAIN latest
        /\ clocked' = clocked \cup used
        /\ ssrOut' = [s \in Satellites |->
              IF s \in satNavs' THEN AfterUpdate(outs[s]) ELSE outs[s]]
        /\ updates' = [s \in Satellites |->
              IF s \in satNavs' /\ UpdateDue(outs[s])
              THEN updates[s] \cup {e} ELSE updates[s]]
        /\ EncodeToFile(e, Exported(e, outs, used), opened)
        /\ waiting' = [s \in Satellites |->
              IF /\ AllComputed(s, e, used, clocks[s], latest)
                 /\ opened /\ KeptBack = {}
                 /\ \A c \in published' \ published : c.sat # s
              THEN waiting[s] + 1 ELSE 0]
        /\ UNCHANGED <<now, ssr, userVars>>

NetworkLoop ==
    \E e \in epoch + 1 .. epoch + 1 + MaxExcess :
        /\ e <= MaxEpoch
        /\ Tsync(e) <= now /\ now <= Tsync(e) + MaxDelay
        /\ \A r \in KeptBack : Tsync(e) <= UpdateTime(r.t0) + 2 * MaxKept
        /\ \E visible \in SUBSET {s \in Satellites : e \in Risen[s]} :
           \E used \in SUBSET visible :
           \E clocks \in [Satellites -> {"nothing", "filter", "smoothed"}] :
           \E latest \in [visible -> AllIssues] : \E opened \in BOOLEAN :
              /\ \A s \in Satellites :
                    clocks[s] \in ClocksOutput(s, e, clocked \cup used)
              /\ \A s \in visible : latest[s] \in Issues[s]
              /\ opened \/ MaxKept > 0
              /\ NetworkEpoch(e, used, clocks, latest, opened)

------------------------------------------------------------------------------
(* On the way *)

LoseMessage ==
    /\ channel # <<>>
    /\ channel' = Tail(channel)
    /\ UNCHANGED <<now, ssr, networkVars, userVars>>

Tick ==
    /\ \A i \in 1 .. Len(channel) : now < channel[i].sent + MaxDelay
    /\ now < Tsync(MaxEpoch) + MaxDelay
    /\ now' = now + 1
    /\ UNCHANGED <<channel, ssr, networkVars, userVars>>

------------------------------------------------------------------------------
(* The user *)

(* Mutant: the time of the week is taken to be of this week. *)
SetTimeThisWeek(tow) == (now \div Week) * Week + tow

(* setTime: a time of the week, which may be past the end of it, becomes   *)
(* the time next to the present that has it.                               *)
SetTime(tow) ==
    LET towNow == now % Week
        near == IF 2 * (towNow - tow) > Week THEN tow + Week
                ELSE IF 2 * (tow - towNow) > Week THEN tow - Week
                ELSE tow
    IN  (now \div Week) * Week + near

Newest(records) ==
    CHOOSE r \in records : \A q \in records : q.t0 <= r.t0

(* The issue of data of all messages is masterIod: a record replaces the   *)
(* one of its time unless it is the newest.                                *)
Inserted(records, new) ==
    IF records # {} /\ Newest(records).t0 = new.t0 THEN records
    ELSE {r \in records : r.t0 # new.t0} \cup {new}

EntryOf(entries, s) == CHOOSE c \in entries : c.sat = s

DecodeSSR ==
    /\ channel # <<>>
    /\ LET t0 == SetTime(ReferenceTime(Head(channel).epochTime1s))
           entries == Head(channel).entries
       IN  ssr' = [s \in Satellites |->
              IF \E c \in entries : c.sat = s
              THEN [eph |-> Inserted(ssr[s].eph,
                               [t0 |-> t0, corr |-> EntryOf(entries, s).eph]),
                    clk |-> Inserted(ssr[s].clk,
                               [t0 |-> t0, corr |-> EntryOf(entries, s).clk])]
              ELSE ssr[s]]
    /\ channel' = Tail(channel)
    /\ UNCHANGED <<now, networkVars, userVars>>

(* lower_bound of a map in descending order, for a time of transmission:   *)
(* that is a little before the time of the epoch, less than a tick.        *)
Before(records, time) == {r \in records : r.t0 < time}

(* Mutant: the newest orbit there is, with the clock of the time asked for. *)
SatposNewestOrbit(s, time, hasEphemeris) ==
    LET clks == Before(ssr[s].clk, time)
        eph == Newest(ssr[s].eph)
        clk == Newest(clks)
    IN  IF /\ clks # {}
           /\ time - eph.t0 <= MaxAge /\ time - clk.t0 <= MaxAge
           /\ hasEphemeris
        THEN [sat |-> s, t0 |-> eph.t0, eph |-> eph.corr, clk |-> clk.corr]
        ELSE None

(* satpos_ssr of a satellite, whose broadcast ephemeris the user may lack  *)
(* or whose correction may be too large.                                   *)
SatposSsr(s, time, hasEphemeris) ==
    LET ephs == Before(ssr[s].eph, time)
        clks == Before(ssr[s].clk, time)
        eph == Newest(ephs)
        clk == Newest(clks)
    IN  IF /\ ephs # {} /\ clks # {}
           /\ time - eph.t0 <= MaxAge /\ time - clk.t0 <= MaxAge
           /\ hasEphemeris
        THEN [sat |-> s, t0 |-> eph.t0, eph |-> eph.corr, clk |-> clk.corr]
        ELSE None

UserLoop ==
    \E u \in userEpoch + 1 .. userEpoch + 1 + MaxExcess :
        /\ u <= MaxEpoch + UdiNumEpochs
        /\ Tsync(u) <= now
        /\ userEpoch' = u
        /\ \E held \in SUBSET {s \in Satellites : ssr[s] # NoRecords} :
              applied' = [s \in Satellites |->
                  SatposSsr(s, Tsync(u), s \in held)]
        /\ reached' = [s \in Satellites |->
              IF applied'[s] = None THEN reached[s] ELSE applied'[s].t0]
        /\ UNCHANGED <<now, channel, ssr, networkVars>>

Next ==
    \/ NetworkLoop
    \/ LoseMessage \/ Tick
    \/ DecodeSSR
    \/ UserLoop

Spec == Init /\ [][Next]_vars

------------------------------------------------------------------------------
(* Properties *)

(* A part computed by the update of reference time t0, after the update    *)
(* before that.                                                            *)
Recent(stamp, s, t0) ==
    /\ stamp # 0 /\ Tsync(stamp) <= UpdateTime(t0)
    /\ \A w \in updates[s] : Tsync(w) < UpdateTime(t0) => w < stamp

(* The parts of a correction are set in several places, not all in each    *)
(* epoch, and their flags outlive the epoch, as canExport does a file that *)
(* cannot be opened: they may be of different epochs.  Still each one is   *)
(* of the update interval the correction is for, none is left from the     *)
(* satellite's update before, whether that published anything or not, and  *)
(* orbit and clock are relative to the same broadcast ephemeris.  The      *)
(* epoch of a clock is that in which it was output; a smoothed one lags    *)
(* behind it, and there is none before the filter has run for longer than  *)
(* the lag.  The orbit for the end of the interval is excepted, its flag   *)
(* is never cleared; and an orbit kept back gets a later issue of data.    *)
PartsAreRecent ==
    \A c \in published :
        /\ \A stamp \in {c.clk.precise.at, c.eph.precise, c.eph.broadcast.at} :
              Recent(stamp, c.sat, c.t0)
        /\ c.clk.precise.smoothed => RtsLag > 0 /\ c.clk.precise.at > RtsLag
        /\ c.eph.nextBroadcast = c.eph.broadcast
        /\ c.clk.broadcast = c.eph.broadcast
        /\ c.t0 = ReferenceTime(Tsync(epoch)) =>
              c.eph.iode = c.eph.broadcast.iode

(* Each satellite has update epochs of its own, and updates that publish   *)
(* nothing count too: still one for which everything is at hand, in epochs *)
(* whose file is written and which find nothing kept back from before, is  *)
(* published within an update interval.                                    *)
EveryoneServed == \A s \in Satellites : waiting[s] <= UdiNumEpochs

(* What the user has decoded was published, for that satellite and for     *)
(* that reference time, of which only the time of the week is sent; the    *)
(* week may turn while a message is on its way or within its interval.     *)
DecodedAsPublished ==
    \A s \in Satellites :
        /\ \A r \in ssr[s].eph : \E c \in published :
              c.sat = s /\ c.t0 = r.t0 /\ c.eph = r.corr
        /\ \A r \in ssr[s].clk : \E c \in published :
              c.sat = s /\ c.t0 = r.t0 /\ c.clk = r.corr

Service == INSTANCE CorrectionService WITH
    inUse <- applied, NoCorrection <- None

(* The user looks up orbit and clock separately and checks an issue of     *)
(* data that is the same in all messages; still it applies what was        *)
(* published as one, and never goes back to an older correction.           *)
ImplementsService == Service!ServiceSpec
==============================================================================
