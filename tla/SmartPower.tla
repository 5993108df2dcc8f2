------------------------------- MODULE SmartPower -------------------------------
(***********************************************************************************)
(* Driver of the Odroid Smart Power meters (smart_power_driver.c).  A timer asks    *)
(* the first meter that was plugged in for a sample, the answer arrives in a USB    *)
(* request (the "in" URB) that its callback submits again.  There is one timer and  *)
(* one buffer, and two kinds of user: files open for reading, and the monitoring    *)
(* module.  A meter may be unplugged under any of them.  What a sample contains is  *)
(* in MeterEnergy.                                                                  *)
(***********************************************************************************)
EXTENDS Naturals, FiniteSets

CONSTANTS
    Meter,          \* usb_spower structures
    NoMeter,        \* a null pointer
    Fd,             \* open files
    BufferSlots,    \* CBUFFER_CAPACITY
    MaxRefs,        \* bound: leaked references are counted up to this number
    MeterSetups     \* what may happen, each a set of strings:
                    \* "module"  the monitoring module is enabled and disabled
                    \* "files"   files are opened
                    \* "unplug"  meters are unplugged
                    \* "refuse"  the USB core refuses requests, memory runs out

VARIABLES
    meterSetup,
    meter,      \* usb_spower: where it is, kref, in URB, is an answer under way?
    gbl,        \* spower_gbl: dev, started, samples in the buffer, timer is pending
    leaving,    \* the meter that spower_stop_measurements works on without the lock,
    stopped,    \* and whether its URB has been killed
    fd,         \* private_data of the files, and how far spower_open has come
    module,     \* the monitoring module is enabled
    wrong       \* uses of memory after it was freed, a timer added twice
meterVars == <<meterSetup, meter, gbl, leaving, stopped, fd, module, wrong>>

MeterAssumption ==
    /\ NoMeter \notin Meter
    /\ IsFiniteSet(Fd)
    /\ BufferSlots \in Nat \ {0} /\ MaxRefs \in Nat

May(what) == what \in meterSetup
NoUser == [meter |-> NoMeter, reads |-> FALSE, step |-> "closed"]

Init ==
    /\ meterSetup \in MeterSetups
    /\ meter = [m \in Meter |-> [at |-> "none", refs |-> 0, urb |-> "none",
                                 answer |-> FALSE]]
    /\ gbl = [dev |-> NoMeter, started |-> 0, samples |-> 0, timer |-> FALSE]
    /\ leaving = NoMeter /\ stopped = FALSE
    /\ fd = [f \in Fd |-> NoUser]
    /\ module = FALSE
    /\ wrong = {}

\* kref_get and kref_put: spower_delete frees the structure with the last reference.
Got(M, m) == [M EXCEPT ![m].refs = @ + 1]

spower_delete(M, m) == [M EXCEPT ![m].at = "freed", ![m].refs = 0]
Put(M, m) == IF M[m].refs <= 1 THEN spower_delete(M, m) ELSE [M EXCEPT ![m].refs = @ - 1]

WrongUse(m) == {what \in {"freed URB"} : meter[m].urb = "freed"}
                 \cup {what \in {"freed meter"} : meter[m].at = "freed"}
\* Nor is a meter put that is gone, or put for the last time under its interface.
WrongPut(m) == {what \in {"freed meter"} :
                  \/ meter[m].at = "freed"
                  \/ meter[m].refs <= 1 /\ meter[m].at \in {"plugged", "leaving"}}
WrongTimer == {what \in {"timer added twice"} : gbl.timer}

\* Submission of the in URB: it fails while the URB is under way, or at the will of
\* the USB core.
Submittable(m) == meter[m].urb # "active"
Submitted(M, m) == [M EXCEPT ![m].urb = IF @ = "idle" THEN "active" ELSE @]
Killed(M, m) == [M EXCEPT ![m].urb = IF @ = "active" THEN "idle" ELSE @,
                          ![m].answer = FALSE]

-----------------------------------------------------------------------------------
(* The bus: probe and disconnect, in the thread of the USB hub.                     *)

spower_probe(m) ==
    /\ meter[m].at = "none"
    /\ meter' = [meter EXCEPT ![m] = [at |-> "plugged", refs |-> 1, urb |-> "idle",
                                      answer |-> FALSE]]
    /\ gbl' = [gbl EXCEPT !.dev = IF @ = NoMeter THEN m ELSE @]
    /\ UNCHANGED <<meterSetup, stopped, leaving, fd, module, wrong>>

\* Before the driver hears of it the USB core has cancelled the URBs.  The driver
\* frees them, and only then takes the meter from its users.
spower_disconnect(m) ==
    /\ May("unplug")
    /\ meter[m].at = "plugged"
    /\ meter' = [meter EXCEPT ![m].at = "leaving", ![m].urb = "freed",
                              ![m].answer = FALSE]
    /\ UNCHANGED <<meterSetup, stopped, gbl, leaving, fd, module, wrong>>

DisconnectEnds(m) ==
    /\ meter[m].at = "leaving"
    /\ meter' = Put([meter EXCEPT ![m].at = "gone"], m)
    /\ gbl' = [gbl EXCEPT !.dev = IF @ = m THEN NoMeter ELSE @]
    /\ UNCHANGED <<meterSetup, stopped, leaving, fd, module, wrong>>

-----------------------------------------------------------------------------------
(* Interrupts: the timer asks, the answer is buffered and the URB goes out again.   *)

spower_fire_timer ==
    /\ gbl.timer
    /\ IF gbl.dev = NoMeter
       THEN UNCHANGED <<meter, wrong>>
       ELSE /\ meter' = [meter EXCEPT ![gbl.dev].answer = meter[gbl.dev].urb = "active"]
            /\ wrong' = wrong \cup WrongUse(gbl.dev)
    /\ UNCHANGED <<meterSetup, stopped, gbl, leaving, fd, module>>

\* The answer may be an error, and the URB may be refused when it is sent again: nobody
\* looks at that, and the meter is not heard of until the next start.
spower_int_in_callback(m) ==
    /\ meter[m].urb = "active" /\ meter[m].answer
    /\ \E sampled, again \in BOOLEAN :
          /\ (sampled /\ again) \/ May("refuse")
          /\ meter' = [meter EXCEPT ![m].answer = FALSE,
                                    ![m].urb = IF again THEN @ ELSE "idle"]
          /\ gbl' = [gbl EXCEPT !.samples = IF sampled /\ @ < BufferSlots THEN @ + 1 ELSE @]
    /\ UNCHANGED <<meterSetup, stopped, leaving, fd, module, wrong>>

-----------------------------------------------------------------------------------
(* The monitoring module.                                                           *)

\* spower_enable_module: it stays disabled if this fails.
spower_start_measurements ==
    /\ May("module") /\ ~module
    /\ gbl.started = 0 /\ gbl.dev # NoMeter /\ meter[gbl.dev].refs < MaxRefs
    /\ LET m == gbl.dev
       IN  \/ /\ Submittable(m)
              /\ meter' = Submitted(Got(meter, m), m)
              /\ gbl' = [gbl EXCEPT !.started = 1, !.timer = TRUE]
              /\ module' = TRUE
              /\ wrong' = wrong \cup WrongUse(m) \cup WrongTimer
           \/ /\ ~Submittable(m) \/ May("refuse")
              /\ meter' = Got(meter, m)
              /\ wrong' = wrong \cup WrongUse(m)
              /\ UNCHANGED <<gbl, module>>
    /\ UNCHANGED <<meterSetup, stopped, leaving, fd>>

\* spower_disable_module.  Seeded fault: the meter is not asked to stop first.
spower_stop_measurements_KeepsTimer ==
    /\ module /\ leaving = NoMeter
    /\ module' = FALSE
    /\ UNCHANGED <<meterSetup, stopped, meter, gbl, leaving, fd, wrong>>

spower_stop_measurements ==
    /\ module /\ leaving = NoMeter
    /\ IF gbl.started # 1 \/ gbl.dev = NoMeter
       THEN /\ module' = FALSE
            /\ UNCHANGED <<gbl, leaving>>
       ELSE /\ gbl' = [gbl EXCEPT !.started = 2]
            /\ leaving' = gbl.dev
            /\ UNCHANGED module
    /\ UNCHANGED <<meterSetup, stopped, meter, fd, wrong>>

KillUrb ==
    /\ leaving # NoMeter /\ ~stopped
    /\ meter' = Killed(meter, leaving)
    /\ wrong' = wrong \cup WrongUse(leaving)
    /\ stopped' = TRUE
    /\ UNCHANGED <<meterSetup, gbl, leaving, fd, module>>

StopEnds ==
    /\ leaving # NoMeter /\ stopped
    /\ meter' = Put(meter, leaving)
    /\ wrong' = wrong \cup WrongPut(leaving)
    /\ gbl' = [gbl EXCEPT !.timer = FALSE, !.samples = 0, !.started = 0]
    /\ leaving' = NoMeter /\ stopped' = FALSE
    /\ module' = FALSE
    /\ UNCHANGED <<meterSetup, fd>>

-----------------------------------------------------------------------------------
(* Files.  spower_open looks at "started" without the lock.                         *)

OpenCheck(f, m, reads) ==
    /\ May("files")
    /\ fd[f] = NoUser
    /\ gbl.started = 0
    /\ meter[m].at = "plugged" /\ meter[m].refs < MaxRefs
    /\ fd' = [fd EXCEPT ![f] = [meter |-> m, reads |-> reads, step |-> "opening"]]
    /\ UNCHANGED <<meterSetup, stopped, meter, gbl, leaving, module, wrong>>

spower_open(f) ==
    LET m == fd[f].meter
    IN  /\ fd[f].step = "opening"
        /\ \/ /\ meter[m].at # "plugged"            \* no interface, or no data in it
              /\ fd' = [fd EXCEPT ![f] = NoUser]
              /\ UNCHANGED <<meter, gbl, wrong>>
           \/ /\ meter[m].at = "plugged" /\ ~fd[f].reads
              /\ meter' = Got(meter, m)
              /\ fd' = [fd EXCEPT ![f].step = "open"]
              /\ UNCHANGED <<gbl, wrong>>
           \/ /\ meter[m].at = "plugged" /\ fd[f].reads /\ Submittable(m)
              /\ meter' = Submitted(Got(meter, m), m)
              /\ fd' = [fd EXCEPT ![f].step = "open"]
              /\ gbl' = [gbl EXCEPT !.timer = @ \/ gbl.dev = m]
              /\ wrong' = wrong \cup (IF gbl.dev = m THEN WrongTimer ELSE {})
           \/ /\ meter[m].at = "plugged" /\ fd[f].reads
              /\ ~Submittable(m) \/ May("refuse")
              /\ meter' = Got(meter, m)
              /\ fd' = [fd EXCEPT ![f] = NoUser]
              /\ UNCHANGED <<gbl, wrong>>
        /\ UNCHANGED <<meterSetup, stopped, leaving, module>>

spower_release(f) ==
    LET m == fd[f].meter
    IN  /\ fd[f].step = "open"
        /\ meter' = IF fd[f].reads THEN Killed(meter, m) ELSE meter
        /\ wrong' = wrong \cup (IF fd[f].reads THEN WrongUse(m) ELSE {})
        /\ fd' = [fd EXCEPT ![f].step = "closing"]
        /\ UNCHANGED <<meterSetup, gbl, leaving, module, stopped>>

ReleaseEnds(f) ==
    LET m == fd[f].meter
    IN  /\ fd[f].step = "closing"
        /\ meter' = Put(meter, m)
        /\ wrong' = wrong \cup WrongPut(m)
        /\ gbl' = IF fd[f].reads THEN [gbl EXCEPT !.timer = FALSE, !.samples = 0] ELSE gbl
        /\ fd' = [fd EXCEPT ![f] = NoUser]
        /\ UNCHANGED <<meterSetup, leaving, module, stopped>>

Next ==
    \/ \E m \in Meter : \/ spower_probe(m) \/ spower_disconnect(m) \/ DisconnectEnds(m)
                        \/ spower_int_in_callback(m)
    \/ spower_fire_timer
    \/ spower_start_measurements \/ spower_stop_measurements \/ KillUrb \/ StopEnds
    \/ \E f \in Fd : \/ \E m \in Meter, reads \in BOOLEAN : OpenCheck(f, m, reads)
                     \/ spower_open(f) \/ spower_release(f) \/ ReleaseEnds(f)

Spec == Init /\ [][Next]_meterVars

-----------------------------------------------------------------------------------
Readers == {f \in Fd : fd[f].step # "closed" /\ fd[f].reads}

\* One user at a time: the module, or one file, which is what the test of "started" in
\* spower_open is for.  spower_start_measurements has no such test for files, and two
\* files may be open for reading at a time.
OneUser == \/ ~May("files")
           \/ ~May("module") /\ Cardinality(Fd) = 1

TypeOK ==
    /\ meter \in [Meter -> [at : {"none", "plugged", "leaving", "gone", "freed"},
                            refs : Nat, answer : BOOLEAN,
                            urb : {"none", "idle", "active", "freed"}]]
    /\ gbl \in [dev : Meter \cup {NoMeter}, started : 0 .. 2, samples : 0 .. BufferSlots,
                timer : BOOLEAN]
    /\ leaving \in Meter \cup {NoMeter}
    /\ fd \in [Fd -> [meter : Meter \cup {NoMeter}, reads : BOOLEAN,
                      step : {"closed", "opening", "open", "closing"}]]
    /\ module \in BOOLEAN

\* A meter is referred to by the interface, by each open file and by the module that
\* measures with it, and is freed with the last of them: neither early, under somebody
\* who uses it, nor never.  A user that is refused keeps the reference it took, so this
\* is promised where requests are not refused and there is one user at a time.
MeterRefsAreUsers ==
    OneUser /\ ~May("refuse") /\ ~(May("unplug") /\ May("module"))
    => \A m \in Meter :
          LET users == Cardinality({f \in Fd : fd[f].step \in {"open", "closing"} /\ fd[f].meter = m})
                       + (IF meter[m].at \in {"plugged", "leaving"} THEN 1 ELSE 0)
                       + (IF module /\ gbl.dev = m THEN 1 ELSE 0)
          IN  /\ meter[m].refs = users
              /\ meter[m].at = "freed" => users = 0
              /\ meter[m].at = "gone" => users > 0

\* With one user at a time, a timer is not added while it is pending; a meter is not
\* used after it is freed, nor freed under its interface, even if it is unplugged under
\* the file that reads it; and a URB is not used after it is freed, as long as meters
\* stay plugged in.  Unplugged under the module, they are (OwnMeterIsPut below).
NothingWrong ==
    OneUser => /\ "timer added twice" \notin wrong
               /\ ~(May("unplug") /\ May("module")) => "freed meter" \notin wrong
               /\ ~May("unplug") => "freed URB" \notin wrong

\* Without a user the timer is off, no URB is under way and the buffer is empty: the
\* next measurement starts afresh, and the driver can be unloaded.  A module whose
\* meter was unplugged cannot stop any more.
QuietWithoutUser ==
    /\ ~(May("unplug") /\ May("module"))
    /\ ~module /\ Readers = {}
    => /\ gbl.started = 0 /\ ~gbl.timer /\ gbl.samples = 0
       /\ \A m \in Meter : meter[m].urb # "active"

\* While the module measures, nobody else stops its timer or its requests; only the USB
\* core may end them.
ModuleKeepsMeasuring ==
    (~May("files") /\ ~May("unplug")) /\ module /\ gbl.started = 1
    => gbl.timer /\ (May("refuse") \/ meter[gbl.dev].urb = "active")

\* "increment our usage count for the device" and "decrement the count on our device": the
\* reference that a stop puts is the one that the start took, so that a meter is not
\* freed while it is in use.  It is not so if another meter was plugged in after the
\* first one went.
OwnMeterIsPut == "freed meter" \notin wrong

SmartPowerIsSound ==
    MeterRefsAreUsers /\ NothingWrong /\ QuietWithoutUser /\ ModuleKeepsMeasuring
=================================================================================
