------------------------------- MODULE Search -------------------------------
(* The search for the devices of a bus (ow_search.c): the bus master walks   *)
(* the tree of serial numbers bit by bit, one device per call of BUS_next,   *)
(* and tries a pass again, up to three times, if the bus fails in it.        *)
(*                                                                           *)
(* At each bit all devices still on the path answer at once and the master   *)
(* reads the AND of their bits and the AND of the complements; then it sends *)
(* a bit and the devices that have another one fall silent until the next    *)
(* reset.  A serial number has B bits here instead of 64.  Any exchange with *)
(* the bus may fail, and devices may be unplugged at any time, also half-way *)
(* through a pass; what is read from the bus is what the devices said.       *)
EXTENDS Integers, FiniteSets

CONSTANTS
    B,          \* bits of a serial number
    Tries,      \* 3
    MaxUnplug   \* bound: devices that are unplugged during a search

ASSUME SearchAssumption == B \in Nat \ {0} /\ Tries \in Nat \ {0} /\ MaxUnplug \in Nat

Bit == {0, 1}
SN == [0..(B - 1) -> Bit]

VARIABLES
    dev,                \* the devices on the bus
    orig,               \* those at BUS_first
    sn, LastDiscrepancy, LastDevice,    \* struct device_search
    status,             \* of BUS_next; "select" and "bits" while it runs
    try,                \* of BUS_next_3try
    bit_number, search_direction, last_zero,    \* of the pass
    active,             \* devices that follow the path of the pass
    found               \* what the caller got from earlier calls

vars == <<dev, orig, sn, LastDiscrepancy, LastDevice, status, try,
          bit_number, search_direction, last_zero, active, found>>
ds == <<sn, LastDiscrepancy, LastDevice>>
pass == <<bit_number, search_direction, last_zero, active>>

TypeOK ==
    /\ dev \subseteq orig /\ orig \subseteq SN
    /\ sn \in SN /\ LastDiscrepancy \in -1..(B - 1) /\ LastDevice \in BOOLEAN
    /\ status \in {"first", "select", "bits", "good", "done", "error"}
    /\ try \in 1..Tries
    /\ bit_number \in 0..B /\ search_direction \in Bit /\ last_zero \in -1..(B - 1)
    /\ active \subseteq orig /\ found \subseteq SN

\* BUS_first_both
Init ==
    /\ orig \in SUBSET SN /\ dev = orig
    /\ sn = [i \in 0..(B - 1) |-> 0] /\ LastDiscrepancy = -1 /\ LastDevice = FALSE
    /\ status = "first" /\ try = 1
    /\ bit_number = 0 /\ search_direction = 0 /\ last_zero = -1
    /\ active = {} /\ found = {}

-----------------------------------------------------------------------------
\* The locals of BUS_next_both_bitbang end with it.
PassOver == bit_number' = 0 /\ search_direction' = 0 /\ last_zero' = -1 /\ active' = {}

\* The caller asks for a device, or for one more.
BUS_next ==
    /\ status \in {"first", "good"}
    /\ found' = IF status = "good" THEN found \cup {sn} ELSE found
    /\ status' = "select" /\ try' = 1
    /\ UNCHANGED <<dev, orig, ds, pass>>

\* Variant: a pass that failed moves the search on.
Fail_Moves ==
    /\ status \in {"select", "bits"}
    /\ LastDiscrepancy' = last_zero
    /\ IF try < Tries THEN try' = try + 1 /\ status' = "select"
                      ELSE status' = "error" /\ UNCHANGED try
    /\ PassOver
    /\ UNCHANGED <<dev, orig, sn, LastDevice, found>>

\* Variant: an error is always tried again.
Fail_Endless ==
    /\ status \in {"select", "bits"}
    /\ status' = "select"
    /\ PassOver
    /\ UNCHANGED <<dev, orig, ds, try, found>>

\* An exchange with the bus fails; BUS_next_3try goes on to the next try.  sn
\* keeps the bits that the pass has set.
Fail ==
    /\ status \in {"select", "bits"}
    /\ IF try < Tries THEN try' = try + 1 /\ status' = "select"
                      ELSE status' = "error" /\ UNCHANGED try
    /\ PassOver
    /\ UNCHANGED <<dev, orig, ds, found>>

\* BUS_select and the search command: every device on the bus listens.
Select ==
    /\ status = "select"
    /\ IF LastDevice \/ dev = {}
       THEN status' = "done" /\ LastDevice' = TRUE /\ UNCHANGED pass
       ELSE /\ status' = "bits" /\ active' = dev
            /\ bit_number' = 0 /\ search_direction' = 0 /\ last_zero' = -1
            /\ UNCHANGED LastDevice
    /\ UNCHANGED <<dev, orig, sn, LastDiscrepancy, try, found>>

\* The devices that follow once search_direction has been sent.
Follow == {d \in active \cap dev : bit_number > 0 => d[bit_number - 1] = search_direction}

\* Variant: the branch taken before is not remembered in front of the last
\* discrepancy.
Direction_Forgets(S) ==
    IF \A d \in S : d[bit_number] = 1 THEN 1
    ELSE IF \A d \in S : d[bit_number] = 0 THEN 0
    ELSE IF bit_number = LastDiscrepancy THEN 1
    ELSE 0

\* The bit to go on with, from the two bits that devices S answer.
Direction(S) ==
    IF \A d \in S : d[bit_number] = 1 THEN 1
    ELSE IF \A d \in S : d[bit_number] = 0 THEN 0
    ELSE IF bit_number > LastDiscrepancy THEN 0
    ELSE IF bit_number = LastDiscrepancy THEN 1
    ELSE sn[bit_number]

\* Variant: silence is taken for a bit.
NextBit_Silence ==
    /\ status = "bits" /\ bit_number < B
    /\ LET S == Follow
           b == IF S = {} THEN 1 ELSE Direction(S)
       IN  /\ search_direction' = b /\ sn' = [sn EXCEPT ![bit_number] = b]
           /\ last_zero' = IF b = 0 /\ \E d \in S : d[bit_number] = 1 THEN bit_number ELSE last_zero
           /\ bit_number' = bit_number + 1 /\ active' = S
           /\ UNCHANGED <<status, LastDevice>>
    /\ UNCHANGED <<dev, orig, LastDiscrepancy, try, found>>

\* One round of the loop of BUS_next_both_bitbang.  If nobody answers, the
\* search is over.
NextBit ==
    /\ status = "bits" /\ bit_number < B
    /\ LET S == Follow
           b == Direction(S)
       IN  IF S = {}
           THEN status' = "done" /\ LastDevice' = TRUE /\ PassOver /\ UNCHANGED sn
           ELSE /\ search_direction' = b /\ sn' = [sn EXCEPT ![bit_number] = b]
                /\ last_zero' = IF b = 0 /\ \E d \in S : d[bit_number] = 1 THEN bit_number ELSE last_zero
                /\ bit_number' = bit_number + 1 /\ active' = S
                /\ UNCHANGED <<status, LastDevice>>
    /\ UNCHANGED <<dev, orig, LastDiscrepancy, try, found>>

\* The last bit has been sent.  The check of the CRC and of the family code
\* goes well, as sn is the serial number of a device.
Found ==
    /\ status = "bits" /\ bit_number = B
    /\ status' = "good"
    /\ LastDiscrepancy' = last_zero /\ LastDevice' = (last_zero < 0)
    /\ PassOver
    /\ UNCHANGED <<dev, orig, sn, try, found>>

Unplug(d) ==
    /\ d \in dev /\ status \notin {"done", "error"}
    /\ Cardinality(orig \ dev) < MaxUnplug
    /\ dev' = dev \ {d}
    /\ UNCHANGED <<orig, ds, status, try, pass, found>>

\* The search is over.
Over == status \in {"done", "error"} /\ UNCHANGED vars

Step == BUS_next \/ Fail \/ Select \/ NextBit \/ Found

Next == Step \/ Over \/ \E d \in SN : Unplug(d)

Spec == Init /\ [][Next]_vars

\* The caller asks until there is no more, and every exchange returns.
FairSpec == Spec /\ WF_vars(Step)

-----------------------------------------------------------------------------
(* Properties *)

\* A search that ends without an error has found every device, if none was
\* unplugged: no branch of the tree is skipped, whatever passes were tried
\* again ("Since ds->LastDescrepancy is altered only on success a repeat is
\* legal").
Complete == status = "done" /\ dev = orig => found = orig

\* It finds no device twice, if none was unplugged.
NoTwice == status = "good" /\ dev = orig => sn \notin found

\* What it finds was on the bus when it began: bits of two devices are never
\* put together to the number of a third, even if devices go away half-way.
Present == status = "good" => sn \in orig

\* It comes to an end.
Ends == <>(status \in {"done", "error"})
=============================================================================
