------------------------------ MODULE Capture ------------------------------
(***************************************************************************)
(* libpcap-bubble: main opens the interface and calls pcap_dispatch in a   *)
(* loop, which calls packet_handler for each packet; main prints what came *)
(* in every second, and the sketch at the end.  A signal may come between  *)
(* any two steps, the counting of a packet and its insertion included.     *)
(***************************************************************************)
EXTENDS UBubble, FiniteSets

CONSTANTS
    NoPacket,      \* no packet is being handled
    MaxPackets,    \* bound on the packets of each flow
    MaxUnparsed,   \* bound on the packets that do not parse
    MaxTotal,      \* bound on all packets of one behaviour
    MaxSeconds,    \* bound on the seconds a behaviour lasts
    Durations      \* the values of -t to consider, 0 for none

ASSUME CaptureAssumption ==
    /\ NoPacket \notin Flows /\ IsFiniteSet(Flows)
    /\ MaxPackets \in [Flows -> Nat] /\ {MaxUnparsed, MaxSeconds} \subseteq Nat
    /\ MaxTotal \in 0 .. COUNT_MAX - 1
    /\ Durations \subseteq Nat

VARIABLES
    pc,                      \* what main does next
    packet,                  \* the packet packet_handler has counted
    handle, global_handle,   \* main's handle, and whether the signal handler knows it
    keep_running,
    duration,
    total_packets, processed_packets, total_inserts,
    current_second_packets,
    now, last_second_time,   \* seconds since start_time
    ret,                     \* _ret, what Query gives out
    sent,                    \* history: packets per flow
    unparsed,                \* history: packets that did not parse
    printed                  \* history: sum of the seconds printed

stats   == <<total_packets, processed_packets, total_inserts>>
clock   == <<now, last_second_time>>
setup   == <<handle, global_handle, duration>>
traffic == <<sent, unparsed>>
vars == <<ububble, pc, packet, keep_running, setup, stats, current_second_packets,
          clock, ret, traffic, printed>>

Init ==
    /\ Init_ububble
    /\ pc = "open"
    /\ packet = NoPacket
    /\ handle = "null"
    /\ global_handle = FALSE
    /\ keep_running = TRUE
    /\ duration \in Durations
    /\ total_packets = 0
    /\ processed_packets = 0
    /\ total_inserts = 0
    /\ current_second_packets = 0
    /\ now = 0
    /\ last_second_time = 0
    /\ ret = {}
    /\ sent = [f \in Flows |-> 0]
    /\ unparsed = 0
    /\ printed = 0

Goto(label) == pc' = label

\* pcap_open_live; a handle that fails ends main.
Open ==
    /\ pc = "open"
    /\ \/ /\ handle' = "open"
          /\ global_handle' = TRUE
          /\ Goto("filter")
       \/ /\ Goto("done")
          /\ UNCHANGED <<handle, global_handle>>
    /\ UNCHANGED <<ububble, packet, keep_running, duration, stats, current_second_packets,
                   clock, ret, traffic, printed>>

\* Mutant: only an error of pcap_dispatch ends the loop.
while_keep_running_Forever(running) == "dispatch"

\* The test of the capture loop.
while_keep_running(running) == IF running THEN "dispatch" ELSE "display"

\* A filter that does not compile, or cannot be set, closes the handle and
\* ends main; global_handle still points to it.
SetFilter ==
    /\ pc = "filter"
    /\ \/ /\ Goto(while_keep_running(keep_running))
          /\ UNCHANGED handle
       \/ /\ handle' = "closed"
          /\ Goto("done")
    /\ UNCHANGED <<ububble, packet, keep_running, duration, global_handle, stats,
                   current_second_packets, clock, ret, traffic, printed>>

-----------------------------------------------------------------------------
(* Inside pcap_dispatch.                                                   *)

\* packet_handler counts the packet, unless the capture is to stop.
Count ==
    /\ pc = "dispatch"
    /\ keep_running
    /\ total_packets < MaxTotal
    /\ total_packets' = total_packets + 1
    /\ current_second_packets' = current_second_packets + 1

\* It parses: its insertion follows.
CountPacket(f) ==
    /\ Count
    /\ sent[f] < MaxPackets[f]
    /\ sent' = [sent EXCEPT ![f] = @ + 1]
    /\ packet' = f
    /\ Goto("insert")
    /\ UNCHANGED <<ububble, keep_running, setup, processed_packets, total_inserts, clock,
                   ret, unparsed, printed>>

CountOther ==
    /\ Count
    /\ unparsed < MaxUnparsed
    /\ unparsed' = unparsed + 1
    /\ UNCHANGED <<ububble, pc, packet, keep_running, setup, processed_packets,
                   total_inserts, clock, ret, sent, printed>>

\* Mutant: a signal drops the packet that is being handled.
InsertPacket_UnlessStopped ==
    /\ pc = "insert"
    /\ IF keep_running
       THEN /\ InsertString(CString[packet])
            /\ processed_packets' = processed_packets + 1
            /\ total_inserts' = total_inserts + 1
            /\ packet' = NoPacket
       ELSE UNCHANGED <<ububble, processed_packets, total_inserts, packet>>
    /\ Goto("dispatch")
    /\ UNCHANGED <<keep_running, setup, total_packets, current_second_packets, clock, ret,
                   traffic, printed>>

\* The rest of packet_handler.
InsertPacket ==
    /\ pc = "insert"
    /\ InsertString(CString[packet])
    /\ processed_packets' = processed_packets + 1
    /\ total_inserts' = total_inserts + 1
    /\ packet' = NoPacket
    /\ Goto("dispatch")
    /\ UNCHANGED <<keep_running, setup, total_packets, current_second_packets, clock, ret,
                   traffic, printed>>

\* pcap_dispatch returns after some packets, or none: 1000 of them or its
\* timeout end it, an error or pcap_breakloop does and ends the loop with it.
Dispatched ==
    /\ pc = "dispatch"
    /\ \E next \in {"stats", "display"} : Goto(next)
    /\ UNCHANGED <<ububble, packet, keep_running, setup, stats, current_second_packets,
                   clock, ret, traffic, printed>>

-----------------------------------------------------------------------------
(* The rest of main.                                                       *)

\* Once a second the packets since the last time are printed; a duration
\* that is over ends the loop.
Stats ==
    /\ pc = "stats"
    /\ now' \in now .. MaxSeconds
    /\ IF now' > last_second_time
       THEN /\ printed' = printed + current_second_packets
            /\ current_second_packets' = 0
            /\ last_second_time' = now'
       ELSE UNCHANGED <<printed, current_second_packets, last_second_time>>
    /\ IF duration > 0 /\ now' >= duration
       THEN /\ keep_running' = FALSE
            /\ Goto("display")
       ELSE /\ Goto(while_keep_running(keep_running))
            /\ UNCHANGED keep_running
    /\ UNCHANGED <<ububble, packet, setup, stats, ret, traffic>>

\* What came since the last print is printed, if anything, and then the
\* results.
display_results ==
    /\ pc = "display"
    /\ printed' = printed + current_second_packets
    /\ ret' = Rows
    /\ Goto("forget")
    /\ UNCHANGED <<ububble, packet, keep_running, setup, stats, current_second_packets,
                   clock, traffic>>

\* Mutant: the handle is closed first.
ForgetHandle_AfterClose ==
    /\ pc = "forget"
    /\ handle' = "closed"
    /\ Goto("close")
    /\ UNCHANGED <<ububble, packet, keep_running, global_handle, duration, stats,
                   current_second_packets, clock, ret, traffic, printed>>

\* The signal handler is to leave the handle alone from here on.
ForgetHandle ==
    /\ pc = "forget"
    /\ global_handle' = FALSE
    /\ Goto("close")
    /\ UNCHANGED <<ububble, packet, keep_running, handle, duration, stats,
                   current_second_packets, clock, ret, traffic, printed>>

Close ==
    /\ pc = "close"
    /\ handle' = "closed"
    /\ Goto("done")
    /\ UNCHANGED <<ububble, packet, keep_running, global_handle, duration, stats,
                   current_second_packets, clock, ret, traffic, printed>>

\* pcap_breakloop only makes pcap_dispatch return, which it may do anyway.
signal_handler ==
    /\ pc # "done"
    /\ keep_running' = FALSE
    /\ UNCHANGED <<ububble, pc, packet, setup, stats, current_second_packets, clock, ret,
                   traffic, printed>>

Main == \/ Open \/ SetFilter \/ Dispatched \/ Stats \/ display_results
        \/ ForgetHandle \/ Close
        \/ InsertPacket \/ CountOther \/ (\E f \in Flows : CountPacket(f))

Next == Main \/ signal_handler

\* main is an ordinary process, and pcap_dispatch returns: here because the
\* traffic is bounded, in the code because it handles 1000 packets at most.
Spec == Init /\ [][Next]_vars /\ WF_vars(Main)

-----------------------------------------------------------------------------
(* Properties.                                                             *)

TypeOK ==
    /\ TypeOK_ububble
    /\ packet \in Flows \union {NoPacket}
    /\ pc = "insert" <=> packet # NoPacket
    /\ handle \in {"null", "open", "closed"}
    /\ {global_handle, keep_running} \subseteq BOOLEAN
    /\ {total_packets, processed_packets, total_inserts, current_second_packets,
        unparsed, printed} \subseteq Nat
    /\ last_second_time \in 0 .. now /\ now \in 0 .. MaxSeconds
    /\ sent \in [Flows -> Nat]

\* Once the results are displayed, the seconds printed add up to the packets
\* captured, and every packet captured that parses is in the sketch, the one
\* a signal came in the middle of included.
EveryPacketIsAccounted ==
    pc = "forget" =>
        /\ printed = total_packets
        /\ total_packets = processed_packets + unparsed
        /\ total_inserts = SumFunctionOnSet(sent, Flows)
        /\ \A s \in Strings :
                arrived[s] = SumFunctionOnSet(sent, {f \in Flows : CString[f] = s})

\* The fingerprints an entry with this id may have: that of the string, and
\* 0 for an entry that no string was written to.
RowTags(str) == {TagOf(s) : s \in Strings \cap {str}}
                    \union {t \in {0} : str = NoFlow}

\* A row's count is backed by packets of flows whose string has the
\* fingerprint of the row's, even if Bucket_Remove has doubled an entry.  The
\* string is all the row knows of a flow: flows that differ only beyond the
\* first zero byte of the key are one row, under their common beginning.
DisplayIsBacked ==
    \A row \in ret : \E t \in RowTags(row.str) :
        row.val <= SumFunctionOnSet(sent, {f \in Flows : TagOf(CString[f]) = t})

\* The signal handler breaks the loop of an open handle only.  The exception
\* is a filter that fails: its handle is closed and still known.
SignalFindsOpenHandle ==
    global_handle => \/ handle = "open"
                     \/ pc = "done" /\ ret = {} /\ total_packets = 0

\* After a signal, or when the duration is over, main ends: no flood of
\* packets keeps it in the loop.
StopEndsIt == ~keep_running ~> pc = "done"
=============================================================================
