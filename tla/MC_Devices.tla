---------------------------- MODULE MC_Devices ----------------------------
(***************************************************************************)
(* Machines like the one of the Makefile: root ports in slots 1 and 2, the *)
(* devices behind them.                                                    *)
(***************************************************************************)
EXTENDS Devices

Cap(type, offset) == [id |-> Vendor, type |-> type, bar |-> 4, offset |-> offset]
\* MSI-X comes first, as it was added last.
VirtioCaps == <<[id |-> 17, type |-> 0, bar |-> 1, offset |-> 0], Cap(5, 0), Cap(2, 3),
                Cap(4, 2), Cap(3, 1), Cap(1, 0)>>
Device(kind, bus, slot, agrees) ==
    [kind |-> kind, bus |-> bus, slot |-> slot, caps |-> VirtioCaps, agrees |-> agrees]
RootPort(slot) == [kind |-> "bridge", bus |-> 0, slot |-> slot, caps |-> <<>>, agrees |-> TRUE]
Root == [kind |-> "root", bus |-> 0, slot |-> 0, caps |-> <<>>, agrees |-> TRUE]
Xhci == [kind |-> "xhci", bus |-> 2, slot |-> 2, caps |-> <<[id |-> 16, type |-> 0, bar |-> 0, offset |-> 0]>>,
         agrees |-> TRUE]

Ports == <<Root, RootPort(1), RootPort(2)>>
Tablet == Device("input", 1, 1, TRUE)
Gpu == Device("gpu", 2, 0, TRUE)

\* The gpu after one that is given up, with the console; the gpu with a process;
\* a tablet and the gpu on one line; a tablet read by the console and a process;
\* two input devices on one line, a gpu that is given up and other devices
\* around them.
MCMachines ==
    { [functions |-> Ports \o <<Device("gpu", 1, 1, FALSE), Gpu>>,
       sent |-> <<>>, pops |-> 1, resizes |-> 2, con |-> 1, sys |-> 0],
      [functions |-> Ports \o <<Gpu>>,
       sent |-> <<>>, pops |-> 1, resizes |-> 2, con |-> 0, sys |-> 1],
      [functions |-> Ports \o <<Tablet, Gpu>>,
       sent |-> <<"press", "x", "y">>, pops |-> 3, resizes |-> 1, con |-> 1, sys |-> 0],
      [functions |-> Ports \o <<Tablet>>,
       sent |-> <<"x", "y", "sync">>, pops |-> 2, resizes |-> 0, con |-> 1, sys |-> 1],
      [functions |-> Ports \o <<Tablet, Device("rng", 1, 2, TRUE),
                       Device("input", 2, 0, TRUE), Device("block", 2, 1, TRUE), Xhci,
                       Device("gpu", 2, 3, FALSE), Device("block", 2, 4, TRUE)>>,
       sent |-> <<"x", "y">>, pops |-> 1, resizes |-> 0, con |-> 0, sys |-> 1] }
=============================================================================
