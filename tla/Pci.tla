-------------------------------- MODULE Pci --------------------------------
(***************************************************************************)
(* The PCI bus of src/src/pcie.c and the drivers it starts: the scan of    *)
(* every function of every bus, the list of base address registers, the    *)
(* virtio drivers' set up (rng.c, block.c, gpu.c, input.c), the list of    *)
(* interrupt handlers.  All of it runs once, on one hart, with interrupts  *)
(* off, so each operation is a function from one state of the bus to the   *)
(* next.                                                                   *)
(*                                                                         *)
(* A function of a device is a record                                      *)
(*   bus, slot   its place                                                 *)
(*   kind        vendor and device id: "bridge", a driver's, or another    *)
(*   caps        its chain of capabilities, in order                       *)
(*   agrees      the device accepts the queue size and the features        *)
(* and a BAR's address is its place in the list of BARs.                   *)
(***************************************************************************)
EXTENDS Integers, Sequences, SequencesExt, FiniteSetsExt

CONSTANT BarListLen       \* 16

Unset == -1          \* 0xFFFFFFFF

PLIC_INT_CODE_IRQ0 == 32
VIRTIO_CAP_CFG_PCI == 5
Vendor == 9          \* id of a vendor specific capability

\* The state of the bus before the scan.
PciStart ==
    [ drivers |-> <<>>,       \* global_pcie_driver_llist
      bars    |-> <<>>,       \* global_pcie_bars_occupied, filled from 0
      regs    |-> {},         \* the functions' BARs: <<function, bar, address>>
      buses   |-> {},         \* the bridges': <<function, secondary_bus_no>>
      nextbus |-> 1,          \* pcie_bridge_bus_number
      devices |-> <<>>,       \* the drivers' device structures that are enabled
      irqs    |-> <<>> ]      \* global_pcie_irq_llist
----------------------------------------------------------------------------
(* Drivers *)

pcie_find_driver(p, kind) == Contains(p.drivers, kind)

\* The newest driver first; one that is known is not added again.
pcie_register_driver(p, kind) ==
    IF pcie_find_driver(p, kind) THEN p ELSE [p EXCEPT !.drivers = <<kind>> \o @]

pcie_init_drivers(p) ==
    LET rng == pcie_register_driver(p, "rng")
        block == pcie_register_driver(rng, "block")
        gpu == pcie_register_driver(block, "gpu")
    IN pcie_register_driver(gpu, "input")

pcie_ecam_to_irq(f) == PLIC_INT_CODE_IRQ0 + ((f.bus + f.slot) % 4)

pcie_register_irq(p, irq, handler) ==
    [p EXCEPT !.irqs = Append(@, [which_irq |-> irq, irq_handler |-> handler])]
----------------------------------------------------------------------------
(* Base address registers *)

\* config_types_bars and _offsets: where the chain says each structure is.  The
\* loop steps to the next capability before it looks: the first is never seen.
ConfigTypes(f) ==
    {c \in {f.caps[i] : i \in 2 .. Len(f.caps)} : c.id = Vendor /\ c.type # VIRTIO_CAP_CFG_PCI}

\* The entry of a BAR, with the offsets of the structures that are in it.
BarEntry(f, bar) ==
    [ kind |-> f.kind, which_bar |-> bar, which_irq |-> pcie_ecam_to_irq(f),
      offsets |-> [t \in 0 .. 4 |->
         IF \E c \in ConfigTypes(f) : c.type = t /\ c.bar = bar
         THEN (CHOOSE c \in ConfigTypes(f) : c.type = t /\ c.bar = bar).offset
         ELSE Unset] ]

\* pcie_add_to_bar_list.  No entry is free when the list is full; the bound on
\* the layouts keeps it from that.
pcie_add_to_bar_list(p, f, bar) ==
    [p EXCEPT !.bars = Append(@, BarEntry(f, bar)), !.regs = @ \union {<<f, bar, Len(p.bars)>>}]

\* pcie_init_bars: each BAR some structure is in gets an entry, from 0 to 5.
pcie_init_bars(p, f) ==
    LET used == {c.bar : c \in ConfigTypes(f)}
        add(q, bar) == IF bar \in used THEN pcie_add_to_bar_list(q, f, bar) ELSE q
    IN IF f.caps = <<>> THEN p
       ELSE add(add(add(add(add(add(p, 0), 1), 2), 3), 4), 5)

pcie_init_bridge(p, f) ==
    [p EXCEPT !.buses = @ \union {<<f, p.nextbus>>}, !.nextbus = @ + 1]
----------------------------------------------------------------------------
(* The virtio drivers *)

\* The entry a driver takes for its device: it searches the list from the end.
Entries(p, kind) == {i \in DOMAIN p.bars : p.bars[i].kind = kind}
BarOf_First(p, kind) == Min(Entries(p, kind))
BarOf(p, kind) == Max(Entries(p, kind))

\* The device structure: its registers and its interrupt line.
DeviceAt(p, kind) ==
    LET e == p.bars[BarOf(p, kind)]
    IN [kind |-> kind, base |-> BarOf(p, kind) - 1,
        offsets |-> e.offsets, which_irq |-> e.which_irq]

\* One structure for the driver: a second device of the kind replaces the first,
\* and a structure that is enabled already points to it before it has agreed.
Pointed(p, d) ==
    [p EXCEPT !.devices = [i \in DOMAIN @ |-> IF @[i].kind = d.kind THEN d ELSE @[i]]]
Only(p, d) ==
    LET old == {i \in DOMAIN p.devices : p.devices[i].kind = d.kind}
    IN IF old = {} THEN [p EXCEPT !.devices = Append(@, d)]
       ELSE [p EXCEPT !.devices[Min(old)] = d]
\* An array of structures, reallocated with the new one at its end.
Another(p, d) == [p EXCEPT !.devices = Append(@, d)]

\* Reset, acknowledge, negotiate, set up the queue, enable, register the
\* handler.  A device that does not agree is given up before it is enabled; the
\* block and input drivers have only a structure of their own pointing to it.
virtio_pcie_rng_driver(p, f) ==
    LET d == DeviceAt(p, "rng")
        q == Pointed(p, d)
    IN IF ~f.agrees THEN q
       ELSE pcie_register_irq(Only(q, d), d.which_irq, "rng")

virtio_pcie_block_driver(p, f) ==
    LET d == DeviceAt(p, "block")
    IN IF ~f.agrees THEN p
       ELSE pcie_register_irq(Another(p, d), d.which_irq, "block")

virtio_pcie_gpu_driver(p, f) ==
    LET d == DeviceAt(p, "gpu")
        q == Pointed(p, d)
    IN IF ~f.agrees THEN q
       ELSE pcie_register_irq(Only(q, d), d.which_irq, "gpu")

virtio_pcie_input_driver(p, f) ==
    LET d == DeviceAt(p, "input")
    IN IF ~f.agrees THEN p
       ELSE pcie_register_irq(Another(p, d), d.which_irq, "input")

driver_func(p, f) ==
    CASE f.kind = "rng"   -> virtio_pcie_rng_driver(p, f)
      [] f.kind = "block" -> virtio_pcie_block_driver(p, f)
      [] f.kind = "gpu"   -> virtio_pcie_gpu_driver(p, f)
      [] f.kind = "input" -> virtio_pcie_input_driver(p, f)
----------------------------------------------------------------------------
(* The scan *)

\* One function that answers: a bridge is given its bus, a device its BARs and
\* then its driver.
Scanned(p, f) ==
    IF f.kind = "bridge" THEN pcie_init_bridge(p, f)
    ELSE LET q == pcie_init_bars(p, f)
         IN IF pcie_find_driver(q, f.kind) THEN driver_func(q, f) ELSE q

\* Functions answer in the order of bus and slot, the ones behind a bridge
\* because it has been given its bus by then.
pcie_scan_and_init(layout) ==
    LET after[n \in 0 .. Len(layout)] ==
          IF n = 0 THEN pcie_init_drivers(PciStart) ELSE Scanned(after[n - 1], layout[n])
    IN after[Len(layout)]

\* The handlers a line calls, in the order they were registered.
pcie_handle_irq(p, irq) ==
    LET called[n \in 0 .. Len(p.irqs)] ==
          IF n = 0 THEN <<>>
          ELSE IF p.irqs[n].which_irq = irq THEN Append(called[n - 1], p.irqs[n].irq_handler)
          ELSE called[n - 1]
    IN called[Len(p.irqs)]
----------------------------------------------------------------------------
(* The machine, outside the code *)

\* The line a function's interrupt pin is wired to: each bridge on the way
\* turns the pins by the slot of what is plugged into it.
Wired(p, f) ==
    LET up == {b \in p.buses : b[2] = f.bus}
        turn == IF f.bus = 0 THEN 0 ELSE (CHOOSE b \in up : TRUE)[1].slot
    IN PLIC_INT_CODE_IRQ0 + ((f.slot + turn) % 4)

\* The functions that answer at an address.
Decodes(p, a) == {r[1] : r \in {s \in p.regs : s[3] = a}}

Driven == {"rng", "block", "gpu", "input"}

\* How many of the first n functions are bridges.
Bridges(layout, n) == Cardinality({i \in 1 .. n : layout[i].kind = "bridge"})

\* The layouts the code is made for.  A function is met once, and an rng or gpu
\* that can be used is the last of its kind: the driver's one structure would be
\* left pointing to a later one, also to one that is given up.
MetOnce(layout) ==
    \A i, j \in DOMAIN layout :
       /\ layout[i].bus = layout[j].bus /\ layout[i].slot = layout[j].slot => i = j
       /\ i < j /\ layout[i].kind = layout[j].kind /\ layout[i].kind \in {"rng", "gpu"}
          => ~layout[i].agrees

\* A function has its structures in one BAR, each at one place; one that is
\* driven has some.
OneBar(f) ==
    /\ \A c \in ConfigTypes(f) : c.bar \in 0 .. 5 /\ c.type \in 0 .. 4
    /\ \A c, e \in ConfigTypes(f) : c.bar = e.bar /\ (c.type = e.type => c.offset = e.offset)
    /\ f.kind \in Driven => f.caps # <<>> /\ ConfigTypes(f) # {}

\* The root ports are in slots 1, 2, 3 ..., like the Makefile's, up to the four
\* lines; what is driven is on the root bus or behind one of them.
BehindPorts(layout) ==
    \A i \in DOMAIN layout :
       /\ layout[i].bus \in 0 .. 255 /\ layout[i].slot \in 0 .. 31
       /\ layout[i].kind \in Driven => layout[i].bus <= Bridges(layout, i)
       /\ layout[i].kind = "bridge" => layout[i].slot % 4 = Bridges(layout, i) % 4

Layout(layout) ==
    MetOnce(layout) /\ BehindPorts(layout) /\ \A i \in DOMAIN layout : OneBar(layout[i])
=============================================================================
