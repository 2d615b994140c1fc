-------------------------------- MODULE CableSim --------------------------------
(***************************************************************************)
(* The cables that drive one pin change at a time: the parallel port       *)
(* cables, and the two simulator cables (cable_sim.c) with the simulator's *)
(* end of them (jp-io-vpi.c, called from dbg_comm_vpi.v; dbg_comm.v).      *)
(***************************************************************************)
EXTENDS CableWire

(* cable_parallel.c: outb/ioctl, and for a read the status port first.      *)
cable_parallel_out(p) == << [op |-> "port", pins |-> p] >>
cable_parallel_inout(p, at) == << [op |-> "sample", at |-> at], [op |-> "port", pins |-> p] >>

ParallelStep ==
    /\ todo /= <<>>
    /\ \/ /\ Op.op = "port"
          /\ dev' = Drive(dev, Op.pins) /\ UNCHANGED got
       \/ /\ Op.op = "sample"
          /\ got' = Put(got, Op.at, <<dev.tdo>>) /\ UNCHANGED dev
    /\ Next1
    /\ UNCHANGED <<setup, call, tx, rx, ad, drv, err, faults, hist>>

(* cable_rtl_sim_out: "F" into gdb_in, the value into gdb_out, then wait    *)
(* until the simulator has put the acknowledge bit beside it.              *)
cable_rtl_sim_out(p) == << [op |-> "blank"], [op |-> "file", pins |-> p], [op |-> "acked"] >>
cable_rtl_sim_inout(p, at) == << [op |-> "poll", at |-> at] >> \o cable_rtl_sim_out(p)

FileStep ==
    /\ todo /= <<>>
    /\ \/ Op.op = "blank" /\ ad' = [ad EXCEPT !.gdb_in = {}, !.shown = FALSE] /\ UNCHANGED got
       \/ /\ Op.op = "file"
          /\ ad' = [ad EXCEPT !.gdb_out = Op.pins, !.acked = FALSE] /\ UNCHANGED got
       \/ Op.op = "acked" /\ ad.acked /\ UNCHANGED <<ad, got>>
       \/ /\ Op.op = "poll" /\ ad.shown
          /\ got' = Put(got, Op.at, <<ad.gdb_in>>) /\ UNCHANGED ad
    /\ Next1
    /\ UNCHANGED <<setup, call, dev, tx, rx, drv, err, faults, hist>>

(* dbg_comm.v: take a value without the acknowledge bit, acknowledge it ... *)
SimTakes ==
    /\ setup.cable = "rtl_sim" /\ ~ad.acked /\ ~ad.settling
    /\ dev' = Drive(dev, ad.gdb_out)
    /\ ad' = [ad EXCEPT !.acked = TRUE, !.settling = dev.tck /\ ~ad.gdb_out.tck]
    /\ UNCHANGED <<setup, call, todo, tx, rx, drv, got, err, faults, hist>>
(* ... and, on a falling TCK, write TDO to gdb_in.                          *)
SimShows ==
    /\ setup.cable = "rtl_sim" /\ ad.settling
    /\ ad' = [ad EXCEPT !.gdb_in = dev.tdo, !.shown = TRUE, !.settling = FALSE]
    /\ UNCHANGED <<setup, call, todo, dev, tx, rx, drv, got, err, faults, hist>>

(* The VPI cable: one byte per message, each answered before the next.      *)
Send(m) == [op |-> "send", msg |-> m]

\* Mutant of cable_vpi_wait: the byte that ends the wait is left on the socket.
VpiWaitLeavesByte == << Send([k |-> "wait"]) >>

cable_vpi_wait == << Send([k |-> "wait"]), [op |-> "recv"] >>
cable_vpi_out(p) == << Send([k |-> "pins", pins |-> p]), [op |-> "ack", pins |-> p] >>
                        \o cable_vpi_wait
cable_vpi_inout(p, at) == << Send([k |-> "tdo"]), [op |-> "bit", at |-> at] >>
                             \o cable_vpi_out(p) \o cable_vpi_wait

SendStep ==
    /\ todo /= <<>> /\ Op.op = "send"
    /\ tx' = Append(tx, Op.msg) /\ Next1
    /\ UNCHANGED <<setup, call, dev, rx, ad, drv, got, err, faults, hist>>

Acknowledges(m, p) == m.k = "ack" /\ m.pins = p

SocketStep ==
    /\ todo /= <<>> /\ rx /= <<>>
    /\ rx' = Tail(rx)
    /\ \/ Op.op = "ack" /\ Acknowledges(Head(rx), Op.pins) /\ Next1 /\ UNCHANGED got
       \/ Op.op = "ack" /\ ~Acknowledges(Head(rx), Op.pins) /\ UNCHANGED <<todo, got>>
       \/ Op.op = "recv" /\ Next1 /\ UNCHANGED got
       \/ /\ Op.op = "bit" /\ Next1
          /\ got' = Put(got, Op.at, IF Head(rx).k = "bit" THEN <<Head(rx).bit>> ELSE <<{0}>>)
    /\ UNCHANGED <<setup, call, dev, tx, ad, drv, err, faults, hist>>

(* jp-io-vpi.c, $jp_in: called at every time step, one byte if there is one.*)
vpi_jp_in ==
    /\ setup.cable = "vpi" /\ tx /= <<>>
    /\ tx' = Tail(tx)
    /\ \/ /\ Head(tx).k = "tdo"
          /\ rx' = Append(rx, [k |-> "bit", bit |-> ad.vpi_out])
          /\ UNCHANGED <<dev, ad>>
       \/ /\ Head(tx).k = "wait" /\ ad.count_comp
          /\ rx' = Append(rx, [k |-> "ff"]) /\ UNCHANGED <<dev, ad>>
       \/ /\ Head(tx).k = "wait" /\ ~ad.count_comp
          /\ ad' = [ad EXCEPT !.jp_waiting = TRUE] /\ UNCHANGED <<rx, dev>>
       \/ /\ Head(tx).k = "pins"
          /\ dev' = Drive(dev, Head(tx).pins)
          /\ rx' = Append(rx, [k |-> "ack", pins |-> Head(tx).pins])
          /\ ad' = [ad EXCEPT !.count_comp = FALSE, !.counting = TRUE,
                              !.settling = @ \/ (dev.tck /\ ~Head(tx).pins.tck)]
    /\ UNCHANGED <<setup, call, todo, drv, got, err, faults, hist>>

(* $jp_out: TDO has changed; the half period is long enough for that.       *)
vpi_jp_out ==
    /\ setup.cable = "vpi" /\ ad.settling
    /\ ad' = [ad EXCEPT !.vpi_out = dev.tdo, !.settling = FALSE]
    /\ UNCHANGED <<setup, call, todo, dev, tx, rx, drv, got, err, faults, hist>>

(* $jp_wait_time: half a TCK period has passed since the last pin change.   *)
jp_wait_time ==
    /\ setup.cable = "vpi" /\ ad.counting /\ ~ad.settling
    /\ rx' = IF ad.jp_waiting THEN Append(rx, [k |-> "ff"]) ELSE rx
    /\ ad' = [ad EXCEPT !.counting = FALSE, !.count_comp = TRUE, !.jp_waiting = FALSE]
    /\ UNCHANGED <<setup, call, todo, dev, tx, drv, got, err, faults, hist>>

SimAdapter == SimTakes \/ SimShows \/ vpi_jp_in \/ vpi_jp_out \/ jp_wait_time
================================================================================
