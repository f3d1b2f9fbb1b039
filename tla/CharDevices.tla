----------------------------- MODULE CharDevices -----------------------------
(***************************************************************************)
(* What the drivers of the repository take and give back when they are     *)
(* probed, removed, opened and closed: one sequence of steps for each      *)
(* function, in the order of its source. CharDriver runs the sequences.    *)
(*                                                                         *)
(* Left out: memory that the driver core gives back by itself and that no  *)
(* one overwrites, and the device node's name.                             *)
(***************************************************************************)
EXTENDS Sequences

(* A resource whose failure ends the function, after "undo" was given      *)
(* back; one whose failure nobody looks at; one that may fail either way   *)
(* (a DMA channel, which may come back as NULL and is tested by IS_ERR); a *)
(* lookup that may fail.                                                   *)
Step(do, r, undo) == [do |-> do, what |-> r, undo |-> undo]
Get(r, undo)  == Step("get", r, undo)
Need(r)       == Get(r, <<>>)
Try(r)        == Step("try", r, <<>>)
Chan(r, undo) == Step("chan", r, undo)
Check(undo)   == Step("check", "mem", undo)
Put(r)        == Step("put", r, <<>>)

(* The open counter: reset it, leave with EBUSY unless it is 0, count the  *)
(* descriptor, leave with EPERM without CAP_SYS_RAWIO; count it off, and   *)
(* go on only if it was the last.                                          *)
Zero == Step("zero", "busy", <<>>)
Test == Step("test", "busy", <<>>)
Take == Step("take", "busy", <<>>)
Perm == Step("perm", "busy", <<>>)
Drop == Step("drop", "busy", <<>>)

-----------------------------------------------------------------------------
(* Register access from user space: pwmgen (and spalk's copy), w7x_timing. *)
(* Mutant of PwmOpen: no test whether the device is open.                   *)
PwmOpenAny == <<Take, Perm>>
PwmOpen    == <<Test, Take, Perm>>
PwmRelease == <<Drop>>
PwmProbe   == <<Need("chrdev"), Need("class"), Try("device"), Check(<<>>)>>
PwmRemove  == <<Put("device"), Put("class"), Put("chrdev")>>

SpalkOpen    == <<Test, Take, Perm>>
SpalkRelease == <<Drop>>
SpalkProbe   == <<Need("chrdev"), Need("class"), Try("device"), Check(<<>>)>>
SpalkRemove  == <<Put("device"), Put("class"), Put("chrdev")>>

W7xOpen    == <<Test, Take, Perm>>
W7xRelease == <<Drop>>
W7xProbe   == <<Need("chrdev"), Need("class"), Try("device"), Check(<<>>)>>
W7xRemove  == <<Put("device"), Put("class"), Put("chrdev")>>

(* Mutant of MmioOpen: the refused open gives back what it has asked for,  *)
(* though it may belong to the program that has the device open.           *)
MmioOpenUndo == <<Try("map"), Try("irq"), [Test EXCEPT !.undo = <<"irq", "map">>], Take, Perm>>

(* The template for memory-mapped registers asks for its interrupt before  *)
(* it looks whether it is open already.                                    *)
MmioOpen    == <<Try("map"), Try("irq"), Test, Take, Perm>>
MmioRelease == <<Drop, Put("irq"), Put("map")>>
MmioProbe ==
  <<Need("region"), Need("cdev"), Need("class"), Try("device"), Check(<<>>)>>
MmioRemove  == <<Put("device"), Put("class"), Put("cdev")>>

-----------------------------------------------------------------------------
(* The drivers with a ring, which reset the counter before they test it.   *)
(* The mappings that release forgets go back when the device is unbound.   *)
NioadcOpen    == <<Try("map"), Try("irq"), Zero, Try("buffer"), Test, Take, Perm>>
NioadcRelease == <<Drop, Put("irq"), Put("map"), Put("buffer")>>
NioadcProbe ==
  <<Need("region"), Need("cdev"), Need("class"), Try("device"), Check(<<>>)>>

(* Mutant of NioadcRemove: the class stays.                                 *)
NioadcRemoveCdev == <<Put("cdev"), Put("device")>>

NioadcRemove == <<Put("device"), Put("class"), Put("cdev")>>

JasadcOpen    == <<Try("map"), Try("irq"), Zero, Try("buffer"), Test, Take, Perm>>
JasadcRelease == <<Drop, Put("irq"), Put("map"), Put("buffer")>>
JasadcProbe ==
  <<Need("region"), Need("cdev"), Need("class"), Try("device"), Check(<<>>)>>
JasadcRemove == <<Put("device"), Put("class"), Put("cdev")>>

SpdgaussOpen    == <<Try("map"), Try("irq"), Zero, Try("buffer"), Test, Take, Perm>>
SpdgaussRelease == <<Drop, Put("irq"), Put("map"), Put("buffer")>>
SpdgaussProbe ==
  <<Need("region"), Need("cdev"), Need("class"), Try("device"), Check(<<>>)>>
SpdgaussRemove == <<Put("device"), Put("class"), Put("cdev")>>

HsiOpen    == <<Try("map"), Try("irq"), Zero, Try("buffer"), Test, Take, Perm>>
HsiRelease == <<Drop, Put("irq"), Put("map"), Put("buffer")>>
HsiProbe ==
  <<Need("region"), Need("cdev"), Need("class"), Try("device"), Check(<<>>)>>
HsiRemove == <<Put("device"), Put("class"), Put("cdev")>>

(* The ring of this one is part of the device structure.                   *)
RpadcOpen    == <<Try("map"), Try("irq"), Zero, Test, Take, Perm>>
RpadcRelease == <<Drop, Put("irq"), Put("map")>>
RpadcProbe ==
  <<Need("region"), Need("cdev"), Need("class"), Try("device"), Check(<<>>)>>
RpadcRemove == <<Put("device"), Put("class"), Put("cdev")>>

-----------------------------------------------------------------------------
(* The DMA examples. The first transfers while it is probed and has no     *)
(* device. If its second channel fails it gives the first one back and     *)
(* then reports success: its undo ends in "ok".                            *)
Ex1Probe  == <<Need("tx"), Chan("rx", <<"tx", "ok">>)>>
Ex1Remove == <<Put("tx"), Put("rx")>>

Ex2Open    == <<Test, Take>>
Ex2Release == <<Drop>>
Ex2Probe   == <<Try("buffer"), Need("chrdev")>>
Ex2Remove  == <<Put("chrdev"), Put("buffer")>>

Ex3Open    == <<Test, Take>>
Ex3Release == <<Drop>>
Ex3Probe   == <<Need("chrdev"), Chan("tx", <<"tx">>), Chan("rx", <<"tx", "rx">>)>>
Ex3Remove  == <<Put("rx"), Put("tx"), Put("chrdev")>>

Ex4Open    == <<Test, Take>>
Ex4Release == <<Drop>>
Ex4Probe   == <<Need("chrdev")>>
Ex4Remove  == <<Put("chrdev")>>

Ex5Open     == <<Test, Take>>
Ex5Release  == <<Drop>>
Ex5Channels == <<Chan("tx", <<"tx">>), Chan("rx", <<"tx", "rx">>)>>
Ex5Probe    == <<Need("chrdev")>> \o Ex5Channels
Ex5Remove   == <<Put("rx"), Put("tx"), Put("chrdev")>>

(* The last one resets the counter when it is probed, after its device has *)
(* become visible.                                                         *)
Ex6Open     == <<Test, Take>>
Ex6Release  == <<Drop>>
Ex6Channels == <<Chan("tx", <<"tx">>), Chan("rx", <<"tx", "rx">>)>>
Ex6Probe    == <<Need("chrdev"), Zero>> \o Ex6Channels
Ex6Remove   == <<Put("rx"), Put("tx"), Put("chrdev")>>

-----------------------------------------------------------------------------
(* The XADC. Its undo labels are not in the order of its steps: a refused  *)
(* interrupt skips the triggers, and a clock that is not there is disabled *)
(* all the same. "iio" is the registered device. As set up for the AXI     *)
(* interface: the other one has no buffer and no triggers.                 *)
XadcFrom(label) ==
  LET all == <<"irq", "sample trigger", "convst trigger", "event buffer", "clk", "channels">>
  IN  SubSeq(all, label, 6)
XadcProbe ==
  <<Get("channels", XadcFrom(6)), Get("event buffer", XadcFrom(6)), Get("convst trigger", XadcFrom(4)),
    Get("sample trigger", XadcFrom(3)), Get("clk", XadcFrom(2)), Check(XadcFrom(2)),
    Get("irq", XadcFrom(5)), Check(XadcFrom(1)), Get("iio", XadcFrom(1))>>
XadcRemove ==
  <<Put("iio"), Put("sample trigger"), Put("convst trigger"), Put("event buffer"),
    Put("irq"), Put("clk"), Put("channels")>>

-----------------------------------------------------------------------------
(* A driver that is not opened through its own functions.                  *)
Closed == <<>>

Of(open, release, probe, remove) ==
  [open |-> open, release |-> release, probe |-> probe, remove |-> remove]

Code ==
  [pwmgen   |-> Of(PwmOpen, PwmRelease, PwmProbe, PwmRemove),
   spalk    |-> Of(SpalkOpen, SpalkRelease, SpalkProbe, SpalkRemove),
   w7x      |-> Of(W7xOpen, W7xRelease, W7xProbe, W7xRemove),
   mmio     |-> Of(MmioOpen, MmioRelease, MmioProbe, MmioRemove),
   nioadc   |-> Of(NioadcOpen, NioadcRelease, NioadcProbe, NioadcRemove),
   jasadc   |-> Of(JasadcOpen, JasadcRelease, JasadcProbe, JasadcRemove),
   spdgauss |-> Of(SpdgaussOpen, SpdgaussRelease, SpdgaussProbe, SpdgaussRemove),
   hsi      |-> Of(HsiOpen, HsiRelease, HsiProbe, HsiRemove),
   rpadc    |-> Of(RpadcOpen, RpadcRelease, RpadcProbe, RpadcRemove),
   ex1      |-> Of(Closed, Closed, Ex1Probe, Ex1Remove),
   ex2      |-> Of(Ex2Open, Ex2Release, Ex2Probe, Ex2Remove),
   ex3      |-> Of(Ex3Open, Ex3Release, Ex3Probe, Ex3Remove),
   ex4      |-> Of(Ex4Open, Ex4Release, Ex4Probe, Ex4Remove),
   ex5      |-> Of(Ex5Open, Ex5Release, Ex5Probe, Ex5Remove),
   ex6      |-> Of(Ex6Open, Ex6Release, Ex6Probe, Ex6Remove),
   xadc     |-> Of(Closed, Closed, XadcProbe, XadcRemove)]
=============================================================================
