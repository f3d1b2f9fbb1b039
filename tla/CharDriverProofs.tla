--------------------------- MODULE CharDriverProofs ---------------------------
(***************************************************************************)
(* Who has a device open and what is given back (CharDriver), for any      *)
(* number of programs, calls and refusals, and every driver of the table.  *)
(*                                                                         *)
(* First part, the programs. The table enters through three facts: an open *)
(* asks for what it needs, tests the counter, counts (OpenShape); a        *)
(* removal gives back nothing an open asks for (RemovePuts); the two       *)
(* drivers without a file never make a char device (NoFileSteps). The      *)
(* invariant says where each thread may be (Places) and keeps a program    *)
(* whose calls overlapped no others apart from the rest (Apart): once past *)
(* the test it is alone, and an open that comes later does not come past   *)
(* the test.                                                               *)
(*                                                                         *)
(* Second part, what is given back. From the table: a probe takes nothing  *)
(* twice and nothing opens ask for, its error paths and the removal give   *)
(* back what it has taken (ProbeShapes); a release gives back, if it is    *)
(* the last, what the open asked for (ReleaseShape). The invariant has     *)
(* four parts: what the loader's side holds is what its functions still    *)
(* have to give back (Load); as long as no calls overlap, a close finds    *)
(* everybody else out, and a removal everybody (Quiet); what opens have    *)
(* taken is one each, and somebody there is to give it back (Due); nothing *)
(* is given back that is not held (Tidy).                                  *)
(***************************************************************************)
EXTENDS CharDriver, SequenceTheorems, TLAPS

Files   == {"pwmgen", "spalk", "w7x", "mmio", "nioadc", "jasadc", "spdgauss", "hsi", "rpadc",
            "ex2", "ex3", "ex4", "ex5", "ex6"}
NoFile  == {"ex1", "xadc"}
Wanted  == {"map", "irq", "buffer"}

(* The steps of open, those from the k-th on, and the test of the counter. *)
OpenOf(d)    == Code[d].open
RestOf(d, k) == SubSeq(OpenOf(d), k, Len(OpenOf(d)))
TestOf(d)    == IF d = "mmio" THEN 3 ELSE IF d = "rpadc" THEN 4
                ELSE IF d \in {"nioadc", "jasadc", "spdgauss", "hsi"} THEN 5 ELSE 1

Kinds == {"get", "try", "chan", "check", "put", "zero", "test", "take", "perm", "drop"}
Named == Resources \cup {"mem", "busy", "ok"}
Item  == [do : Kinds, what : Named, undo : Seq(Named)]

(* An open asks for what it needs, looks at the counter, counts.           *)
Shape(o, k) ==
  /\ o \in Seq(Item) /\ k \in Nat \ {0} /\ Len(o) \in Nat /\ k < Len(o)
  /\ \A i \in 1 .. Len(o) : /\ i < k => \/ o[i].do = "try" /\ o[i].what \in Wanted
                                        \/ o[i].do = "zero"
                            /\ i = k => o[i].do = "test" /\ o[i].undo = <<>>
                            /\ i = k + 1 => o[i].do = "take"
                            /\ i > k + 1 => o[i].do = "perm"

(* A removal only gives back, and nothing in A; a driver without a file    *)
(* never has a char device.                                                *)
PutsBut(s, A) ==
  s \in Seq(Item) /\ \A i \in 1 .. Len(s) : s[i].do = "put" /\ s[i].what \notin A
Clean(s) ==
  s \in Seq(Item) /\ \A i \in 1 .. Len(s) : s[i].do = "put" \/ s[i].what \notin {"chrdev", "cdev"}

(* A step built by one of the table's words is a step.                     *)
LEMMA Items ==
  ASSUME NEW r \in Named, NEW u \in Seq(Named)
  PROVE  /\ Try(r) \in Item /\ Try(r).do = "try" /\ Try(r).what = r
         /\ Put(r) \in Item /\ Put(r).do = "put" /\ Put(r).what = r
         /\ Get(r, u) \in Item /\ Get(r, u).what = r
         /\ Chan(r, u) \in Item /\ Chan(r, u).what = r
         /\ Check(u) \in Item /\ Check(u).what = "mem"
<1>0. /\ <<>> \in Seq(Named) /\ "mem" \in Named
      /\ \A s \in {"try", "put", "get", "chan", "check"} : s \in Kinds
  BY DEF Named, Kinds
<1>a. \A x \in Kinds : \A y \in Named : \A z \in Seq(Named) : Step(x, y, z) \in Item
  BY DEF Step, Item
<1>b. \A x, y, z : Step(x, y, z).do = x /\ Step(x, y, z).what = y
  BY DEF Step
<1>1. Try(r) \in Item /\ Try(r).do = "try" /\ Try(r).what = r
  BY <1>0, <1>a, <1>b DEF Try
<1>2. Put(r) \in Item /\ Put(r).do = "put" /\ Put(r).what = r
  BY <1>0, <1>a, <1>b DEF Put
<1>3. Get(r, u) \in Item /\ Get(r, u).what = r
  BY <1>0, <1>a, <1>b DEF Get
<1>4. Chan(r, u) \in Item /\ Chan(r, u).what = r
  BY <1>0, <1>a, <1>b DEF Chan
<1>5. Check(u) \in Item /\ Check(u).what = "mem"
  BY <1>0, <1>a, <1>b DEF Check
<1>6. QED  BY <1>1, <1>2, <1>3, <1>4, <1>5

(* So are the steps on the counter.                                        *)
LEMMA Counters ==
  /\ Zero \in Item /\ Zero.do = "zero" /\ Take \in Item /\ Take.do = "take"
  /\ Test \in Item /\ Test.do = "test" /\ Test.undo = <<>>
  /\ Perm \in Item /\ Perm.do = "perm"
<1>0. /\ <<>> \in Seq(Named) /\ "busy" \in Named
      /\ \A s \in {"zero", "take", "test", "perm"} : s \in Kinds
  BY DEF Named, Kinds
<1>a. \A x \in Kinds : \A y \in Named : \A z \in Seq(Named) : Step(x, y, z) \in Item
  BY DEF Step, Item
<1>b. \A x, y, z : Step(x, y, z).do = x /\ Step(x, y, z).undo = z
  BY DEF Step
<1>1. Zero \in Item /\ Zero.do = "zero"
  BY <1>0, <1>a, <1>b DEF Zero
<1>2. Take \in Item /\ Take.do = "take"
  BY <1>0, <1>a, <1>b DEF Take
<1>3. Test \in Item /\ Test.do = "test" /\ Test.undo = <<>>
  <2>1. "test" \in Kinds
    BY <1>0
  <2>2. Step("test", "busy", <<>>) \in Item
    BY ONLY <1>0, <1>a, <2>1
  <2>3. QED  BY ONLY <2>2, <1>b DEF Test
<1>4. Perm \in Item /\ Perm.do = "perm"
  BY <1>0, <1>a, <1>b DEF Perm
<1>5. QED  BY <1>1, <1>2, <1>3, <1>4

(* The five forms an open has in the tables.                               *)
LEMMA Shapes ==
  /\ Shape(<<Test, Take>>, 1) /\ Shape(<<Test, Take, Perm>>, 1)
  /\ Shape(<<Try("map"), Try("irq"), Test, Take, Perm>>, 3)
  /\ Shape(<<Try("map"), Try("irq"), Zero, Test, Take, Perm>>, 4)
  /\ Shape(<<Try("map"), Try("irq"), Zero, Try("buffer"), Test, Take, Perm>>, 5)
<1> DEFINE a == Try("map")
           b == Try("irq")
           c == Try("buffer")
<1>0. "map" \in Named /\ "irq" \in Named /\ "buffer" \in Named /\ <<>> \in Seq(Named)
  BY DEF Named, Resources
<1>a. a \in Item /\ a.do = "try" /\ a.what \in Wanted
  BY <1>0, Items DEF Wanted
<1>b. b \in Item /\ b.do = "try" /\ b.what \in Wanted
  BY <1>0, Items DEF Wanted
<1>c. c \in Item /\ c.do = "try" /\ c.what \in Wanted
  BY <1>0, Items DEF Wanted
<1> HIDE DEF a, b, c
<1>2. Shape(<<Test, Take>>, 1)
  BY Counters DEF Shape
<1>3. Shape(<<Test, Take, Perm>>, 1)
  BY Counters DEF Shape
<1>4. Shape(<<a, b, Test, Take, Perm>>, 3)
  BY <1>a, <1>b, Counters DEF Shape
<1>5. Shape(<<a, b, Zero, Test, Take, Perm>>, 4)
  BY <1>a, <1>b, Counters DEF Shape
<1>6. Shape(<<a, b, Zero, c, Test, Take, Perm>>, 5)
  BY <1>a, <1>b, <1>c, Counters DEF Shape
<1>7. QED  BY <1>2, <1>3, <1>4, <1>5, <1>6 DEF a, b, c

(* The drivers are those with a file and the two without.                  *)
LEMMA NamesAre == DOMAIN Code = Files \cup NoFile
  BY DEF Code, Files, NoFile

(* The rows of the table.                                                  *)
LEMMA OpenIs ==
  /\ Code["pwmgen"].open = PwmOpen /\ Code["spalk"].open = SpalkOpen /\ Code["w7x"].open = W7xOpen
  /\ Code["mmio"].open = MmioOpen /\ Code["nioadc"].open = NioadcOpen
  /\ Code["jasadc"].open = JasadcOpen /\ Code["spdgauss"].open = SpdgaussOpen
  /\ Code["hsi"].open = HsiOpen /\ Code["rpadc"].open = RpadcOpen
  /\ Code["ex1"].open = Closed /\ Code["xadc"].open = Closed
  /\ Code["ex2"].open = Ex2Open /\ Code["ex3"].open = Ex3Open /\ Code["ex4"].open = Ex4Open
  /\ Code["ex5"].open = Ex5Open /\ Code["ex6"].open = Ex6Open
  BY DEF Code, Of

(* The removals.                                                           *)
LEMMA RemoveIs ==
  /\ Code["pwmgen"].remove = PwmRemove /\ Code["spalk"].remove = SpalkRemove
  /\ Code["w7x"].remove = W7xRemove /\ Code["mmio"].remove = MmioRemove
  /\ Code["nioadc"].remove = NioadcRemove /\ Code["jasadc"].remove = JasadcRemove
  /\ Code["spdgauss"].remove = SpdgaussRemove /\ Code["hsi"].remove = HsiRemove
  /\ Code["rpadc"].remove = RpadcRemove
  /\ Code["ex1"].remove = Ex1Remove /\ Code["xadc"].remove = XadcRemove
  /\ Code["ex2"].remove = Ex2Remove /\ Code["ex3"].remove = Ex3Remove
  /\ Code["ex4"].remove = Ex4Remove /\ Code["ex5"].remove = Ex5Remove
  /\ Code["ex6"].remove = Ex6Remove
  BY DEF Code, Of

(* The probes of those without a file.                                     *)
LEMMA ProbeIs == Code["ex1"].probe = Ex1Probe /\ Code["xadc"].probe = XadcProbe
  BY DEF Code, Of

(* Every driver with a file has an open of that shape.                     *)
LEMMA OpenShape ==
  ASSUME NEW d \in Files
  PROVE  Shape(OpenOf(d), TestOf(d))
<1>1. CASE d \in {"pwmgen", "spalk", "w7x"}
  <2>1. OpenOf(d) = <<Test, Take, Perm>> /\ TestOf(d) = 1
    BY <1>1, OpenIs DEF OpenOf, TestOf, PwmOpen, SpalkOpen, W7xOpen
  <2>2. QED  BY <2>1, Shapes
<1>2. CASE d \in {"ex2", "ex3", "ex4", "ex5", "ex6"}
  <2>1. OpenOf(d) = <<Test, Take>> /\ TestOf(d) = 1
    BY <1>2, OpenIs DEF OpenOf, TestOf, Ex2Open, Ex3Open, Ex4Open, Ex5Open, Ex6Open
  <2>2. QED  BY <2>1, Shapes
<1>3. CASE d = "mmio"
  <2>1. OpenOf(d) = <<Try("map"), Try("irq"), Test, Take, Perm>> /\ TestOf(d) = 3
    BY <1>3, OpenIs DEF OpenOf, TestOf, MmioOpen
  <2>2. QED  BY <2>1, Shapes
<1>4. CASE d = "rpadc"
  <2>1. OpenOf(d) = <<Try("map"), Try("irq"), Zero, Test, Take, Perm>> /\ TestOf(d) = 4
    BY <1>4, OpenIs DEF OpenOf, TestOf, RpadcOpen
  <2>2. QED  BY <2>1, Shapes
<1>5. CASE d \in {"nioadc", "jasadc", "spdgauss", "hsi"}
  <2>1. /\ OpenOf(d) = <<Try("map"), Try("irq"), Zero, Try("buffer"), Test, Take, Perm>>
        /\ TestOf(d) = 5
    BY <1>5, OpenIs DEF OpenOf, TestOf, NioadcOpen, JasadcOpen, SpdgaussOpen, HsiOpen
  <2>2. QED  BY <2>1, Shapes
<1>6. QED  BY <1>1, <1>2, <1>3, <1>4, <1>5 DEF Files

(* What open asks for, and whether it resets the counter.                  *)
AskedOf(d)  == {OpenOf(d)[i].what : i \in {j \in DOMAIN OpenOf(d) : OpenOf(d)[j].do = "try"}}
ResetsOf(d) == \E i \in DOMAIN OpenOf(d) : OpenOf(d)[i].do = "zero"

(* Opens ask for the interrupt, the registers and the ring, if anything.   *)
LEMMA AskedIs ==
  /\ \A d \in Files : AskedOf(d) \subseteq Wanted
  /\ AskedOf("ex2") = {} /\ AskedOf("ex1") = {} /\ AskedOf("xadc") = {}
<1>1. ASSUME NEW d \in Files
      PROVE  /\ AskedOf(d) \subseteq Wanted
             /\ TestOf(d) = 1 => AskedOf(d) = {}
  <2>1. Shape(OpenOf(d), TestOf(d))
    BY OpenShape
  <2> DEFINE o == OpenOf(d)
             k == TestOf(d)
  <2> HIDE DEF o, k
  <2>2. Shape(o, k)
    BY <2>1 DEF o, k
  <2>3. \A i \in DOMAIN o : o[i].do = "try" => o[i].what \in Wanted /\ i < k
    BY <2>2 DEF Shape
  <2>4. DOMAIN o = 1 .. Len(o)
    BY <2>2 DEF Shape
  <2>5. QED  BY <2>3, <2>4 DEF AskedOf, o, k
<1>2. TestOf("ex2") = 1 /\ "ex2" \in Files
  BY DEF TestOf, Files
<1>3. OpenOf("ex1") = <<>> /\ OpenOf("xadc") = <<>>
  BY OpenIs DEF OpenOf, Closed
<1>4. DOMAIN OpenOf("ex1") = {} /\ DOMAIN OpenOf("xadc") = {}
  BY <1>3
<1>5. QED  BY <1>1, <1>2, <1>4 DEF AskedOf

(* Giving back what there is in the table.                                 *)
LEMMA PutIs ==
  /\ \A r \in Resources : Put(r) \in Item /\ Put(r).do = "put" /\ Put(r).what = r
  /\ \A r \in Resources : r \in Named
<1>1. Resources \subseteq Named /\ <<>> \in Seq(Named)
  BY DEF Named
<1>2. QED  BY <1>1, Items

(* Steps that only give back, and not what is in A; steps that take no     *)
(* char device.                                                            *)
Putting(A) == {x \in Item : x.do = "put" /\ x.what \notin A}
NoDevice   == {x \in Item : x.do = "put" \/ x.what \notin {"chrdev", "cdev"}}

(* Sequences of up to three of them.                                       *)
LEMMA ShortPuts ==
  ASSUME NEW A, NEW a \in Resources \ A, NEW b \in Resources \ A, NEW c \in Resources \ A
  PROVE  /\ PutsBut(<<Put(a)>>, A) /\ PutsBut(<<Put(a), Put(b)>>, A)
         /\ PutsBut(<<Put(a), Put(b), Put(c)>>, A)
<1> DEFINE x == Put(a)
           y == Put(b)
           z == Put(c)
<1>1. x \in Putting(A) /\ y \in Putting(A) /\ z \in Putting(A)
  BY PutIs DEF Putting
<1> HIDE DEF x, y, z
<1>2. x \in Item /\ y \in Item /\ z \in Item
  BY <1>1 DEF Putting
<1>3. PutsBut(<<x>>, A)
  BY <1>1, <1>2 DEF PutsBut, Putting
<1>4. PutsBut(<<x, y>>, A)
  BY <1>1, <1>2 DEF PutsBut, Putting
<1>5. PutsBut(<<x, y, z>>, A)
  BY <1>1, <1>2 DEF PutsBut, Putting
<1>6. QED  BY <1>3, <1>4, <1>5 DEF x, y, z

(* The longest: the removal of the XADC.                                   *)
LEMMA XadcPuts == PutsBut(XadcRemove, {})
<1> DEFINE a == Put("iio")
           b == Put("sample trigger")
           c == Put("convst trigger")
           e == Put("event buffer")
           f == Put("irq")
           g == Put("clk")
           h == Put("channels")
<1>1. /\ a \in Putting({}) /\ b \in Putting({}) /\ c \in Putting({}) /\ e \in Putting({})
      /\ f \in Putting({}) /\ g \in Putting({}) /\ h \in Putting({})
  BY PutIs DEF Putting, Resources
<1> HIDE DEF a, b, c, e, f, g, h
<1>2. PutsBut(<<a, b, c, e, f, g, h>>, {})
  BY <1>1 DEF PutsBut, Putting
<1>3. QED  BY <1>2 DEF XadcRemove, a, b, c, e, f, g, h

(* A removal gives back nothing that an open has asked for.                *)
LEMMA RemovePuts ==
  ASSUME NEW d \in Files \cup NoFile
  PROVE  PutsBut(Code[d].remove, AskedOf(d))
<1>a. /\ "device" \in Resources \ Wanted /\ "class" \in Resources \ Wanted
      /\ "cdev" \in Resources \ Wanted /\ "chrdev" \in Resources \ Wanted
      /\ "rx" \in Resources \ Wanted /\ "tx" \in Resources \ Wanted
  BY DEF Resources, Wanted
<1>b. \A r \in {"chrdev", "buffer", "tx", "rx"} : r \in Resources \ {}
  BY DEF Resources
<1>w. ASSUME d \in Files, PutsBut(Code[d].remove, Wanted)
      PROVE  PutsBut(Code[d].remove, AskedOf(d))
  BY <1>w, AskedIs DEF PutsBut
<1>1. CASE d \in {"pwmgen", "spalk", "w7x"}
  <2>1. Code[d].remove = <<Put("device"), Put("class"), Put("chrdev")>>
    BY <1>1, RemoveIs DEF PwmRemove, SpalkRemove, W7xRemove
  <2>2. PutsBut(<<Put("device"), Put("class"), Put("chrdev")>>, Wanted)
    BY <1>a, ShortPuts
  <2>3. QED  BY <2>1, <2>2, <1>1, <1>w DEF Files
<1>2. CASE d \in {"mmio", "nioadc", "jasadc", "spdgauss", "hsi", "rpadc"}
  <2>1. Code[d].remove = <<Put("device"), Put("class"), Put("cdev")>>
    BY <1>2, RemoveIs
       DEF MmioRemove, NioadcRemove, JasadcRemove, SpdgaussRemove, HsiRemove, RpadcRemove
  <2>2. PutsBut(<<Put("device"), Put("class"), Put("cdev")>>, Wanted)
    BY <1>a, ShortPuts
  <2>3. QED  BY <2>1, <2>2, <1>2, <1>w DEF Files
<1>3. CASE d \in {"ex3", "ex5", "ex6"}
  <2>1. Code[d].remove = <<Put("rx"), Put("tx"), Put("chrdev")>>
    BY <1>3, RemoveIs DEF Ex3Remove, Ex5Remove, Ex6Remove
  <2>2. PutsBut(<<Put("rx"), Put("tx"), Put("chrdev")>>, Wanted)
    BY <1>a, ShortPuts
  <2>3. QED  BY <2>1, <2>2, <1>3, <1>w DEF Files
<1>4. CASE d = "ex4"
  <2>1. Code[d].remove = <<Put("chrdev")>>
    BY <1>4, RemoveIs DEF Ex4Remove
  <2>2. PutsBut(<<Put("chrdev")>>, Wanted)
    BY <1>a, ShortPuts
  <2>3. QED  BY <2>1, <2>2, <1>4, <1>w DEF Files
<1>5. CASE d = "ex2"
  <2>1. Code[d].remove = <<Put("chrdev"), Put("buffer")>> /\ AskedOf(d) = {}
    BY <1>5, RemoveIs, AskedIs DEF Ex2Remove
  <2>2. PutsBut(<<Put("chrdev"), Put("buffer")>>, {})
    BY <1>b, ShortPuts
  <2>3. QED  BY <2>1, <2>2
<1>6. CASE d = "ex1"
  <2>1. Code[d].remove = <<Put("tx"), Put("rx")>> /\ AskedOf(d) = {}
    BY <1>6, RemoveIs, AskedIs DEF Ex1Remove
  <2>2. PutsBut(<<Put("tx"), Put("rx")>>, {})
    BY <1>b, ShortPuts
  <2>3. QED  BY <2>1, <2>2
<1>7. CASE d = "xadc"
  <2>1. Code[d].remove = XadcRemove
    BY <1>7, RemoveIs
  <2>2. QED  BY <2>1, XadcPuts, <1>7, AskedIs
<1>8. QED  BY <1>1, <1>2, <1>3, <1>4, <1>5, <1>6, <1>7 DEF Files, NoFile

(* The end of a sequence of six.                                           *)
LEMMA SixLong ==
  ASSUME NEW S, NEW a \in S, NEW b \in S, NEW c \in S, NEW e \in S, NEW f \in S, NEW g \in S,
         NEW k \in 1 .. 6
  PROVE  SubSeq(<<a, b, c, e, f, g>>, k, 6) \in Seq(S)
<1>1. \A i \in k .. 6 : <<a, b, c, e, f, g>>[i] \in S
  OBVIOUS
<1>2. QED  BY <1>1, SubSeqProperties

(* The undo labels of the XADC.                                            *)
LEMMA XadcFromIs ==
  ASSUME NEW k \in 1 .. 6
  PROVE  XadcFrom(k) \in Seq(Named)
<1>1. /\ "irq" \in Named /\ "sample trigger" \in Named /\ "convst trigger" \in Named
      /\ "event buffer" \in Named /\ "clk" \in Named /\ "channels" \in Named
  BY DEF Named, Resources
<1>2. SubSeq(<<"irq", "sample trigger", "convst trigger", "event buffer", "clk", "channels">>, k, 6)
        \in Seq(Named)
  BY <1>1, SixLong
<1>3. QED  BY <1>2 DEF XadcFrom

(* The two drivers without a file never make a char device.                *)
LEMMA NoFileSteps ==
  ASSUME NEW d \in NoFile
  PROVE  Clean(Code[d].probe) /\ Clean(Code[d].remove) /\ OpenOf(d) = <<>>
<1>1. Clean(Code[d].remove)
  BY RemovePuts DEF Clean, PutsBut
<1>2. OpenOf(d) = <<>>
  BY OpenIs DEF NoFile, OpenOf, Closed
<1>0. /\ \A r \in {"tx", "rx", "ok", "channels", "event buffer", "convst trigger", "sample trigger",
                   "clk", "irq", "iio"} : r \in Named
      /\ <<"tx", "ok">> \in Seq(Named) /\ <<>> \in Seq(Named)
  BY DEF Named, Resources
<1>3. CASE d = "ex1"
  <2>1. Code[d].probe = Ex1Probe
    BY <1>3, ProbeIs
  <2>2. Need("tx") \in Item /\ Need("tx").what = "tx"
    BY <1>0, Items DEF Need
  <2>3. Chan("rx", <<"tx", "ok">>) \in Item /\ Chan("rx", <<"tx", "ok">>).what = "rx"
    BY <1>0, Items
  <2>4. Clean(Ex1Probe)
    BY <2>2, <2>3 DEF Clean, Ex1Probe
  <2>5. QED  BY <2>1, <2>4, <1>1, <1>2
<1>4. CASE d = "xadc"
  <2>1. Code[d].probe = XadcProbe
    BY <1>4, ProbeIs
  <2> DEFINE a == Get("channels", XadcFrom(6))
             b == Get("event buffer", XadcFrom(6))
             c == Get("convst trigger", XadcFrom(4))
             e == Get("sample trigger", XadcFrom(3))
             f == Get("clk", XadcFrom(2))
             g == Check(XadcFrom(2))
             h == Get("irq", XadcFrom(5))
             i == Check(XadcFrom(1))
             j == Get("iio", XadcFrom(1))
  <2>2. /\ XadcFrom(1) \in Seq(Named) /\ XadcFrom(2) \in Seq(Named) /\ XadcFrom(3) \in Seq(Named)
        /\ XadcFrom(4) \in Seq(Named) /\ XadcFrom(5) \in Seq(Named) /\ XadcFrom(6) \in Seq(Named)
    BY XadcFromIs
  <2>3. /\ a \in NoDevice /\ b \in NoDevice /\ c \in NoDevice /\ e \in NoDevice
        /\ f \in NoDevice /\ h \in NoDevice /\ j \in NoDevice
    <3>1. \A r \in Named \ {"chrdev", "cdev"} : \A u \in Seq(Named) : Get(r, u) \in NoDevice
      BY Items DEF NoDevice
    <3>2. /\ "channels" \in Named \ {"chrdev", "cdev"} /\ "event buffer" \in Named \ {"chrdev", "cdev"}
          /\ "convst trigger" \in Named \ {"chrdev", "cdev"}
          /\ "sample trigger" \in Named \ {"chrdev", "cdev"}
          /\ "clk" \in Named \ {"chrdev", "cdev"} /\ "irq" \in Named \ {"chrdev", "cdev"}
          /\ "iio" \in Named \ {"chrdev", "cdev"}
      BY DEF Named, Resources
    <3>3. QED  BY <2>2, <3>1, <3>2
  <2>4. g \in NoDevice /\ i \in NoDevice
    <3>1. \A u \in Seq(Named) : Check(u) \in NoDevice
      <4>1. \A u \in Seq(Named) : Check(u) \in Item /\ Check(u).what = "mem"
        BY <1>0, Items
      <4>2. QED  BY <4>1 DEF NoDevice
    <3>2. QED  BY ONLY <2>2, <3>1
  <2> HIDE DEF a, b, c, e, f, g, h, i, j
  <2>5. Clean(<<a, b, c, e, f, g, h, i, j>>)
    BY <2>3, <2>4 DEF Clean, NoDevice
  <2>6. Clean(XadcProbe)
    BY <2>5 DEF XadcProbe, a, b, c, e, f, g, h, i, j
  <2>7. QED  BY <2>1, <2>6, <1>1, <1>2
<1>5. QED  BY <1>3, <1>4 DEF NoFile

(* The rest of an open: its head, its tail, its length.                    *)
LEMMA RestSteps ==
  ASSUME NEW d \in Files, NEW k \in 1 .. Len(OpenOf(d)) + 1
  PROVE  /\ RestOf(d, 1) = OpenOf(d)
         /\ k <= Len(OpenOf(d)) => /\ RestOf(d, k) # <<>> /\ Head(RestOf(d, k)) = OpenOf(d)[k]
                                   /\ Tail(RestOf(d, k)) = RestOf(d, k + 1)
         /\ k = Len(OpenOf(d)) + 1 => RestOf(d, k) = <<>>
         /\ \A j \in 1 .. Len(OpenOf(d)) + 1 : RestOf(d, j) = RestOf(d, k) => j = k
<1> DEFINE o == OpenOf(d)
           n == Len(o)
           R(j) == SubSeq(o, j, n)
<1>1. Shape(OpenOf(d), TestOf(d))
  BY OpenShape
<1>2. o \in Seq(Item) /\ n \in Nat
  BY <1>1 DEF Shape
<1>r. \A j : RestOf(d, j) = R(j)
  BY DEF RestOf
<1> HIDE DEF o
<1>3. \A j \in 1 .. n + 1 : Len(R(j)) = n - j + 1
  <2>1. ASSUME NEW j \in 1 .. n + 1
        PROVE  Len(R(j)) = n - j + 1
    <3>1. \A i \in j .. n : o[i] \in Item
      BY <1>2
    <3>2. j \in Int /\ n \in Int
      BY <1>2
    <3>3. Len(SubSeq(o, j, n)) = IF j <= n THEN n - j + 1 ELSE 0
      BY <3>1, <3>2, SubSeqProperties
    <3>4. QED  BY <3>3, <1>2
  <2>2. QED  BY <2>1
<1>4. R(1) = o
  BY <1>2
<1>5. ASSUME k <= n
      PROVE  R(k) # <<>> /\ Head(R(k)) = o[k] /\ Tail(R(k)) = R(k + 1)
  <2>1. k \in 1 .. Len(o) /\ n \in k .. Len(o)
    BY <1>2, <1>5 DEF o
  <2>2. Head(SubSeq(o, k, n)) = o[k] /\ Tail(SubSeq(o, k, n)) = SubSeq(o, k + 1, n)
    BY <2>1, <1>2, HeadTailOfSubSeq
  <2>3. Len(R(k)) = n - k + 1
    BY <1>3, <1>2, <2>1
  <2>4. Len(R(k)) # 0 /\ Len(<<>>) = 0
    BY <2>3, <1>2, <2>1
  <2>5. R(k) # <<>>
    BY <2>4
  <2>6. QED  BY <2>2, <2>5
<1>6. k = n + 1 => R(k) = <<>>
  BY <1>2, SubSeqEmpty
<1>7. \A j \in 1 .. n + 1 : R(j) = R(k) => j = k
  <2>1. k \in 1 .. n + 1
    BY DEF o
  <2>2. QED  BY <1>3, <1>2, <2>1
<1> HIDE DEF R
<1>8. QED  BY <1>4, <1>5, <1>6, <1>7, <1>r DEF o

-----------------------------------------------------------------------------
(* Steps of a thread                                                       *)

(* The places of the loader and driver core and of the programs.           *)
Spots == {"closed", "opening", "open", "closing", "orphan", "out", "probing", "bound", "failed",
          "removing"}
Fields == {"calls", "failed", "stray", "denied", "broken", "mixed", "mess"}

Typed ==
  /\ drv \in Files \cup NoFile
  /\ at \in [Threads -> Spots] /\ DOMAIN todo = Threads /\ bad \in [Threads -> BOOLEAN]
  /\ ref \in [Resources -> BOOLEAN]
  /\ DOMAIN hist = Fields /\ hist.mixed \subseteq Programs

(* A step of a function touches nothing of the other threads.              *)
LEMMA RunFrame ==
  ASSUME Typed, NEW t \in Threads, Run(t)
  PROVE  /\ drv' = drv /\ at' = at /\ DOMAIN hist' = Fields /\ hist'.mixed = hist.mixed
         /\ DOMAIN todo' = Threads /\ bad' \in [Threads -> BOOLEAN] /\ ref' \in [Resources -> BOOLEAN]
         /\ \A u \in Threads \ {t} : todo'[u] = todo[u] /\ bad'[u] = bad[u]
         /\ todo[t] # <<>>
<1> USE DEF Typed
<1>h. /\ \A e : LET h == [hist EXCEPT !.failed = e] IN DOMAIN h = Fields /\ h.mixed = hist.mixed
      /\ \A e : LET h == [hist EXCEPT !.stray = e] IN DOMAIN h = Fields /\ h.mixed = hist.mixed
      /\ \A e : LET h == [hist EXCEPT !.denied = e] IN DOMAIN h = Fields /\ h.mixed = hist.mixed
  BY DEF Fields
<1>f. ASSUME NEW u, Fail(t, u)
      PROVE  /\ DOMAIN todo' = Threads /\ bad' \in [Threads -> BOOLEAN]
             /\ \A v \in Threads \ {t} : todo'[v] = todo[v] /\ bad'[v] = bad[v]
  BY <1>f DEF Fail
<1>a. ASSUME Advance(t)
      PROVE  DOMAIN todo' = Threads /\ \A v \in Threads \ {t} : todo'[v] = todo[v]
  BY <1>a DEF Advance
<1>1. CASE Taken(t)
  <2>1. ref' \in [Resources -> BOOLEAN]
    BY <1>1 DEF Taken
  <2>2. QED  BY <1>1, <2>1, <1>a DEF Taken, Doing
<1>2. CASE Missed(t)
  <2>1. ref' \in [Resources -> BOOLEAN]
    BY <1>2 DEF Missed
  <2>2. DOMAIN hist' = Fields /\ hist'.mixed = hist.mixed
    BY <1>2, <1>h DEF Missed
  <2>3. QED  BY <1>2, <2>1, <2>2, <1>a DEF Missed, Doing
<1>3. CASE Refused(t)
  <2>2. DOMAIN hist' = Fields /\ hist'.mixed = hist.mixed
    BY <1>3, <1>h DEF Refused
  <2>3. QED  BY <1>3, <2>2, <1>f DEF Refused, Doing
<1>4. CASE Found(t)
  BY <1>4, <1>a DEF Found, Doing
<1>5. CASE Given(t)
  <2>1. ref' \in [Resources -> BOOLEAN]
    BY <1>5 DEF Given
  <2>2. DOMAIN hist' = Fields /\ hist'.mixed = hist.mixed
    BY <1>5, <1>h DEF Given
  <2>3. QED  BY <1>5, <2>1, <2>2, <1>a DEF Given, Doing
<1>6. CASE Counter(t)
  <2>1. todo[t] # <<>>
    BY <1>6 DEF Counter, Doing
  <2>2. \/ Advance(t) /\ bad' = bad
        \/ Fail(t, Head(todo[t]).undo)
        \/ todo' = [todo EXCEPT ![t] = <<>>] /\ bad' = bad
    BY <1>6 DEF Counter
  <2>3. QED  BY <1>6, <2>1, <2>2, <1>a, <1>f DEF Counter
<1>7. CASE Permitted(t)
  <2>1. DOMAIN hist' = Fields /\ hist'.mixed = hist.mixed
    BY <1>7, <1>h DEF Permitted
  <2>2. (Advance(t) /\ bad' = bad) \/ Fail(t, <<>>)
    BY <1>7 DEF Permitted
  <2>3. QED  BY <1>7, <2>1, <2>2, <1>a, <1>f DEF Permitted, Doing
<1>8. QED  BY <1>1, <1>2, <1>3, <1>4, <1>5, <1>6, <1>7 DEF Run

(* A resource that is there, or whose absence was noticed by the kernel.   *)
Known(rf, fl, r) == rf[r] \/ r \in fl

(* The places of a program that is not in the driver.                      *)
Idle(a) == a \in {"closed", "orphan"}

(* Where everyone may be: a failed open has nothing left to do, another has *)
(* the rest of its steps; a removal gives back nothing an open asks for;   *)
(* before the module is loaded nobody is in it, and while it is probed     *)
(* only programs that are mixed are.                                       *)
Places ==
  /\ \A p \in Programs : /\ at[p] \in {"closed", "opening", "open", "closing", "orphan"}
                         /\ at[p] \notin {"opening", "closing"} => todo[p] = <<>>
  /\ \A p \in Programs : at[p] = "opening" =>
        /\ drv \in Files
        /\ bad[p] => todo[p] = <<>>
        /\ ~bad[p] => \E k \in 1 .. Len(OpenOf(drv)) + 1 : todo[p] = RestOf(drv, k)
  /\ at["core"] \in {"out", "probing", "bound", "failed", "removing"}
  /\ at["core"] \in {"out", "bound", "failed"} => todo["core"] = <<>>
  /\ at["core"] = "out" => \A p \in Programs : Idle(at[p])
  /\ at["core"] = "probing" => \A p \in Programs \ hist.mixed : Idle(at[p])
  /\ at["core"] = "removing" => PutsBut(todo["core"], AskedOf(drv))
  /\ drv \in NoFile => /\ ~ref["chrdev"] /\ ~ref["cdev"] /\ Clean(todo["core"])
                       /\ \A p \in Programs : Idle(at[p])

(* What an open step does: it goes on to the next one, or the open fails.  *)
Goes(q, k) ==
  /\ bad'[q] = bad[q] /\ todo'[q] = RestOf(drv, k + 1)
  /\ \/ k < TestOf(drv) /\ OpenOf(drv)[k].do = "try" /\ busy' = busy
        /\ Known(ref', hist'.failed, OpenOf(drv)[k].what)
     \/ k < TestOf(drv) /\ OpenOf(drv)[k].do = "zero"
     \/ k = TestOf(drv) /\ OpenOf(drv)[k].do = "test" /\ busy = 0 /\ busy' = busy
     \/ k = TestOf(drv) + 1 /\ OpenOf(drv)[k].do = "take" /\ busy' = 1
     \/ k > TestOf(drv) + 1 /\ OpenOf(drv)[k].do = "perm" /\ busy' = busy
Fails(q, k) ==
  /\ bad'[q] /\ todo'[q] = <<>> /\ busy' = busy
  /\ \/ k = TestOf(drv) /\ OpenOf(drv)[k].do = "test"
     \/ k > TestOf(drv) + 1 /\ OpenOf(drv)[k].do = "perm"

(* A failure with nothing to give back ends the function.                  *)
LEMMA NoGoing ==
  ASSUME Typed, NEW t \in Threads, Fail(t, <<>>)
  PROVE  todo'[t] = <<>> /\ bad'[t]
<1>1. Steps(<<>>) = <<>>
  BY DEF Steps
<1>2. QED  BY <1>1 DEF Fail, Typed

(* An open takes its steps one after the other; what it or another open    *)
(* has asked for stays known.                                              *)
LEMMA OpenStep ==
  ASSUME Typed, Places, NEW q \in Programs, at[q] = "opening", Run(q)
  PROVE  /\ drv \in Files /\ ~bad[q]
         /\ \A r \in Resources : Known(ref, hist.failed, r) => Known(ref', hist'.failed, r)
         /\ \E k \in 1 .. Len(OpenOf(drv)) : todo[q] = RestOf(drv, k) /\ (Goes(q, k) \/ Fails(q, k))
<1>0. q \in Threads /\ drv \in Files /\ todo[q] # <<>>
  BY RunFrame DEF Threads, Places
<1>1. ~bad[q]
  BY <1>0 DEF Places
<1> DEFINE o == OpenOf(drv)
           n == Len(o)
           T == TestOf(drv)
<1>2. PICK k \in 1 .. n + 1 : todo[q] = RestOf(drv, k)
  BY <1>1 DEF Places
<1>s. Shape(o, T)
  BY <1>0, OpenShape
<1>n. n \in Nat /\ T \in Nat /\ T < n
  BY <1>s DEF Shape
<1>3. k \in 1 .. n
  BY <1>2, <1>0, <1>n, RestSteps
<1>4. Head(todo[q]) = o[k] /\ Tail(todo[q]) = RestOf(drv, k + 1)
  BY <1>2, <1>3, <1>0, RestSteps
<1> DEFINE x == o[k]
<1>5. /\ k < T => (x.do = "try" /\ x.what \in Wanted) \/ x.do = "zero"
      /\ k = T => x.do = "test" /\ x.undo = <<>>
      /\ k = T + 1 => x.do = "take"
      /\ k > T + 1 => x.do = "perm"
  BY <1>s, <1>3 DEF Shape
<1>6. k < T \/ k = T \/ k = T + 1 \/ k > T + 1
  BY <1>3, <1>n
<1>w. Wanted \subseteq Resources
  BY DEF Wanted, Resources
<1>a. Advance(q) => todo'[q] = RestOf(drv, k + 1)
  BY <1>4, <1>0 DEF Advance, Typed
<1>h. \A e : [hist EXCEPT !.failed = e].failed = e
  BY DEF Typed, Fields
<1>g. \A e : [hist EXCEPT !.denied = e].failed = hist.failed
  BY DEF Typed, Fields
<1> HIDE DEF o, n, T, x
<1>7. CASE x.do = "try" /\ k < T
  <2>1. Taken(q) \/ Missed(q)
    BY <1>7, <1>4 DEF x, Run, Taken, Missed, Refused, Found, Given, Counter, Permitted, Doing
  <2>2. x.what \in Resources
    BY <1>7, <1>5, <1>w
  <2>3. CASE Taken(q)
    <3>1. ref' = [ref EXCEPT ![x.what] = TRUE] /\ hist' = hist /\ busy' = busy /\ bad' = bad /\ Advance(q)
      BY <2>3, <1>4 DEF Taken, x
    <3>2. ref'[x.what] /\ \A r \in Resources : ref[r] => ref'[r]
      BY <3>1, <2>2 DEF Typed
    <3>3. QED  BY <3>1, <3>2, <1>a, <1>0, <1>1, <1>2, <1>3, <1>7 DEF Goes, Known, o, x, n, T
  <2>4. CASE Missed(q)
    <3> DEFINE lost == x.what # "irq" \/ ~ref[x.what]
    <3>1. /\ ref' = [ref EXCEPT ![x.what] = @ /\ ~lost]
          /\ hist' = [hist EXCEPT !.failed = IF lost THEN @ \cup {x.what} ELSE @]
          /\ busy' = busy /\ bad' = bad /\ Advance(q)
      BY <2>4, <1>4 DEF Missed, x
    <3>2. CASE lost
      <4>1. hist'.failed = hist.failed \cup {x.what}
        BY <3>1, <3>2, <1>h
      <4>2. \A r \in Resources \ {x.what} : ref'[r] = ref[r]
        BY <3>1 DEF Typed
      <4>3. \A r \in Resources : Known(ref, hist.failed, r) => Known(ref', hist'.failed, r)
        BY <4>1, <4>2 DEF Known
      <4>4. Known(ref', hist'.failed, x.what)
        BY <4>1 DEF Known
      <4>5. QED  BY <3>1, <4>3, <4>4, <1>a, <1>0, <1>1, <1>2, <1>3, <1>7 DEF Goes, o, x, n, T
    <3>3. CASE ~lost
      <4>1. hist'.failed = hist.failed
        BY <3>1, <3>3, <1>h
      <4>2. ref[x.what] /\ \A r \in Resources : ref'[r] = ref[r]
        BY <3>1, <3>3, <2>2 DEF Typed
      <4>3. \A r \in Resources : Known(ref, hist.failed, r) => Known(ref', hist'.failed, r)
        BY <4>1, <4>2 DEF Known
      <4>4. Known(ref', hist'.failed, x.what)
        BY <4>2, <2>2 DEF Known
      <4>5. QED  BY <3>1, <4>3, <4>4, <1>a, <1>0, <1>1, <1>2, <1>3, <1>7 DEF Goes, o, x, n, T
    <3>4. QED  BY <3>2, <3>3
  <2>5. QED  BY <2>1, <2>3, <2>4
<1>8. CASE x.do \in {"zero", "test", "take", "perm"}
  <2>1. Counter(q) \/ Permitted(q)
    BY <1>8, <1>4 DEF x, Run, Taken, Missed, Refused, Found, Given, Counter, Permitted, Doing
  <2>2. ref' = ref /\ hist'.failed = hist.failed
    BY <2>1, <1>g DEF Counter, Permitted
  <2>k. \A r \in Resources : Known(ref, hist.failed, r) => Known(ref', hist'.failed, r)
    BY <2>2
  <2>3. CASE x.do = "zero" /\ k < T
    <3>1. busy' = 0 /\ Advance(q) /\ bad' = bad
      BY <2>1, <2>3, <1>4 DEF Counter, Permitted, Doing, x
    <3>2. QED  BY <3>1, <2>k, <2>3, <1>a, <1>0, <1>1, <1>2, <1>3 DEF Goes, o, x, n, T
  <2>4. CASE x.do = "test" /\ k = T
    <3>1. \/ busy = 0 /\ Advance(q) /\ busy' = busy /\ bad' = bad
          \/ busy # 0 /\ Fail(q, <<>>) /\ busy' = busy
      BY <2>1, <2>4, <1>4, <1>5 DEF Counter, Permitted, Doing, x
    <3>2. QED  BY <3>1, <2>k, <2>4, <1>a, <1>0, <1>1, <1>2, <1>3, NoGoing DEF Goes, Fails, o, x, n, T
  <2>5. CASE x.do = "take" /\ k = T + 1
    <3>1. busy' = 1 /\ Advance(q) /\ bad' = bad
      BY <2>1, <2>5, <1>4 DEF Counter, Permitted, Doing, x
    <3>2. QED  BY <3>1, <2>k, <2>5, <1>a, <1>0, <1>1, <1>2, <1>3 DEF Goes, o, x, n, T
  <2>6. CASE x.do = "perm" /\ k > T + 1
    <3>1. \/ Advance(q) /\ busy' = busy /\ bad' = bad
          \/ Fail(q, <<>>) /\ busy' = busy
      BY <2>1, <2>6, <1>4, <1>5 DEF Counter, Permitted, Doing, x
    <3>2. QED  BY <3>1, <2>k, <2>6, <1>a, <1>0, <1>1, <1>2, <1>3, NoGoing DEF Goes, Fails, o, x, n, T
  <2>7. QED  BY <2>3, <2>4, <2>5, <2>6, <1>5, <1>6, <1>8
<1>9. QED  BY <1>5, <1>6, <1>7, <1>8

-----------------------------------------------------------------------------
(* The invariant                                                           *)

(* What is left of such a sequence is such a sequence.                     *)
LEMMA TailPuts ==
  ASSUME NEW s, NEW A, s # <<>>
  PROVE  /\ PutsBut(s, A) => Head(s).do = "put" /\ Head(s).what \notin A /\ PutsBut(Tail(s), A)
         /\ Clean(s) => /\ Head(s).do = "put" \/ Head(s).what \notin {"chrdev", "cdev"}
                        /\ Head(s) \in Item /\ Clean(Tail(s))
<1>1. ASSUME s \in Seq(Item)
      PROVE  /\ Len(s) \in Nat \ {0} /\ Head(s) = s[1] /\ Head(s) \in Item
             /\ Tail(s) \in Seq(Item) /\ Len(Tail(s)) = Len(s) - 1
             /\ \A i \in 1 .. Len(Tail(s)) : Tail(s)[i] = s[i + 1]
  BY <1>1, HeadTailProperties
<1>2. CASE s \in Seq(Item)
  <2>1. 1 \in 1 .. Len(s) /\ \A i \in 1 .. Len(Tail(s)) : i + 1 \in 1 .. Len(s)
    BY <1>1, <1>2
  <2>2. QED  BY <1>1, <1>2, <2>1 DEF PutsBut, Clean
<1>3. QED  BY <1>2 DEF PutsBut, Clean

(* An error path makes no char device.                                     *)
LEMMA CleanUndo ==
  ASSUME NEW u \in Seq(Named)
  PROVE  /\ Clean(Steps(u)) /\ Clean(<<>>)
         /\ u # <<>> => Clean(Steps(SubSeq(u, 1, Len(u) - 1)))
<1>1. ASSUME NEW v \in Seq(Named)
      PROVE  Clean(Steps(v))
  <2>1. Len(v) \in Nat /\ \A i \in 1 .. Len(v) : v[i] \in Named
    BY <1>1
  <2>2. \A r \in Named : Put(r) \in Item /\ Put(r).do = "put"
    BY Items, <<>> \in Seq(Named)
  <2>3. \A i \in 1 .. Len(v) : Put(v[i]) \in Item /\ Put(v[i]).do = "put"
    BY <2>1, <2>2
  <2>4. [i \in 1 .. Len(v) |-> Put(v[i])] \in Seq(Item)
    BY <2>1, <2>3
  <2>5. Len([i \in 1 .. Len(v) |-> Put(v[i])]) = Len(v)
    BY <2>1
  <2>6. QED  BY <2>3, <2>4, <2>5 DEF Steps, Clean
<1>2. Clean(<<>>)
  BY DEF Clean
<1>3. ASSUME u # <<>>
      PROVE  SubSeq(u, 1, Len(u) - 1) \in Seq(Named)
  <2>1. Len(u) - 1 \in Int /\ \A i \in 1 .. Len(u) - 1 : u[i] \in Named
    OBVIOUS
  <2>2. QED  BY <2>1, SubSeqProperties
<1>4. QED  BY <1>1, <1>2, <1>3

(* The driver core, as it removes, leaves what opens have asked for.       *)
LEMMA CoreStep ==
  ASSUME Typed, Places, Run("core")
  PROVE  /\ at["core"] \in {"probing", "removing"}
         /\ at["core"] = "removing" =>
              /\ PutsBut(todo'["core"], AskedOf(drv)) /\ hist'.failed = hist.failed /\ busy' = busy
              /\ \A r \in AskedOf(drv) : ref'[r] = ref[r]
         /\ drv \in NoFile => ~ref'["chrdev"] /\ ~ref'["cdev"] /\ Clean(todo'["core"])
<1>0. "core" \in Threads /\ todo["core"] # <<>>
  BY RunFrame DEF Threads
<1>1. at["core"] \in {"probing", "removing"}
  BY <1>0 DEF Places
<1> DEFINE s == todo["core"]
<1>a. Advance("core") => todo'["core"] = Tail(s)
  BY <1>0 DEF Advance, Typed
<1>2. ASSUME at["core"] = "removing"
      PROVE  /\ PutsBut(todo'["core"], AskedOf(drv)) /\ hist'.failed = hist.failed /\ busy' = busy
             /\ \A r \in AskedOf(drv) : ref'[r] = ref[r]
  <2>1. PutsBut(s, AskedOf(drv))
    BY <1>2 DEF Places
  <2>2. Head(s).do = "put" /\ Head(s).what \notin AskedOf(drv) /\ PutsBut(Tail(s), AskedOf(drv))
    BY <2>1, <1>0, TailPuts
  <2>3. Given("core")
    BY <2>2 DEF Run, Taken, Missed, Refused, Found, Given, Counter, Permitted, Doing
  <2>4. hist'.failed = hist.failed
    BY <2>3 DEF Given, Typed, Fields
  <2>5. \A r \in AskedOf(drv) : ref'[r] = ref[r]
    <3>1. ref' = [ref EXCEPT ![Head(s).what] = FALSE]
      BY <2>3 DEF Given
    <3>2. AskedOf(drv) \subseteq Resources
      BY AskedIs DEF Typed, Files, NoFile, Wanted, Resources
    <3>3. QED  BY <3>1, <3>2, <2>2 DEF Typed
  <2>6. Advance("core") /\ busy' = busy
    BY <2>3 DEF Given
  <2>7. QED  BY <2>2, <2>4, <2>5, <2>6, <1>a
<1>3. ASSUME drv \in NoFile
      PROVE  ~ref'["chrdev"] /\ ~ref'["cdev"] /\ Clean(todo'["core"])
  <2>1. Clean(s) /\ ~ref["chrdev"] /\ ~ref["cdev"]
    BY <1>3 DEF Places
  <2>2. /\ Head(s).do = "put" \/ Head(s).what \notin {"chrdev", "cdev"}
        /\ Head(s) \in Item /\ Clean(Tail(s))
    BY <2>1, <1>0, TailPuts
  <2>3. Head(s).undo \in Seq(Named)
    BY <2>2 DEF Item
  <2>f. ASSUME NEW u \in Seq(Named), Fail("core", u)
        PROVE  Clean(todo'["core"])
    <3>1. \/ todo'["core"] = Steps(u)
          \/ u # <<>> /\ todo'["core"] = Steps(SubSeq(u, 1, Len(u) - 1))
      BY <2>f, <1>0 DEF Fail, Typed
    <3>2. QED  BY <3>1, CleanUndo
  <2>4. Clean(todo'["core"])
    <3>1. \/ Advance("core") \/ Fail("core", Head(s).undo) \/ Fail("core", <<>>)
          \/ todo' = [todo EXCEPT !["core"] = <<>>]
      BY DEF Run, Taken, Missed, Refused, Found, Given, Counter, Permitted
    <3>2. <<>> \in Seq(Named)
      OBVIOUS
    <3>3. todo' = [todo EXCEPT !["core"] = <<>>] => todo'["core"] = <<>>
      BY <1>0 DEF Typed
    <3>4. QED  BY <3>1, <3>2, <3>3, <2>2, <2>3, <2>f, <1>a, CleanUndo
  <2>5. ~ref'["chrdev"] /\ ~ref'["cdev"]
    <3>0. "chrdev" \in Resources /\ "cdev" \in Resources
      BY DEF Resources
    <3>1. CASE Taken("core")
      <4>1. Head(s).what \notin {"chrdev", "cdev"}
        BY <3>1, <2>2 DEF Taken, Doing
      <4>2. ref' = [ref EXCEPT ![Head(s).what] = TRUE]
        BY <3>1 DEF Taken
      <4>3. QED  BY <4>1, <4>2, <3>0, <2>1 DEF Typed
    <3>2. CASE Missed("core")
      <4>1. PICK b : ref' = [ref EXCEPT ![Head(s).what] = @ /\ b]
        BY <3>2 DEF Missed
      <4>2. QED  BY <4>1, <3>0, <2>1 DEF Typed
    <3>3. CASE Given("core")
      <4>1. ref' = [ref EXCEPT ![Head(s).what] = FALSE]
        BY <3>3 DEF Given
      <4>2. QED  BY <4>1, <3>0, <2>1 DEF Typed
    <3>4. CASE ref' = ref
      BY <3>4, <2>1
    <3>5. QED  BY <3>1, <3>2, <3>3, <3>4 DEF Run, Refused, Found, Counter, Permitted
  <2>6. QED  BY <2>4, <2>5
<1>4. QED  BY <1>1, <1>2, <1>3

(* What an open has asked for so far it has, or the kernel refused it.     *)
HeldTo(d, rf, fl, k) ==
  \A i \in 1 .. k - 1 : OpenOf(d)[i].do = "try" => Known(rf, fl, OpenOf(d)[i].what)

(* An open that has not come past the test of the counter, or has failed.  *)
Early(d, b, s) == b \/ \E k \in 1 .. TestOf(d) : s = RestOf(d, k)

(* A program that is not mixed and has the device open holds it alone,     *)
(* beside opens that have not come past the test of the counter. One that  *)
(* opens is beside one of those at most, and beside nobody once it is past *)
(* the test; the counter is 1 from its own step on.                        *)
Apart ==
  \A p \in Programs \ hist.mixed :
    /\ at[p] = "open" =>
         /\ busy = 1 /\ HeldTo(drv, ref, hist.failed, Len(OpenOf(drv)) + 1)
         /\ \A q \in Programs \ {p} :
              \/ Idle(at[q])
              \/ at[q] = "opening" /\ ~ResetsOf(drv) /\ Early(drv, bad[q], todo[q])
    /\ at[p] = "opening" =>
         /\ \A q \in Programs \ {p} : Idle(at[q]) \/ (at[q] = "open" /\ q \notin hist.mixed)
         /\ ~bad[p] => \E k \in 1 .. Len(OpenOf(drv)) + 1 :
              /\ todo[p] = RestOf(drv, k) /\ HeldTo(drv, ref, hist.failed, k)
              /\ k > TestOf(drv) => \A q \in Programs \ {p} : Idle(at[q])
              /\ k > TestOf(drv) + 1 => busy = 1

(* A step keeps everyone in a place where it belongs.                      *)
LEMMA RunPlaces ==
  ASSUME Typed, Places, NEW t \in Threads, Run(t)
  PROVE  Places'
<1> USE DEF Typed
<1>0. /\ drv' = drv /\ at' = at /\ hist'.mixed = hist.mixed
      /\ \A u \in Threads \ {t} : todo'[u] = todo[u] /\ bad'[u] = bad[u]
      /\ todo[t] # <<>>
  BY RunFrame
<1>c. DriverAssumption
  BY DriverAssumption
<1>1. CASE t = "core"
  <2>1. \A p \in Programs : p \in Threads \ {t}
    BY <1>1, DriverAssumption DEF DriverAssumption, Threads
  <2>2. /\ at["core"] \in {"probing", "removing"}
        /\ at["core"] = "removing" => PutsBut(todo'["core"], AskedOf(drv))
        /\ drv \in NoFile => ~ref'["chrdev"] /\ ~ref'["cdev"] /\ Clean(todo'["core"])
    BY <1>1, CoreStep
  <2>3. QED  BY <1>0, <2>1, <2>2 DEF Places
<1>2. CASE t \in Programs
  <2>0. "core" \in Threads \ {t}
    BY <1>2, DriverAssumption DEF DriverAssumption, Threads
  <2>1. at[t] \in {"opening", "closing"} /\ drv \in Files
    BY <1>0, <1>2 DEF Places, Files, NoFile, Idle
  <2>2. ASSUME at[t] = "opening"
        PROVE  /\ bad'[t] => todo'[t] = <<>>
               /\ ~bad'[t] => \E k \in 1 .. Len(OpenOf(drv)) + 1 : todo'[t] = RestOf(drv, k)
    <3>1. PICK k \in 1 .. Len(OpenOf(drv)) : Goes(t, k) \/ Fails(t, k)
      BY <1>2, <2>2, OpenStep
    <3>2. ~bad[t]
      BY <1>2, <2>2, OpenStep
    <3>3. Len(OpenOf(drv)) \in Nat
      BY <2>1, OpenShape DEF Shape
    <3>4. CASE Goes(t, k)
      <4>1. ~bad'[t] /\ todo'[t] = RestOf(drv, k + 1) /\ k + 1 \in 1 .. Len(OpenOf(drv)) + 1
        BY <3>2, <3>3, <3>4 DEF Goes
      <4>2. QED  BY <4>1
    <3>5. CASE Fails(t, k)
      BY <3>5 DEF Fails
    <3>6. QED  BY <3>1, <3>4, <3>5
  <2>3. drv \notin NoFile
    BY <2>1 DEF Files, NoFile
  <2>4. \A p \in Programs \ {t} : p \in Threads \ {t}
    BY DEF Threads
  <2>5. /\ \A p \in Programs : at[p] \notin {"opening", "closing"} => todo'[p] = <<>>
        /\ \A p \in Programs : at[p] = "opening" =>
             /\ bad'[p] => todo'[p] = <<>>
             /\ ~bad'[p] => \E k \in 1 .. Len(OpenOf(drv)) + 1 : todo'[p] = RestOf(drv, k)
    BY <1>0, <2>1, <2>2, <2>4 DEF Places
  <2>6. todo'["core"] = todo["core"]
    BY <1>0, <2>0
  <2>7. QED  BY <1>0, <2>1, <2>3, <2>5, <2>6 DEF Places
<1>3. QED  BY <1>1, <1>2 DEF Threads

-----------------------------------------------------------------------------
(* Every action keeps it                                                   *)

(* What is held stays held when nothing that is known gets lost.           *)
LEMMA HeldGrows ==
  ASSUME NEW d \in Files, NEW rf, NEW fl, NEW rg, NEW gl, NEW k \in 1 .. Len(OpenOf(d)) + 1,
         \A r \in AskedOf(d) : Known(rf, fl, r) => Known(rg, gl, r), HeldTo(d, rf, fl, k)
  PROVE  HeldTo(d, rg, gl, k)
<1> DEFINE o == OpenOf(d)
<1>1. Shape(o, TestOf(d))
  BY OpenShape
<1>2. \A i \in 1 .. k - 1 : i \in DOMAIN o
  BY <1>1 DEF Shape
<1>3. \A i \in 1 .. k - 1 : o[i].do = "try" => o[i].what \in AskedOf(d)
  BY <1>2 DEF AskedOf
<1>4. QED  BY <1>3 DEF HeldTo

(* An open that goes on holds what it has just asked for.                  *)
LEMMA Held ==
  ASSUME NEW d \in Files, NEW rf, NEW fl
  PROVE  HeldTo(d, rf, fl, 1) /\
         \A k \in 1 .. Len(OpenOf(d)) :
           /\ HeldTo(d, rf, fl, k)
           /\ OpenOf(d)[k].do = "try" => Known(rf, fl, OpenOf(d)[k].what)
           => HeldTo(d, rf, fl, k + 1)
<1>1. HeldTo(d, rf, fl, 1)
  BY DEF HeldTo
<1>2. ASSUME NEW k \in 1 .. Len(OpenOf(d)), HeldTo(d, rf, fl, k),
             OpenOf(d)[k].do = "try" => Known(rf, fl, OpenOf(d)[k].what)
      PROVE  HeldTo(d, rf, fl, k + 1)
  <2>1. \A i \in 1 .. (k + 1) - 1 : i \in 1 .. k - 1 \/ i = k
    OBVIOUS
  <2>2. QED  BY <2>1, <1>2 DEF HeldTo
<1>3. QED  BY <1>1, <1>2

(* A program that opens does not disturb one that has the device.          *)
LEMMA OpeningApart ==
  ASSUME Typed, Places, Apart, NEW t \in Programs, at[t] = "opening", Run(t)
  PROVE  Apart'
<1> USE DEF Typed
<1>0. /\ drv' = drv /\ at' = at /\ hist'.mixed = hist.mixed
      /\ \A u \in Threads \ {t} : todo'[u] = todo[u] /\ bad'[u] = bad[u]
  BY RunFrame DEF Threads
<1>d. drv \in Files /\ ~bad[t]
  BY OpenStep
<1> DEFINE n == Len(OpenOf(drv))
           T == TestOf(drv)
<1>1. PICK k \in 1 .. n : todo[t] = RestOf(drv, k) /\ (Goes(t, k) \/ Fails(t, k))
  BY OpenStep
<1>n. n \in Nat /\ T \in Nat \ {0} /\ T < n
  BY <1>d, OpenShape DEF Shape
<1>2. \A r \in AskedOf(drv) : Known(ref, hist.failed, r) => Known(ref', hist'.failed, r)
  BY OpenStep, <1>d, AskedIs DEF Wanted, Resources
<1>u. \A j \in 1 .. n + 1 : RestOf(drv, j) = todo[t] => j = k
  BY <1>1, <1>d, <1>n, RestSteps
<1>3. ASSUME NEW p \in Programs \ hist.mixed, at[p] = "open"
      PROVE  /\ busy' = 1 /\ HeldTo(drv, ref', hist'.failed, n + 1)
             /\ \A q \in Programs \ {p} :
                  \/ Idle(at[q])
                  \/ at[q] = "opening" /\ ~ResetsOf(drv) /\ Early(drv, bad'[q], todo'[q])
  <2>1. /\ busy = 1 /\ HeldTo(drv, ref, hist.failed, n + 1)
        /\ \A q \in Programs \ {p} :
             \/ Idle(at[q])
             \/ at[q] = "opening" /\ ~ResetsOf(drv) /\ Early(drv, bad[q], todo[q])
    BY <1>3 DEF Apart
  <2>2. t # p /\ ~Idle(at[t])
    BY <1>3 DEF Idle
  <2>3. ~ResetsOf(drv) /\ Early(drv, bad[t], todo[t])
    BY <2>1, <2>2
  <2>4. k <= T
    <3>1. PICK j \in 1 .. T : todo[t] = RestOf(drv, j)
      BY <2>3, <1>d DEF Early
    <3>2. j \in 1 .. n + 1
      BY <1>n
    <3>3. QED  BY <3>1, <3>2, <1>u
  <2>5. OpenOf(drv)[k].do # "zero"
    <3>1. k \in DOMAIN OpenOf(drv)
      BY <1>n, <1>d, OpenShape DEF Shape
    <3>2. QED  BY <3>1, <2>3 DEF ResetsOf
  <2>6. busy' = busy /\ Early(drv, bad'[t], todo'[t])
    <3>1. CASE Goes(t, k)
      <4>1. k < T /\ busy' = busy /\ todo'[t] = RestOf(drv, k + 1)
        BY <3>1, <2>1, <2>4, <2>5, <1>n DEF Goes
      <4>2. k + 1 \in 1 .. T
        BY <4>1, <1>n
      <4>3. QED  BY <4>1, <4>2 DEF Early
    <3>2. CASE Fails(t, k)
      BY <3>2 DEF Fails, Early
    <3>3. QED  BY <3>1, <3>2, <1>1
  <2>7. n + 1 \in 1 .. n + 1
    BY <1>n
  <2>8. HeldTo(drv, ref', hist'.failed, n + 1)
    BY <2>1, <2>7, <1>2, <1>d, HeldGrows
  <2>9. ASSUME NEW q \in Programs \ {p}
        PROVE  \/ Idle(at[q])
               \/ at[q] = "opening" /\ ~ResetsOf(drv) /\ Early(drv, bad'[q], todo'[q])
    <3>1. CASE q = t
      BY <3>1, <2>3, <2>6
    <3>2. CASE q # t
      <4>1. todo'[q] = todo[q] /\ bad'[q] = bad[q]
        BY <3>2, <1>0 DEF Threads
      <4>2. QED  BY <4>1, <2>1, <2>9
    <3>3. QED  BY <3>1, <3>2
  <2>10. QED  BY <2>1, <2>6, <2>8, <2>9
<1>4. ASSUME NEW p \in Programs \ hist.mixed, at[p] = "opening"
      PROVE  /\ \A q \in Programs \ {p} : Idle(at[q]) \/ (at[q] = "open" /\ q \notin hist.mixed)
             /\ ~bad'[p] => \E j \in 1 .. n + 1 :
                  /\ todo'[p] = RestOf(drv, j) /\ HeldTo(drv, ref', hist'.failed, j)
                  /\ j > T => \A q \in Programs \ {p} : Idle(at[q])
                  /\ j > T + 1 => busy' = 1
  <2>1. \A q \in Programs \ {p} : Idle(at[q]) \/ (at[q] = "open" /\ q \notin hist.mixed)
    BY <1>4 DEF Apart
  <2>2. p = t
    BY <2>1 DEF Idle
  <2>3. PICK i \in 1 .. n + 1 :
          /\ todo[t] = RestOf(drv, i) /\ HeldTo(drv, ref, hist.failed, i)
          /\ i > T => \A q \in Programs \ {p} : Idle(at[q])
          /\ i > T + 1 => busy = 1
    BY <1>4, <2>2, <1>d DEF Apart
  <2>4. i = k
    BY <2>3, <1>u
  <2>5. HeldTo(drv, ref', hist'.failed, k)
    BY <2>3, <2>4, <1>2, <1>d, HeldGrows
  <2>6. CASE Goes(t, k)
    <3>1. todo'[t] = RestOf(drv, k + 1) /\ k + 1 \in 1 .. n + 1
      BY <2>6, <1>n DEF Goes
    <3>2. OpenOf(drv)[k].do = "try" => Known(ref', hist'.failed, OpenOf(drv)[k].what)
      BY <2>6 DEF Goes
    <3>3. HeldTo(drv, ref', hist'.failed, k + 1)
      BY <3>2, <2>5, <1>d, Held
    <3>4. k + 1 > T => \A q \in Programs \ {p} : Idle(at[q])
      <4>1. CASE k > T
        BY <4>1, <2>3, <2>4
      <4>2. CASE k = T
        <5>1. busy = 0
          BY <2>6, <4>2, <1>n DEF Goes
        <5>2. ASSUME NEW q \in Programs \ {p}, at[q] = "open", q \notin hist.mixed
              PROVE  FALSE
          BY <5>1, <5>2 DEF Apart
        <5>3. QED  BY <5>2, <2>1
      <4>3. QED  BY <4>1, <4>2, <1>n
    <3>5. k + 1 > T + 1 => busy' = 1
      <4>1. CASE k = T + 1
        BY <4>1, <2>6, <1>n DEF Goes
      <4>2. CASE k > T + 1
        BY <4>2, <2>6, <2>3, <2>4, <1>n DEF Goes
      <4>3. QED  BY <4>1, <4>2, <1>n
    <3>6. QED  BY <3>1, <3>3, <3>4, <3>5, <2>1, <2>2
  <2>7. CASE Fails(t, k)
    BY <2>7, <2>1, <2>2 DEF Fails
  <2>8. QED  BY <2>6, <2>7, <1>1
<1>5. QED  BY <1>0, <1>3, <1>4 DEF Apart

(* Nor does any other step.                                                *)
LEMMA RunApart ==
  ASSUME Typed, Places, Apart, NEW t \in Threads, Run(t)
  PROVE  Apart'
<1> USE DEF Typed
<1>0. /\ drv' = drv /\ at' = at /\ hist'.mixed = hist.mixed
      /\ \A u \in Threads \ {t} : todo'[u] = todo[u] /\ bad'[u] = bad[u]
      /\ todo[t] # <<>>
  BY RunFrame
<1>1. CASE t = "core" /\ at["core"] = "probing"
  <2>1. \A p \in Programs \ hist.mixed : Idle(at[p])
    BY <1>1 DEF Places
  <2>2. QED  BY <2>1, <1>0 DEF Apart, Idle
<1>2. CASE t = "core" /\ at["core"] = "removing"
  <2>0. \A p \in Programs : p \in Threads \ {t}
    BY <1>2, DriverAssumption DEF DriverAssumption, Threads
  <2>1. hist'.failed = hist.failed /\ busy' = busy /\ \A r \in AskedOf(drv) : ref'[r] = ref[r]
    BY <1>2, CoreStep
  <2>2. \A r \in AskedOf(drv) : Known(ref, hist.failed, r) => Known(ref', hist'.failed, r)
    BY <2>1 DEF Known
  <2>3. ASSUME drv \in Files
        PROVE  \A k \in 1 .. Len(OpenOf(drv)) + 1 :
                 HeldTo(drv, ref, hist.failed, k) => HeldTo(drv, ref', hist'.failed, k)
    BY <2>3, <2>2, HeldGrows
  <2>4. \A p \in Programs : todo'[p] = todo[p] /\ bad'[p] = bad[p]
    BY <1>0, <2>0
  <2>5. CASE drv \in NoFile
    <3>1. \A p \in Programs : Idle(at[p])
      BY <2>5 DEF Places
    <3>2. QED  BY <3>1, <1>0 DEF Apart, Idle
  <2>6. CASE drv \in Files
    <3>n. Len(OpenOf(drv)) + 1 \in 1 .. Len(OpenOf(drv)) + 1
      BY <2>6, OpenShape DEF Shape
    <3>1. ASSUME NEW p \in Programs \ hist.mixed, at[p] = "open"
          PROVE  /\ busy' = 1 /\ HeldTo(drv, ref', hist'.failed, Len(OpenOf(drv)) + 1)
                 /\ \A q \in Programs \ {p} :
                      \/ Idle(at[q])
                      \/ at[q] = "opening" /\ ~ResetsOf(drv) /\ Early(drv, bad'[q], todo'[q])
      BY <3>1, <3>n, <2>1, <2>3, <2>4, <2>6 DEF Apart
    <3>2. ASSUME NEW p \in Programs \ hist.mixed, at[p] = "opening"
          PROVE  /\ \A q \in Programs \ {p} : Idle(at[q]) \/ (at[q] = "open" /\ q \notin hist.mixed)
                 /\ ~bad'[p] => \E j \in 1 .. Len(OpenOf(drv)) + 1 :
                      /\ todo'[p] = RestOf(drv, j) /\ HeldTo(drv, ref', hist'.failed, j)
                      /\ j > TestOf(drv) => \A q \in Programs \ {p} : Idle(at[q])
                      /\ j > TestOf(drv) + 1 => busy' = 1
      BY <3>2, <2>1, <2>3, <2>4, <2>6 DEF Apart
    <3>3. QED  BY <1>0, <3>1, <3>2 DEF Apart
  <2>7. QED  BY <2>5, <2>6
<1>3. CASE t \in Programs /\ at[t] = "opening"
  BY <1>3, OpeningApart
<1>4. CASE t \in Programs /\ at[t] = "closing"
  <2>1. \A p \in Programs \ hist.mixed : at[p] \notin {"open", "opening"}
    BY <1>4 DEF Apart, Idle
  <2>2. QED  BY <2>1, <1>0 DEF Apart
<1>5. t \in Programs => at[t] \in {"opening", "closing"}
  BY <1>0 DEF Places
<1>6. t = "core" => at["core"] \in {"probing", "removing"}
  BY CoreStep
<1>7. QED  BY <1>1, <1>2, <1>3, <1>4, <1>5, <1>6 DEF Threads

Inv == Typed /\ Places /\ Apart

(* What the calls do to the history and to the threads.                    *)
LEMMA MixIs ==
  ASSUME Typed, NEW ps \in SUBSET Programs
  PROVE  /\ DOMAIN Mix(ps) = Fields /\ Mix(ps).mixed = hist.mixed \cup ps
         /\ Mix(ps).mixed \subseteq Programs /\ Mix(ps).failed = hist.failed
  BY DEF Mix, Typed, Fields

(* What entering a function does.                                          *)
LEMMA EnterIs ==
  ASSUME Typed, NEW t \in Threads, NEW place \in Spots, NEW s, Enter(t, place, s)
  PROVE  /\ at' \in [Threads -> Spots] /\ DOMAIN todo' = Threads /\ bad' \in [Threads -> BOOLEAN]
         /\ at'[t] = place /\ todo'[t] = s /\ ~bad'[t]
         /\ \A u \in Threads \ {t} : at'[u] = at[u] /\ todo'[u] = todo[u] /\ bad'[u] = bad[u]
  BY DEF Enter, Typed

(* The loader and driver core is not a program.                            *)
LEMMA Core ==
  "core" \in Threads /\ "core" \notin Programs /\ \A p \in Programs : p \in Threads /\ p # "core"
  BY DriverAssumption DEF DriverAssumption, Threads

(* Who disturbs an open, in terms of the table.                            *)
LEMMA DisturbsIs == \A q \in Programs :
                      Disturbs(q) <=> at[q] \in {"opening", "closing"} \/ (at[q] = "open" /\ ResetsOf(drv))
  BY DEF Disturbs, Resets, ResetsOf, OpenOf

(* An open that begins: it is early itself, and if it is not mixed the     *)
(* others rest or have the device.                                         *)
LEMMA CallOpenKeeps ==
  ASSUME Inv, NEW p \in Programs, CallOpen(p)
  PROVE  Inv'
<1> USE DEF Inv
<1> DEFINE others == {q \in Programs \ {p} : Disturbs(q)}
           clash  == \/ others # {} \/ at["core"] \in {"probing", "removing"}
                     \/ \E q \in Programs \ {p} : at[q] # "closed" /\ q \in hist.mixed
           ps     == others \cup (IF clash THEN {p} ELSE {})
<1>1. /\ at[p] = "closed" /\ at["core"] # "out" /\ (ref["chrdev"] \/ ref["cdev"])
      /\ Enter(p, "opening", OpenOf(drv)) /\ hist' = [Mix(ps) EXCEPT !.calls = @ + 1]
      /\ drv' = drv /\ live' = live /\ ref' = ref /\ busy' = busy
  BY DEF CallOpen, OpenOf
<1>c. /\ \A q \in Programs \ {p} : at[q] \in {"opening", "closing"} => q \in ps
      /\ ResetsOf(drv) => \A q \in Programs \ {p} : at[q] = "open" => q \in ps
      /\ ps \subseteq Programs
      /\ p \notin ps => /\ others = {} /\ at["core"] # "probing"
                        /\ \A q \in Programs \ {p} : at[q] = "closed" \/ q \notin hist.mixed
      /\ at["core"] = "probing" => p \in ps
  BY DisturbsIs
<1>o. p \notin ps => \A q \in Programs \ {p} : q \notin ps
  BY <1>c
<1> HIDE DEF others, clash, ps
<1>2. /\ DOMAIN hist' = Fields /\ hist'.mixed = hist.mixed \cup ps /\ hist'.mixed \subseteq Programs
      /\ hist'.failed = hist.failed
  BY <1>1, <1>c, MixIs DEF Fields
<1>3. "opening" \in Spots /\ p \in Threads
  BY Core DEF Spots
<1>4. /\ at' \in [Threads -> Spots] /\ DOMAIN todo' = Threads /\ bad' \in [Threads -> BOOLEAN]
      /\ at'[p] = "opening" /\ todo'[p] = OpenOf(drv) /\ ~bad'[p]
      /\ \A u \in Threads \ {p} : at'[u] = at[u] /\ todo'[u] = todo[u] /\ bad'[u] = bad[u]
  BY <1>1, <1>3, EnterIs
<1>5. Typed'
  BY <1>1, <1>2, <1>4 DEF Typed
<1>6. drv \in Files
  BY <1>1 DEF Places, Typed
<1>s. Shape(OpenOf(drv), TestOf(drv))
  BY <1>6, OpenShape
<1>n. /\ Len(OpenOf(drv)) \in Nat /\ 1 \in 1 .. Len(OpenOf(drv)) + 1 /\ 1 \in 1 .. TestOf(drv)
      /\ TestOf(drv) \in Nat /\ ~(1 > TestOf(drv))
  BY <1>s DEF Shape
<1>r. todo'[p] = RestOf(drv, 1)
  BY <1>4, <1>6, <1>n, RestSteps
<1>p. \A q \in Programs \ {p} : at'[q] = at[q] /\ todo'[q] = todo[q] /\ bad'[q] = bad[q]
  BY <1>4, Core
<1>k. at'["core"] = at["core"] /\ todo'["core"] = todo["core"]
  BY <1>4, Core
<1>7. Places'
  <2>1. ~ (drv \in NoFile)
    BY <1>6 DEF Files, NoFile
  <2>2. at["core"] = "probing" => \A q \in Programs \ hist'.mixed : Idle(at'[q])
    <3>1. ASSUME at["core"] = "probing", NEW q \in Programs \ hist'.mixed
          PROVE  Idle(at'[q])
      <4>1. q # p /\ q \notin hist.mixed
        BY <3>1, <1>c, <1>2
      <4>2. QED  BY <4>1, <3>1, <1>p DEF Places
    <3>2. QED  BY <3>1
  <2>3. ASSUME NEW q \in Programs
        PROVE  /\ at'[q] \in {"closed", "opening", "open", "closing", "orphan"}
               /\ at'[q] \notin {"opening", "closing"} => todo'[q] = <<>>
               /\ at'[q] = "opening" =>
                    /\ bad'[q] => todo'[q] = <<>>
                    /\ ~bad'[q] => \E k \in 1 .. Len(OpenOf(drv)) + 1 : todo'[q] = RestOf(drv, k)
    <3>1. CASE q = p
      BY <3>1, <1>4, <1>r, <1>n
    <3>2. CASE q # p
      BY <3>2, <1>p DEF Places
    <3>3. QED  BY <3>1, <3>2
  <2>4. QED  BY <1>1, <1>k, <1>6, <2>1, <2>2, <2>3 DEF Places
<1>8. ASSUME NEW q \in Programs \ hist'.mixed, at'[q] = "open"
      PROVE  /\ busy = 1 /\ HeldTo(drv, ref, hist.failed, Len(OpenOf(drv)) + 1)
             /\ \A u \in Programs \ {q} :
                  \/ Idle(at'[u])
                  \/ at'[u] = "opening" /\ ~ResetsOf(drv) /\ Early(drv, bad'[u], todo'[u])
  <2>1. q # p /\ q \notin hist.mixed /\ q \notin ps
    BY <1>8, <1>4, <1>2
  <2>2. at[q] = "open"
    BY <2>1, <1>8, <1>p
  <2>3. ~ResetsOf(drv)
    BY <2>1, <2>2, <1>c
  <2>4. Early(drv, bad'[p], todo'[p])
    BY <1>r, <1>n DEF Early
  <2>5. /\ busy = 1 /\ HeldTo(drv, ref, hist.failed, Len(OpenOf(drv)) + 1)
        /\ \A u \in Programs \ {q} :
             \/ Idle(at[u])
             \/ at[u] = "opening" /\ ~ResetsOf(drv) /\ Early(drv, bad[u], todo[u])
    BY <2>1, <2>2 DEF Apart
  <2>6. ASSUME NEW u \in Programs \ {q}
        PROVE  \/ Idle(at'[u])
               \/ at'[u] = "opening" /\ ~ResetsOf(drv) /\ Early(drv, bad'[u], todo'[u])
    <3>1. CASE u = p
      BY <3>1, <2>3, <2>4, <1>4
    <3>2. CASE u # p
      <4>1. at'[u] = at[u] /\ bad'[u] = bad[u] /\ todo'[u] = todo[u]
        BY <3>2, <1>p
      <4>2. QED  BY <4>1, <2>5, <2>6
    <3>3. QED  BY <3>1, <3>2
  <2>7. QED  BY <2>5, <2>6
<1>9. ASSUME NEW q \in Programs \ hist'.mixed, at'[q] = "opening"
      PROVE  /\ \A u \in Programs \ {q} : Idle(at'[u]) \/ (at'[u] = "open" /\ u \notin hist'.mixed)
             /\ ~bad'[q] => \E k \in 1 .. Len(OpenOf(drv)) + 1 :
                  /\ todo'[q] = RestOf(drv, k) /\ HeldTo(drv, ref, hist.failed, k)
                  /\ k > TestOf(drv) => \A u \in Programs \ {q} : Idle(at'[u])
                  /\ k > TestOf(drv) + 1 => busy = 1
  <2>1. q \notin hist.mixed /\ q \notin ps
    BY <1>9, <1>2
  <2>2. q = p
    <3>1. q # p => at[q] = "opening" 
      BY <1>9, <1>p
    <3>2. QED  BY <3>1, <2>1, <1>c
  <2>3. HeldTo(drv, ref, hist.failed, 1)
    BY <1>6, Held
  <2>4. ASSUME NEW u \in Programs \ {q}
        PROVE  Idle(at'[u]) \/ (at'[u] = "open" /\ u \notin hist'.mixed)
    <3>1. u \notin ps /\ u # p
      BY <2>1, <2>2, <1>o
    <3>2. at[u] \notin {"opening", "closing"} /\ (at[u] = "closed" \/ u \notin hist.mixed)
      BY <2>1, <2>2, <3>1, <1>c
    <3>3. at[u] \in {"closed", "opening", "open", "closing", "orphan"} /\ at'[u] = at[u]
      BY <3>1, <1>p DEF Places
    <3>4. QED  BY <3>1, <3>2, <3>3, <1>2 DEF Idle
  <2>5. QED  BY <2>2, <2>3, <2>4, <1>r, <1>n
<1>10. Apart'
  <2>1. Len(OpenOf(drv)) + 1 > TestOf(drv) + 1
    BY <1>s DEF Shape
  <2>2. QED  BY <1>1, <1>2, <1>8, <1>9 DEF Apart
<1>11. QED  BY <1>5, <1>7, <1>10

(* A close that begins mixes the opens under way.                          *)
LEMMA CallCloseKeeps ==
  ASSUME Inv, NEW p \in Programs, CallClose(p)
  PROVE  Inv'
<1> USE DEF Inv
<1> DEFINE ps == {q \in Programs \ {p} : at[q] = "opening"}
<1>1. /\ at[p] = "open" /\ Enter(p, "closing", Code[drv].release) /\ hist' = Mix(ps)
      /\ drv' = drv /\ ref' = ref /\ busy' = busy
  BY DEF CallClose
<1>2. /\ DOMAIN hist' = Fields /\ hist'.mixed = hist.mixed \cup ps /\ hist'.mixed \subseteq Programs
      /\ hist'.failed = hist.failed
  BY <1>1, MixIs
<1>3. "closing" \in Spots /\ p \in Threads
  BY Core DEF Spots
<1>4. /\ at' \in [Threads -> Spots] /\ DOMAIN todo' = Threads /\ bad' \in [Threads -> BOOLEAN]
      /\ at'[p] = "closing"
      /\ \A u \in Threads \ {p} : at'[u] = at[u] /\ todo'[u] = todo[u] /\ bad'[u] = bad[u]
  BY <1>1, <1>3, EnterIs
<1>5. Typed'
  BY <1>1, <1>2, <1>4 DEF Typed
<1>p. /\ \A q \in Programs \ {p} : at'[q] = at[q] /\ todo'[q] = todo[q] /\ bad'[q] = bad[q]
      /\ at'["core"] = at["core"] /\ todo'["core"] = todo["core"]
  BY <1>4, Core
<1>6. ~Idle(at[p])
  BY <1>1 DEF Idle
<1>7. Places'
  <2>1. ~ (drv \in NoFile) /\ at["core"] # "out"
    BY <1>6 DEF Places
  <2>2. at["core"] = "probing" => \A q \in Programs \ hist'.mixed : Idle(at'[q])
    <3>1. ASSUME at["core"] = "probing", NEW q \in Programs \ hist'.mixed
          PROVE  Idle(at'[q])
      <4>1. q \notin hist.mixed
        BY <3>1, <1>2
      <4>2. q # p
        BY <3>1, <4>1, <1>6 DEF Places
      <4>3. QED  BY <4>1, <4>2, <3>1, <1>p DEF Places
    <3>2. QED  BY <3>1
  <2>3. ASSUME NEW q \in Programs
        PROVE  /\ at'[q] \in {"closed", "opening", "open", "closing", "orphan"}
               /\ at'[q] \notin {"opening", "closing"} => todo'[q] = <<>>
               /\ at'[q] = "opening" =>
                    /\ drv \in Files
                    /\ bad'[q] => todo'[q] = <<>>
                    /\ ~bad'[q] => \E k \in 1 .. Len(OpenOf(drv)) + 1 : todo'[q] = RestOf(drv, k)
    <3>1. CASE q = p
      BY <3>1, <1>4
    <3>2. CASE q # p
      BY <3>2, <1>p DEF Places
    <3>3. QED  BY <3>1, <3>2
  <2>4. QED  BY <1>1, <1>p, <2>1, <2>2, <2>3 DEF Places
<1>8. ASSUME NEW q \in Programs \ hist'.mixed
      PROVE  at'[q] \notin {"open", "opening"}
  <2>1. q \notin hist.mixed /\ q \notin ps
    BY <1>8, <1>2
  <2>2. CASE q = p
    BY <2>2, <1>4
  <2>3. CASE q # p
    <3>1. at[q] # "opening"
      BY <2>1, <2>3
    <3>2. at[q] # "open"
      BY <2>1, <2>3, <1>1 DEF Apart, Idle
    <3>3. QED  BY <3>1, <3>2, <2>3, <1>p
  <2>4. QED  BY <2>2, <2>3
<1>9. Apart'
  BY <1>8 DEF Apart
<1>10. QED  BY <1>5, <1>7, <1>9

(* An open that has come to its end has passed the test alone.             *)
LEMMA ReturnKeeps ==
  ASSUME Inv, NEW p \in Programs, Return(p)
  PROVE  Inv'
<1> USE DEF Inv
<1> DEFINE opened == at[p] = "opening" /\ ~bad[p]
<1>1. /\ at[p] \in {"opening", "closing"} /\ todo[p] = <<>>
      /\ at' = [at EXCEPT ![p] = IF opened THEN "open" ELSE "closed"]
      /\ hist' = [hist EXCEPT !.mixed = IF opened THEN @ ELSE @ \ {p}]
      /\ bad' = [bad EXCEPT ![p] = FALSE]
      /\ drv' = drv /\ todo' = todo /\ ref' = ref /\ busy' = busy
  BY DEF Return
<1>h. /\ DOMAIN hist' = Fields /\ hist'.failed = hist.failed
      /\ hist'.mixed = IF opened THEN hist.mixed ELSE hist.mixed \ {p}
  BY <1>1 DEF Typed, Fields
<1>q. drv' = drv /\ todo' = todo /\ ref' = ref /\ busy' = busy /\ hist'.failed = hist.failed
  BY <1>1, <1>h
<1>a. /\ at' \in [Threads -> Spots] /\ at'[p] = (IF opened THEN "open" ELSE "closed")
      /\ \A q \in Threads \ {p} : at'[q] = at[q]
  BY <1>1, Core DEF Typed, Spots
<1>b. bad' \in [Threads -> BOOLEAN] /\ \A q \in Threads \ {p} : bad'[q] = bad[q]
  BY <1>1 DEF Typed
<1>2. Typed'
  <2>1. hist'.mixed \subseteq Programs
    BY <1>h DEF Typed
  <2>2. QED  BY <1>1, <1>h, <1>a, <1>b, <2>1 DEF Typed
<1>p. /\ \A q \in Programs \ {p} : at'[q] = at[q] /\ bad'[q] = bad[q]
      /\ at'["core"] = at["core"]
  BY <1>a, <1>b, Core
<1>i. ~Idle(at[p]) /\ drv \in Files /\ drv \notin NoFile
  BY <1>1 DEF Idle, Places, Typed, Files, NoFile
<1>s. Shape(OpenOf(drv), TestOf(drv))
  BY <1>i, OpenShape
<1> DEFINE n == Len(OpenOf(drv))
<1>n. n \in Nat /\ TestOf(drv) \in Nat \ {0} /\ TestOf(drv) < n
  BY <1>s DEF Shape
<1>e. \A k \in 1 .. n + 1 : todo[p] = RestOf(drv, k) => k = n + 1
  <2>1. ASSUME NEW k \in 1 .. n + 1, todo[p] = RestOf(drv, k)
        PROVE  k = n + 1
    <3>1. k <= n => RestOf(drv, k) # <<>>
      BY <1>i, RestSteps
    <3>2. QED  BY <3>1, <2>1, <1>1, <1>n
  <2>2. QED  BY <2>1
<1> HIDE DEF n
<1>3. Places'
  <2>1. at["core"] # "out"
    BY <1>i DEF Places
  <2>2. at["core"] = "probing" => \A q \in Programs \ hist'.mixed : Idle(at'[q])
    <3>1. ASSUME at["core"] = "probing", NEW q \in Programs \ hist'.mixed
          PROVE  Idle(at'[q])
      <4>1. CASE q = p
        <5>1. p \in hist.mixed
          BY <3>1, <1>i DEF Places
        <5>2. ~opened
          BY <3>1, <4>1, <5>1, <1>h
        <5>3. QED  BY <4>1, <5>2, <1>a DEF Idle
      <4>2. CASE q # p
        BY <3>1, <4>2, <1>p, <1>h DEF Places
      <4>3. QED  BY <4>1, <4>2
    <3>2. QED  BY <3>1
  <2>3. ASSUME NEW q \in Programs
        PROVE  /\ at'[q] \in {"closed", "opening", "open", "closing", "orphan"}
               /\ at'[q] \notin {"opening", "closing"} => todo[q] = <<>>
               /\ at'[q] = "opening" =>
                    /\ bad'[q] => todo[q] = <<>>
                    /\ ~bad'[q] => \E k \in 1 .. Len(OpenOf(drv)) + 1 : todo[q] = RestOf(drv, k)
    <3>1. CASE q = p
      BY <3>1, <1>a, <1>1
    <3>2. CASE q # p
      BY <3>2, <1>p DEF Places
    <3>3. QED  BY <3>1, <3>2
  <2>4. QED  BY <1>1, <1>p, <1>i, <2>1, <2>2, <2>3 DEF Places
<1>4. CASE opened
  <2>1. at'[p] = "open" /\ hist'.mixed = hist.mixed
    BY <1>4, <1>a, <1>h
  <2>2. ASSUME NEW q \in Programs \ hist.mixed, q # p
        PROVE  at[q] \notin {"open", "opening"}
    <3>1. at[q] # "opening"
      BY <2>2, <1>4 DEF Apart, Idle
    <3>2. ASSUME at[q] = "open"
          PROVE  FALSE
      <4>1. Early(drv, bad[p], todo[p])
        BY <2>2, <3>2, <1>4, <1>i DEF Apart
      <4>2. PICK k \in 1 .. TestOf(drv) : todo[p] = RestOf(drv, k)
        BY <4>1, <1>4 DEF Early
      <4>3. k \in 1 .. n + 1 /\ k # n + 1
        BY <1>n
      <4>4. QED  BY <4>2, <4>3, <1>e
    <3>3. QED  BY <3>1, <3>2
  <2>3. ASSUME p \notin hist.mixed
        PROVE  /\ busy = 1 /\ HeldTo(drv, ref, hist.failed, n + 1)
               /\ \A q \in Programs \ {p} : Idle(at[q])
    <3>1. PICK k \in 1 .. n + 1 :
            /\ todo[p] = RestOf(drv, k) /\ HeldTo(drv, ref, hist.failed, k)
            /\ k > TestOf(drv) => \A q \in Programs \ {p} : Idle(at[q])
            /\ k > TestOf(drv) + 1 => busy = 1
      BY <2>3, <1>4 DEF Apart, n
    <3>2. k = n + 1
      BY <3>1, <1>e
    <3>3. k > TestOf(drv) /\ k > TestOf(drv) + 1
      BY <3>2, <1>n
    <3>4. QED  BY <3>1, <3>2, <3>3
  <2>4. ASSUME NEW q \in Programs \ hist'.mixed, at'[q] = "open"
        PROVE  /\ busy = 1 /\ HeldTo(drv, ref, hist.failed, Len(OpenOf(drv)) + 1)
               /\ \A u \in Programs \ {q} : Idle(at'[u])
    <3>1. q \notin hist.mixed
      BY <2>1, <2>4
    <3>2. q = p
      BY <2>2, <2>4, <3>1, <1>p
    <3>3. QED  BY <2>3, <3>1, <3>2, <1>p DEF n
  <2>5. ASSUME NEW q \in Programs \ hist'.mixed
        PROVE  at'[q] # "opening"
    BY <2>1, <2>2, <2>5, <1>p
  <2>6. Apart'
    BY <1>q, <2>4, <2>5 DEF Apart
  <2>7. QED  BY <2>6, <1>2, <1>3
<1>5. CASE ~opened
  <2>1. at'[p] = "closed" /\ hist'.mixed = hist.mixed \ {p}
    BY <1>5, <1>a, <1>h
  <2>2. ASSUME NEW q \in Programs \ hist'.mixed, at'[q] = "open"
        PROVE  /\ busy = 1 /\ HeldTo(drv, ref, hist.failed, Len(OpenOf(drv)) + 1)
               /\ \A u \in Programs \ {q} :
                    \/ Idle(at'[u])
                    \/ at'[u] = "opening" /\ ~ResetsOf(drv) /\ Early(drv, bad'[u], todo[u])
    <3>1. q # p /\ q \notin hist.mixed
      BY <2>1, <2>2
    <3>2. at[q] = "open"
      BY <3>1, <2>2, <1>p
    <3>3. ASSUME NEW u \in Programs \ {q}
          PROVE  \/ Idle(at'[u])
                 \/ at'[u] = "opening" /\ ~ResetsOf(drv) /\ Early(drv, bad'[u], todo[u])
      <4>1. CASE u = p
        BY <4>1, <2>1 DEF Idle
      <4>2. CASE u # p
        <5>1. at'[u] = at[u] /\ bad'[u] = bad[u]
          BY <4>2, <1>p
        <5>2. QED  BY <5>1, <3>1, <3>2, <3>3 DEF Apart
      <4>3. QED  BY <4>1, <4>2
    <3>4. QED  BY <3>1, <3>2, <3>3 DEF Apart
  <2>3. ASSUME NEW q \in Programs \ hist'.mixed, at'[q] = "opening"
        PROVE  /\ \A u \in Programs \ {q} : Idle(at'[u]) \/ (at'[u] = "open" /\ u \notin hist'.mixed)
               /\ ~bad'[q] => \E k \in 1 .. Len(OpenOf(drv)) + 1 :
                    /\ todo[q] = RestOf(drv, k) /\ HeldTo(drv, ref, hist.failed, k)
                    /\ k > TestOf(drv) => \A u \in Programs \ {q} : Idle(at'[u])
                    /\ k > TestOf(drv) + 1 => busy = 1
    <3>1. q # p /\ q \notin hist.mixed
      BY <2>1, <2>3
    <3>2. at[q] = "opening" /\ p \in Programs \ {q}
      BY <3>1, <2>3, <1>p
    <3>3. FALSE
      BY <3>1, <3>2, <1>1 DEF Apart, Idle
    <3>4. QED  BY <3>3
  <2>4. Apart'
    BY <1>q, <2>2, <2>3 DEF Apart
  <2>5. QED  BY <2>4, <1>2, <1>3
<1>6. QED  BY <1>2, <1>3, <1>4, <1>5

(* Nobody is in a module that is loaded.                                   *)
LEMMA InsmodKeeps ==
  ASSUME Inv, Insmod
  PROVE  Inv'
<1> USE DEF Inv
<1>1. /\ at["core"] = "out" /\ Enter("core", "probing", Code[drv].probe)
      /\ ref' = [r \in Resources |-> FALSE] /\ hist' = [hist EXCEPT !.calls = @ + 1] /\ drv' = drv
  BY DEF Insmod
<1>2. "probing" \in Spots /\ "core" \in Threads
  BY Core DEF Spots
<1>3. /\ at' \in [Threads -> Spots] /\ DOMAIN todo' = Threads /\ bad' \in [Threads -> BOOLEAN]
      /\ at'["core"] = "probing" /\ todo'["core"] = Code[drv].probe
      /\ \A p \in Programs : at'[p] = at[p] /\ todo'[p] = todo[p] /\ bad'[p] = bad[p]
  BY <1>1, <1>2, EnterIs, Core
<1>4. DOMAIN hist' = Fields /\ hist'.mixed = hist.mixed
  BY <1>1 DEF Typed, Fields
<1>5. Typed'
  BY <1>1, <1>3, <1>4 DEF Typed
<1>6. \A p \in Programs : Idle(at'[p]) /\ todo'[p] = <<>>
  BY <1>1, <1>3 DEF Places, Idle
<1>r. ~ref'["chrdev"] /\ ~ref'["cdev"]
  BY <1>1 DEF Resources
<1>7. Places'
  <2>1. drv \in NoFile => Clean(Code[drv].probe)
    BY NoFileSteps
  <2>2. QED  BY <1>1, <1>3, <1>6, <1>r, <2>1 DEF Places, Idle
<1>8. Apart'
  BY <1>6 DEF Apart, Idle
<1>9. QED  BY <1>5, <1>7, <1>8

(* Nothing left to do is anything.                                         *)
LEMMA EmptyPuts == \A A : PutsBut(<<>>, A) /\ Clean(<<>>)
  BY DEF PutsBut, Clean

(* While a driver is probed, whoever is in it is mixed.                    *)
LEMMA ProbedKeeps ==
  ASSUME Inv, Probed
  PROVE  Inv'
<1> USE DEF Inv
<1>1. /\ at["core"] = "probing" /\ todo["core"] = <<>>
      /\ at' = [at EXCEPT !["core"] = IF bad["core"] THEN "failed" ELSE "bound"]
      /\ ref' = [r \in Resources |-> ref[r] /\ ~(bad["core"] /\ r \in Devm)]
      /\ hist' = [hist EXCEPT !.broken = @ \/ bad["core"]]
      /\ drv' = drv /\ todo' = todo /\ bad' = bad
  BY DEF Probed
<1>2. DOMAIN hist' = Fields /\ hist'.mixed = hist.mixed
  BY <1>1 DEF Typed, Fields
<1>3. /\ at' \in [Threads -> Spots] /\ at'["core"] \in {"failed", "bound"}
      /\ \A p \in Programs : at'[p] = at[p]
  BY <1>1, Core DEF Typed, Spots
<1>r. ref' \in [Resources -> BOOLEAN]
  BY <1>1
<1>d. (~ref["chrdev"] /\ ~ref["cdev"]) => (~ref'["chrdev"] /\ ~ref'["cdev"])
  BY <1>1 DEF Resources
<1>4. Typed'
  BY <1>1, <1>2, <1>3, <1>r DEF Typed
<1>5. Places'
  BY <1>1, <1>3, <1>d, EmptyPuts DEF Places
<1>6. \A p \in Programs \ hist'.mixed : Idle(at'[p])
  BY <1>1, <1>2, <1>3 DEF Places
<1>7. Apart'
  BY <1>6 DEF Apart, Idle
<1>8. QED  BY <1>4, <1>5, <1>7

(* A removal mixes the opens under way.                                    *)
LEMMA RmmodKeeps ==
  ASSUME Inv, Rmmod
  PROVE  Inv'
<1> USE DEF Inv
<1> DEFINE ps == {p \in Programs : at[p] = "opening"}
           s == IF at["core"] = "bound" THEN Code[drv].remove ELSE <<>>
<1>1. /\ at["core"] \in {"bound", "failed"} /\ Enter("core", "removing", s) /\ hist' = Mix(ps)
      /\ drv' = drv /\ ref' = ref /\ busy' = busy
  BY DEF Rmmod
<1>2. /\ DOMAIN hist' = Fields /\ hist'.mixed = hist.mixed \cup ps /\ hist'.mixed \subseteq Programs
      /\ hist'.failed = hist.failed
  BY <1>1, MixIs
<1>s. PutsBut(s, AskedOf(drv)) /\ (drv \in NoFile => Clean(s))
  BY RemovePuts, NoFileSteps, EmptyPuts DEF Typed
<1> HIDE DEF s
<1>3. "removing" \in Spots /\ "core" \in Threads
  BY Core DEF Spots
<1>4. /\ at' \in [Threads -> Spots] /\ DOMAIN todo' = Threads /\ bad' \in [Threads -> BOOLEAN]
      /\ at'["core"] = "removing" /\ todo'["core"] = s
      /\ \A p \in Programs : at'[p] = at[p] /\ todo'[p] = todo[p] /\ bad'[p] = bad[p]
  BY <1>1, <1>3, EnterIs, Core
<1>5. Typed'
  BY <1>1, <1>2, <1>4 DEF Typed
<1>6. Places'
  BY <1>1, <1>4, <1>s DEF Places
<1>7. ASSUME NEW p \in Programs \ hist'.mixed
      PROVE  p \in Programs \ hist.mixed /\ at[p] # "opening"
  BY <1>7, <1>2
<1>8. Apart'
  BY <1>1, <1>2, <1>4, <1>7 DEF Apart
<1>9. QED  BY <1>5, <1>6, <1>8

(* After it nobody is in the driver.                                       *)
LEMMA RemovedKeeps ==
  ASSUME Inv, Removed
  PROVE  Inv'
<1> USE DEF Inv
<1>1. /\ at' = [t \in Threads |-> IF t = "core" THEN "out"
                                  ELSE IF at[t] = "closed" THEN "closed" ELSE "orphan"]
      /\ todo' = [t \in Threads |-> <<>>] /\ bad' = [t \in Threads |-> FALSE]
      /\ drv' = drv /\ ref' = ref /\ busy' = busy /\ hist' = hist
  BY DEF Removed
<1>2. /\ at' \in [Threads -> Spots] /\ at'["core"] = "out" /\ todo'["core"] = <<>>
      /\ \A p \in Programs : at'[p] \in {"closed", "orphan"} /\ todo'[p] = <<>>
  BY <1>1, Core DEF Spots
<1>3. Typed'
  BY <1>1, <1>2 DEF Typed
<1>4. Places'
  BY <1>1, <1>2, EmptyPuts DEF Places, Idle
<1>5. Apart'
  BY <1>2 DEF Apart
<1>6. QED  BY <1>3, <1>4, <1>5

(* The invariant holds at first.                                           *)
LEMMA InitInv == Init => Inv
<1> SUFFICES ASSUME Init PROVE Inv
  OBVIOUS
<1>1. drv \in Files \cup NoFile
  BY DriverAssumption, NamesAre DEF DriverAssumption, Init
<1>2. /\ at \in [Threads -> Spots] /\ at["core"] = "out" /\ todo["core"] = <<>>
      /\ DOMAIN todo = Threads /\ bad \in [Threads -> BOOLEAN]
      /\ \A p \in Programs : at[p] = "closed" /\ todo[p] = <<>>
  BY Core DEF Init, Spots
<1>3. DOMAIN hist = Fields /\ hist.mixed = {}
  BY DEF Init, Fields
<1>4. ref \in [Resources -> BOOLEAN] /\ ~ref["chrdev"] /\ ~ref["cdev"]
  BY DEF Init, Resources
<1>5. Typed
  BY <1>1, <1>2, <1>3, <1>4 DEF Typed
<1>6. Places
  BY <1>2, <1>4, EmptyPuts DEF Places, Idle
<1>7. Apart
  BY <1>2 DEF Apart
<1>8. QED  BY <1>5, <1>6, <1>7 DEF Inv

(* And every step keeps it.                                                *)
LEMMA NextInv == Inv /\ [Next]_vars => Inv'
<1> SUFFICES ASSUME Inv, [Next]_vars PROVE Inv'
  OBVIOUS
<1>1. CASE Insmod
  BY <1>1, InsmodKeeps
<1>2. CASE Probed
  BY <1>2, ProbedKeeps
<1>3. CASE Rmmod
  BY <1>3, RmmodKeeps
<1>4. CASE Removed
  BY <1>4, RemovedKeeps
<1>5. ASSUME NEW t \in Threads, Run(t)
      PROVE  Inv'
  <2>1. /\ drv' = drv /\ at' = at /\ DOMAIN hist' = Fields /\ hist'.mixed = hist.mixed
        /\ DOMAIN todo' = Threads /\ bad' \in [Threads -> BOOLEAN] /\ ref' \in [Resources -> BOOLEAN]
    BY <1>5, RunFrame DEF Inv
  <2>2. Typed'
    BY <2>1 DEF Typed, Inv
  <2>3. Places' /\ Apart'
    BY <1>5, RunPlaces, RunApart DEF Inv
  <2>4. QED  BY <2>2, <2>3 DEF Inv
<1>6. ASSUME NEW p \in Programs, CallOpen(p) \/ CallClose(p) \/ Return(p)
      PROVE  Inv'
  BY <1>6, CallOpenKeeps, CallCloseKeeps, ReturnKeeps
<1>7. CASE UNCHANGED vars
  BY <1>7 DEF vars, Inv, Typed, Places, Apart
<1>8. QED  BY <1>1, <1>2, <1>3, <1>4, <1>5, <1>6, <1>7 DEF Next

(* It gives the two properties.                                            *)
LEMMA InvHeld == Inv => HeldWhileOpen
<1> SUFFICES ASSUME Inv, NEW p \in Programs \ hist.mixed, at[p] = "open", NEW r \in Asked
             PROVE  ref[r] \/ r \in hist.failed
  BY DEF HeldWhileOpen
<1>1. drv \in Files
  BY DEF Inv, Typed, Places, Idle
<1>2. HeldTo(drv, ref, hist.failed, Len(OpenOf(drv)) + 1)
  BY DEF Inv, Apart
<1>3. PICK i \in DOMAIN OpenOf(drv) : OpenOf(drv)[i].do = "try" /\ r = OpenOf(drv)[i].what
  BY DEF Asked, OpenOf
<1>4. i \in 1 .. (Len(OpenOf(drv)) + 1) - 1
  BY <1>1, <1>3, OpenShape DEF Shape
<1>5. QED  BY <1>2, <1>3, <1>4 DEF HeldTo, Known

(* And a program that has the device open is alone.                        *)
LEMMA InvAlone == Inv => Alone
  BY DEF Inv, Apart, Alone, Idle

(* A program that has the device open, and whose open overlapped no other  *)
(* call, has what its open asked for, unless the kernel refused it: failed *)
(* opens, further opens, probes and removals around it take nothing away.  *)
THEOREM OpenerHolds == Spec => []HeldWhileOpen
<1>1. QED  BY InitInv, NextInv, InvHeld, PTL DEF Spec

(* Such a program is the only one with the device open, and the counter is *)
(* 1: its release will be the last and give everything back.               *)
THEOREM OpenerIsAlone == Spec => []Alone
<1>1. QED  BY InitInv, NextInv, InvAlone, PTL DEF Spec

-----------------------------------------------------------------------------
(* What probes, removals and releases do, driver by driver                 *)

(* The drivers whose open asks for something.                              *)
Keepers == {"mmio", "nioadc", "jasadc", "spdgauss", "hsi", "rpadc"}

ProbeOf(d)   == Code[d].probe
LeftOf(d, k) == SubSeq(ProbeOf(d), k, Len(ProbeOf(d)))
RelOf(d)     == Code[d].release

(* What the steps of a sequence before the k-th take; what a sequence      *)
(* gives back; one that does nothing else, and nothing twice.              *)
Takes(x)      == x.do \in {"get", "try", "chan"}
TakenBy(s, k) == {s[i].what : i \in {j \in 1 .. k - 1 : Takes(s[j])}}
Puts(s)       == {s[i].what : i \in 1 .. Len(s)}
Orderly(s) ==
  /\ s \in Seq(Item)
  /\ \A i \in 1 .. Len(s) : s[i].do = "put" /\ s[i].what \in Resources
  /\ \A i, j \in 1 .. Len(s) : s[i].what = s[j].what => i = j

Is(x, do, r, u) == x \in Item /\ x.do = do /\ x.what = r /\ x.undo = u

(* A step has the parts it is made of.                                     *)
LEMMA StepIs ==
  ASSUME NEW r \in Resources, NEW u \in Seq(Named)
  PROVE  /\ Is(Get(r, u), "get", r, u) /\ Is(Need(r), "get", r, <<>>) /\ Is(Try(r), "try", r, <<>>)
         /\ Is(Chan(r, u), "chan", r, u) /\ Is(Check(u), "check", "mem", u)
         /\ Is(Put(r), "put", r, <<>>) /\ Is(Zero, "zero", "busy", <<>>)
         /\ Is(Drop, "drop", "busy", <<>>)
<1>0. /\ <<>> \in Seq(Named) /\ r \in Named /\ "mem" \in Named /\ "busy" \in Named
      /\ \A k \in {"get", "try", "chan", "check", "put", "zero", "drop"} : k \in Kinds
  BY DEF Named, Kinds
<1>1. \A x \in Kinds : \A y \in Named : \A z \in Seq(Named) : Is(Step(x, y, z), x, y, z)
  BY DEF Step, Item, Is
<1>2. /\ Is(Get(r, u), "get", r, u) /\ Is(Need(r), "get", r, <<>>) /\ Is(Try(r), "try", r, <<>>)
  BY <1>0, <1>1 DEF Get, Need, Try
<1>3. Is(Chan(r, u), "chan", r, u) /\ Is(Check(u), "check", "mem", u)
  BY <1>0, <1>1 DEF Chan, Check
<1>4. Is(Put(r), "put", r, <<>>) /\ Is(Zero, "zero", "busy", <<>>) /\ Is(Drop, "drop", "busy", <<>>)
  BY <1>0, <1>1 DEF Put, Zero, Drop
<1>5. QED  BY <1>2, <1>3, <1>4

(* What is taken grows step by step.                                       *)
LEMMA TakenStep ==
  ASSUME NEW s \in Seq(Item), NEW n, Len(s) = n
  PROVE  /\ TakenBy(s, 1) = {}
         /\ \A k \in 1 .. n : \A m : m = k + 1 =>
              TakenBy(s, m) = TakenBy(s, k) \cup (IF Takes(s[k]) THEN {s[k].what} ELSE {})
<1>1. ASSUME NEW k \in 1 .. n, NEW m, m = k + 1
      PROVE  TakenBy(s, m) = TakenBy(s, k) \cup (IF Takes(s[k]) THEN {s[k].what} ELSE {})
  <2>1. 1 .. (m - 1) = (1 .. (k - 1)) \cup {k}
    BY <1>1
  <2>2. QED  BY <2>1 DEF TakenBy
<1>2. 1 .. (1 - 1) = {}
  OBVIOUS
<1>3. TakenBy(s, 1) = {}
  BY <1>2 DEF TakenBy
<1>4. QED  BY <1>1, <1>3

(* Up to three different things given back.                                *)
LEMMA FewPuts ==
  ASSUME NEW a \in Resources, NEW b \in Resources \ {a}, NEW c \in Resources \ {a, b}
  PROVE  /\ Orderly(<<>>) /\ Puts(<<>>) = {}
         /\ Orderly(<<Put(a)>>) /\ Puts(<<Put(a)>>) = {a}
         /\ Orderly(<<Put(a), Put(b)>>) /\ Puts(<<Put(a), Put(b)>>) = {a, b}
         /\ Orderly(<<Put(a), Put(b), Put(c)>>) /\ Puts(<<Put(a), Put(b), Put(c)>>) = {a, b, c}
<1> DEFINE x == Put(a)
           y == Put(b)
           z == Put(c)
<1>1. Is(x, "put", a, <<>>) /\ Is(y, "put", b, <<>>) /\ Is(z, "put", c, <<>>)
  BY StepIs, <<>> \in Seq(Named)
<1> HIDE DEF x, y, z
<1>2. Orderly(<<>>) /\ Puts(<<>>) = {}
  BY DEF Orderly, Puts
<1>3. Orderly(<<x>>) /\ Puts(<<x>>) = {a}
  BY <1>1 DEF Orderly, Puts, Is
<1>4. Orderly(<<x, y>>) /\ Puts(<<x, y>>) = {a, b}
  BY <1>1 DEF Orderly, Puts, Is
<1>5. Orderly(<<x, y, z>>)
  BY <1>1 DEF Orderly, Is
<1>6. Puts(<<x, y, z>>) = {a, b, c}
  <2>1. 1 .. Len(<<x, y, z>>) = {1, 2, 3}
    OBVIOUS
  <2>2. QED  BY <2>1, <1>1 DEF Puts, Is
<1>7. QED  BY <1>2, <1>3, <1>4, <1>5, <1>6 DEF x, y, z

(* What the opens of the table ask for, and where the ring comes.          *)
LEMMA Asking ==
  /\ \A d \in Keepers : d \in Files /\ AskedOf(d) # {}
  /\ AskedOf("mmio") = {"map", "irq"} /\ AskedOf("rpadc") = {"map", "irq"}
  /\ \A d \in {"nioadc", "jasadc", "spdgauss", "hsi"} :
       AskedOf(d) = {"map", "irq", "buffer"} /\ ResetsOf(d)
  /\ \A d \in (Files \cup NoFile) \ Keepers : AskedOf(d) = {}
  /\ \A d \in Keepers : \A k \in 1 .. Len(OpenOf(d)) :
       OpenOf(d)[k].do = "try" =>
         /\ OpenOf(d)[k].what \in AskedOf(d)
         /\ OpenOf(d)[k].what = "buffer" => k = TestOf(d) - 1 /\ ResetsOf(d)
         /\ \A j \in 1 .. Len(OpenOf(d)) :
              OpenOf(d)[j].do = "try" /\ OpenOf(d)[j].what = OpenOf(d)[k].what => j = k
<1> DEFINE a == Try("map")
           b == Try("irq")
           c == Try("buffer")
           T(o) == {i \in DOMAIN o : o[i].do = "try"}
<1>0. "map" \in Resources /\ "irq" \in Resources /\ "buffer" \in Resources /\ <<>> \in Seq(Named)
  BY DEF Resources
<1>i. Is(a, "try", "map", <<>>) /\ Is(b, "try", "irq", <<>>) /\ Is(c, "try", "buffer", <<>>)
  BY <1>0, StepIs
<1>c. Zero.do = "zero" /\ Take.do = "take" /\ Test.do = "test" /\ Perm.do = "perm"
  BY Counters
<1> HIDE DEF a, b, c
<1>1. LET o == <<a, b, Test, Take, Perm>> IN T(o) = {1, 2} /\ Len(o) = 5
  BY <1>i, <1>c DEF Is
<1>2. LET o == <<a, b, Zero, Test, Take, Perm>> IN T(o) = {1, 2} /\ Len(o) = 6
  BY <1>i, <1>c DEF Is
<1>3. LET o == <<a, b, Zero, c, Test, Take, Perm>> IN T(o) = {1, 2, 4} /\ Len(o) = 7
  BY <1>i, <1>c DEF Is
<1>w. a.what = "map" /\ b.what = "irq" /\ c.what = "buffer"
  BY <1>i DEF Is
<1>m. ASSUME NEW d \in {"mmio"}
      PROVE  OpenOf(d) = <<a, b, Test, Take, Perm>> /\ TestOf(d) = 3
  BY OpenIs DEF OpenOf, TestOf, MmioOpen, a, b
<1>r. ASSUME NEW d \in {"rpadc"}
      PROVE  OpenOf(d) = <<a, b, Zero, Test, Take, Perm>> /\ TestOf(d) = 4
  BY OpenIs DEF OpenOf, TestOf, RpadcOpen, a, b
<1>n. ASSUME NEW d \in {"nioadc", "jasadc", "spdgauss", "hsi"}
      PROVE  OpenOf(d) = <<a, b, Zero, c, Test, Take, Perm>> /\ TestOf(d) = 5
  BY OpenIs DEF OpenOf, TestOf, NioadcOpen, JasadcOpen, SpdgaussOpen, HsiOpen, a, b, c
<1>4. AskedOf("mmio") = {"map", "irq"} /\ AskedOf("rpadc") = {"map", "irq"}
  <2>1. AskedOf("mmio") = {OpenOf("mmio")[i].what : i \in {1, 2}}
    BY <1>m, <1>1 DEF AskedOf
  <2>2. AskedOf("rpadc") = {OpenOf("rpadc")[i].what : i \in {1, 2}}
    BY <1>r, <1>2 DEF AskedOf
  <2>3. OpenOf("mmio")[1] = a /\ OpenOf("mmio")[2] = b
    BY <1>m
  <2>4. OpenOf("rpadc")[1] = a /\ OpenOf("rpadc")[2] = b
    BY <1>r
  <2>5. QED  BY ONLY <2>1, <2>2, <2>3, <2>4, <1>w
<1>5. ASSUME NEW d \in {"nioadc", "jasadc", "spdgauss", "hsi"}
      PROVE  AskedOf(d) = {"map", "irq", "buffer"} /\ ResetsOf(d)
  <2>1. AskedOf(d) = {OpenOf(d)[i].what : i \in {1, 2, 4}}
    BY <1>n, <1>3 DEF AskedOf
  <2>2. OpenOf(d)[1] = a /\ OpenOf(d)[2] = b /\ OpenOf(d)[4] = c /\ OpenOf(d)[3] = Zero
        /\ 3 \in DOMAIN OpenOf(d)
    BY <1>n
  <2>3. AskedOf(d) = {"map", "irq", "buffer"}
    BY ONLY <2>1, <2>2, <1>w
  <2>4. QED  BY <2>2, <2>3, <1>c DEF ResetsOf
<1>6. ASSUME NEW d \in (Files \cup NoFile) \ Keepers
      PROVE  AskedOf(d) = {}
  <2>1. CASE d \in NoFile
    BY <2>1, AskedIs DEF NoFile
  <2>2. CASE d \in Files \ Keepers
    <3>1. TestOf(d) = 1
      BY <2>2 DEF TestOf, Files, Keepers
    <3>2. Shape(OpenOf(d), 1)
      BY <3>1, <2>2, OpenShape
    <3>3. \A i \in DOMAIN OpenOf(d) : OpenOf(d)[i].do # "try"
      BY <3>2 DEF Shape
    <3>4. QED  BY <3>3 DEF AskedOf
  <2>3. QED  BY <2>1, <2>2, <1>6
<1>7. \A d \in Keepers : d \in Files /\ AskedOf(d) # {}
  <2>1. \A d \in {"nioadc", "jasadc", "spdgauss", "hsi"} : AskedOf(d) # {}
    BY <1>5
  <2>2. QED  BY <1>4, <2>1 DEF Keepers, Files
<1>8. ASSUME NEW d \in Keepers, NEW k \in 1 .. Len(OpenOf(d)), OpenOf(d)[k].do = "try"
      PROVE  /\ OpenOf(d)[k].what \in AskedOf(d)
             /\ OpenOf(d)[k].what = "buffer" => k = TestOf(d) - 1 /\ ResetsOf(d)
             /\ \A j \in 1 .. Len(OpenOf(d)) :
                  OpenOf(d)[j].do = "try" /\ OpenOf(d)[j].what = OpenOf(d)[k].what => j = k
  <2>0. d \in Files /\ OpenOf(d) \in Seq(Item)
    BY <1>7, OpenShape DEF Shape
  <2>1. OpenOf(d)[k].what \in AskedOf(d)
    BY <2>0, <1>8 DEF AskedOf
  <2>2. CASE d = "mmio"
    BY <2>1, <2>2, <1>m, <1>1, <1>w, <1>8
  <2>3. CASE d = "rpadc"
    BY <2>1, <2>3, <1>r, <1>2, <1>w, <1>8
  <2>4. CASE d \in {"nioadc", "jasadc", "spdgauss", "hsi"}
    <3>1. \A j \in 1 .. Len(OpenOf(d)) : OpenOf(d)[j].do = "try" => j \in {1, 2, 4}
      <4>1. OpenOf(d) = <<a, b, Zero, c, Test, Take, Perm>>
        BY <2>4, <1>n
      <4>2. T(OpenOf(d)) = {1, 2, 4}
        BY ONLY <4>1, <1>3
      <4>3. DOMAIN OpenOf(d) = 1 .. Len(OpenOf(d))
        BY <2>0
      <4>4. QED  BY ONLY <4>2, <4>3
    <3>k. k \in {1, 2, 4}
      BY <3>1, <1>8
    <3>2. OpenOf(d)[1].what = "map" /\ OpenOf(d)[2].what = "irq" /\ OpenOf(d)[4].what = "buffer"
          /\ TestOf(d) = 5
      BY <2>4, <1>n, <1>w
    <3>3. QED  BY <2>1, <2>4, <3>1, <3>k, <3>2, <1>5
  <2>5. QED  BY <2>2, <2>3, <2>4 DEF Keepers
<1>9. QED  BY <1>4, <1>5, <1>6, <1>7, <1>8

(* The rows of the table.                                                  *)
LEMMA ReleaseIs ==
  /\ Code["pwmgen"].release = PwmRelease /\ Code["spalk"].release = SpalkRelease
  /\ Code["w7x"].release = W7xRelease /\ Code["mmio"].release = MmioRelease
  /\ Code["nioadc"].release = NioadcRelease /\ Code["jasadc"].release = JasadcRelease
  /\ Code["spdgauss"].release = SpdgaussRelease /\ Code["hsi"].release = HsiRelease
  /\ Code["rpadc"].release = RpadcRelease
  /\ Code["ex2"].release = Ex2Release /\ Code["ex3"].release = Ex3Release
  /\ Code["ex4"].release = Ex4Release /\ Code["ex5"].release = Ex5Release
  /\ Code["ex6"].release = Ex6Release
  BY DEF Code, Of

(* Three of them.                                                          *)
LEMMA ThreePuts ==
  ASSUME NEW a \in Resources, NEW b \in Resources \ {a}, NEW c \in Resources \ {a, b}
  PROVE  Orderly(<<Put(a), Put(b), Put(c)>>) /\ Puts(<<Put(a), Put(b), Put(c)>>) = {a, b, c}
<1> DEFINE x == Put(a)
           y == Put(b)
           z == Put(c)
<1>1. Is(x, "put", a, <<>>) /\ Is(y, "put", b, <<>>) /\ Is(z, "put", c, <<>>)
  BY StepIs, <<>> \in Seq(Named)
<1> HIDE DEF x, y, z
<1>2. Orderly(<<x, y, z>>)
  BY <1>1 DEF Orderly, Is
<1>3. 1 .. Len(<<x, y, z>>) = {1, 2, 3}
  OBVIOUS
<1>4. Puts(<<x, y, z>>) = {a, b, c}
  BY <1>1, <1>3 DEF Puts, Is
<1>5. QED  BY <1>2, <1>4 DEF x, y, z

(* A release counts the program off, and gives back what opens ask for.    *)
LEMMA ReleaseShape ==
  ASSUME NEW d \in Files
  PROVE  /\ RelOf(d) # <<>> /\ Head(RelOf(d)) = Drop
         /\ Orderly(Tail(RelOf(d))) /\ Puts(Tail(RelOf(d))) = AskedOf(d)
<1>t. /\ Tail(<<Drop>>) = <<>> /\ Head(<<Drop>>) = Drop /\ <<Drop>> # <<>>
      /\ \A x, y : LET s == <<Drop, x, y>> IN Tail(s) = <<x, y>> /\ Head(s) = Drop /\ s # <<>>
      /\ \A x, y, z : LET s == <<Drop, x, y, z>> IN Tail(s) = <<x, y, z>> /\ Head(s) = Drop /\ s # <<>>
  OBVIOUS
<1>0. /\ "irq" \in Resources /\ "map" \in Resources \ {"irq"}
      /\ "buffer" \in Resources \ {"irq", "map"}
  BY DEF Resources
<1>1. CASE d \in Files \ Keepers
  <2>1. RelOf(d) = <<Drop>>
    BY <1>1, ReleaseIs DEF RelOf, Files, Keepers, PwmRelease, SpalkRelease, W7xRelease, Ex2Release,
       Ex3Release, Ex4Release, Ex5Release, Ex6Release
  <2>2. AskedOf(d) = {}
    BY <1>1, Asking
  <2>3. Orderly(<<>>) /\ Puts(<<>>) = {}
    BY <1>0, FewPuts
  <2>4. QED  BY <2>1, <2>2, <2>3, <1>t
<1>2. CASE d \in {"mmio", "rpadc"}
  <2>1. RelOf(d) = <<Drop, Put("irq"), Put("map")>>
    BY <1>2, ReleaseIs DEF RelOf, MmioRelease, RpadcRelease
  <2>2. AskedOf(d) = {"irq", "map"}
    BY <1>2, Asking
  <2>3. /\ Orderly(<<Put("irq"), Put("map")>>) /\ Puts(<<Put("irq"), Put("map")>>) = {"irq", "map"}
    BY <1>0, FewPuts
  <2>4. QED  BY <2>1, <2>2, <2>3, <1>t
<1>3. CASE d \in {"nioadc", "jasadc", "spdgauss", "hsi"}
  <2>1. RelOf(d) = <<Drop, Put("irq"), Put("map"), Put("buffer")>>
    BY <1>3, ReleaseIs DEF RelOf, NioadcRelease, JasadcRelease, SpdgaussRelease, HsiRelease
  <2>2. AskedOf(d) = {"irq", "map", "buffer"}
    BY <1>3, Asking
  <2>3. LET s == <<Put("irq"), Put("map"), Put("buffer")>>
        IN  Orderly(s) /\ Puts(s) = {"irq", "map", "buffer"}
    BY ONLY <1>0, ThreePuts
  <2>4. QED  BY <2>1, <2>2, <2>3, <1>t
<1>4. QED  BY <1>1, <1>2, <1>3 DEF Keepers

OwnedOf(d) == \E i \in DOMAIN ProbeOf(d) : ProbeOf(d)[i].what = "cdev"
Triggers   == {"sample trigger", "convst trigger", "event buffer"}

(* The error path of the k-th step of a probe gives back nothing twice and *)
(* nothing that was not taken, but for the resource refused and the clock  *)
(* of the XADC, and the XADC gives back everything but the triggers of an  *)
(* interrupt that is refused. Example 1 reports success in the end.        *)
Undoes(d, s, k) ==
  LET x == s[k]
      u == x.undo
      G == {u[i] : i \in 1 .. Len(u)}
  IN  \/ d = "ex1" /\ x.what = "rx" /\ u = <<"tx", "ok">> /\ "tx" \in TakenBy(s, k)
      \/ /\ u \in Seq(Resources) /\ \A i, j \in 1 .. Len(u) : u[i] = u[j] => i = j
         /\ G \cap AskedOf(d) = {}
         /\ G \subseteq TakenBy(s, k) \cup {x.what} \cup (IF d = "xadc" THEN {"clk"} ELSE {})
         /\ d = "xadc" => TakenBy(s, k) \subseteq G \cup (IF x.what = "irq" THEN Triggers ELSE {})

(* A probe takes things one by one, none twice and none that an open asks  *)
(* for; the removal gives back all of them but the numbers of a cdev.      *)
ProbeSteps(d, s) ==
  /\ s \in Seq(Item) /\ Len(s) \in Nat
  /\ \A k \in 1 .. Len(s) : /\ s[k].do \in {"get", "try", "chan", "check", "zero"}
                            /\ Takes(s[k]) => s[k].what \in Resources \ AskedOf(d)
                            /\ s[k].do \in {"get", "chan", "check"} => Undoes(d, s, k)
  /\ \A i, j \in 1 .. Len(s) : Takes(s[i]) /\ Takes(s[j]) /\ s[i].what = s[j].what => i = j
RemoveSteps(d, s, r) ==
  LET W == TakenBy(s, Len(s) + 1)
  IN  Orderly(r) /\ Puts(r) \subseteq W /\ W \subseteq Puts(r) \cup (IF OwnedOf(d) THEN {"region"} ELSE {})
ProbeShape(d) == ProbeSteps(d, ProbeOf(d)) /\ RemoveSteps(d, ProbeOf(d), Code[d].remove)

(* Nothing to give back is in order.                                       *)
LEMMA NoUndo ==
  ASSUME NEW d, d # "xadc", NEW s, NEW k, s[k].undo = <<>>
  PROVE  Undoes(d, s, k)
  BY DEF Undoes

(* The rows of the table.                                                  *)
LEMMA ProbesAre ==
  /\ Code["pwmgen"].probe = PwmProbe /\ Code["spalk"].probe = SpalkProbe
  /\ Code["w7x"].probe = W7xProbe /\ Code["mmio"].probe = MmioProbe
  /\ Code["nioadc"].probe = NioadcProbe /\ Code["jasadc"].probe = JasadcProbe
  /\ Code["spdgauss"].probe = SpdgaussProbe /\ Code["hsi"].probe = HsiProbe
  /\ Code["rpadc"].probe = RpadcProbe
  /\ Code["ex2"].probe = Ex2Probe /\ Code["ex3"].probe = Ex3Probe /\ Code["ex4"].probe = Ex4Probe
  /\ Code["ex5"].probe = Ex5Probe /\ Code["ex6"].probe = Ex6Probe
  BY DEF Code, Of

(* The drivers that map registers, with a file of register_chrdev.         *)
LEMMA ClassProbe ==
  ASSUME NEW d \in {"pwmgen", "spalk", "w7x"}
  PROVE  ProbeShape(d)
<1> DEFINE a == Need("chrdev")
           b == Need("class")
           c == Try("device")
           e == Check(<<>>)
           s == <<a, b, c, e>>
           r == <<Put("device"), Put("class"), Put("chrdev")>>
<1>z. /\ "device" \in Resources /\ "class" \in Resources \ {"device"}
      /\ "chrdev" \in Resources \ {"device", "class"}
  BY DEF Resources
<1>0. /\ <<>> \in Seq(Named)
  BY DEF Resources
<1>2. /\ Is(a, "get", "chrdev", <<>>) /\ Is(b, "get", "class", <<>>)
      /\ Is(c, "try", "device", <<>>) /\ Is(e, "check", "mem", <<>>)
  BY <1>z, <1>0, StepIs
<1>1. ProbeOf(d) = s /\ Code[d].remove = r
  BY ProbesAre, RemoveIs DEF ProbeOf, PwmProbe, SpalkProbe, W7xProbe, PwmRemove,
     SpalkRemove, W7xRemove
<1>3. AskedOf(d) = {} /\ d # "xadc"
  BY Asking DEF Files, Keepers, NoFile
<1>4. Orderly(r) /\ Puts(r) = {"device", "class", "chrdev"}
  BY ONLY <1>z, FewPuts
<1> HIDE DEF a, b, c, e, r
<1>5. s \in Seq(Item) /\ Len(s) = 4
  BY <1>2 DEF Is
<1>p. s[1] = a /\ s[2] = b /\ s[3] = c /\ s[4] = e
  OBVIOUS
<1> HIDE DEF s
<1>t. Takes(s[1]) /\ Takes(s[2]) /\ Takes(s[3]) /\ ~Takes(s[4])
  BY <1>p, <1>2 DEF Is, Takes
<1>q. s[1].what = "chrdev" /\ s[2].what = "class" /\ s[3].what = "device" /\ s[4].what = "mem"
  BY <1>p, <1>2 DEF Is
<1>6. TakenBy(s, 5) = {"chrdev", "class", "device"}
  <2>1. TakenBy(s, 1) = {} /\ \A k \in 1 .. 4 : \A m : m = k + 1 =>
          TakenBy(s, m) = TakenBy(s, k) \cup (IF Takes(s[k]) THEN {s[k].what} ELSE {})
    BY TakenStep, <1>5
  <2>2. 2 = 1 + 1 /\ 3 = 2 + 1 /\ 4 = 3 + 1 /\ 5 = 4 + 1
    OBVIOUS
  <2>3. TakenBy(s, 2) = {"chrdev"}
    BY ONLY <1>t, <1>q, <2>1, <2>2
  <2>4. TakenBy(s, 3) = {"chrdev", "class"}
    BY ONLY <1>t, <1>q, <2>1, <2>2, <2>3
  <2>5. TakenBy(s, 4) = {"chrdev", "class", "device"}
    BY ONLY <1>t, <1>q, <2>1, <2>2, <2>4
  <2>6. QED  BY ONLY <1>t, <1>q, <2>1, <2>2, <2>5
<1>7. ProbeSteps(d, s)
  <2>1. \A k \in 1 .. 4 : /\ s[k].do \in {"get", "try", "chan", "check", "zero"}
                          /\ Takes(s[k]) => s[k].what \in Resources \ AskedOf(d)
    BY <1>p, <1>2, <1>t, <1>z, <1>0, <1>3 DEF Is
  <2>2. \A i, j \in 1 .. 4 : Takes(s[i]) /\ Takes(s[j]) /\ s[i].what = s[j].what => i = j
    BY ONLY <1>t, <1>q
  <2>3. \A k \in 1 .. 4 : s[k].undo = <<>>
    BY <1>p, <1>2 DEF Is
  <2>4. \A k \in 1 .. 4 : Undoes(d, s, k)
    BY <2>3, <1>3, NoUndo
  <2>5. QED  BY <2>1, <2>2, <2>4, <1>5 DEF ProbeSteps
<1>8. RemoveSteps(d, s, r)
  BY <1>4, <1>5, <1>6 DEF RemoveSteps
<1>9. QED  BY <1>1, <1>7, <1>8 DEF ProbeShape

(* Those with a cdev.                                                      *)
LEMMA CdevProbe ==
  ASSUME NEW d \in {"mmio", "nioadc", "jasadc", "spdgauss", "hsi", "rpadc"}
  PROVE  ProbeShape(d) /\ OwnedOf(d)
<1> DEFINE a == Need("region")
           b == Need("cdev")
           c == Need("class")
           e == Try("device")
           f == Check(<<>>)
           s == <<a, b, c, e, f>>
           r == <<Put("device"), Put("class"), Put("cdev")>>
<1>z. /\ "device" \in Resources /\ "class" \in Resources \ {"device"}
      /\ "cdev" \in Resources \ {"device", "class"}
  BY DEF Resources
<1>0. /\ "region" \in Resources /\ <<>> \in Seq(Named)
  BY DEF Resources
<1>2. /\ Is(a, "get", "region", <<>>) /\ Is(b, "get", "cdev", <<>>)
      /\ Is(c, "get", "class", <<>>) /\ Is(e, "try", "device", <<>>)
      /\ Is(f, "check", "mem", <<>>)
  BY <1>z, <1>0, StepIs
<1>1. ProbeOf(d) = s /\ Code[d].remove = r
  BY ProbesAre, RemoveIs DEF ProbeOf, MmioProbe, NioadcProbe, JasadcProbe, SpdgaussProbe, HsiProbe,
     RpadcProbe, MmioRemove, NioadcRemove, JasadcRemove, SpdgaussRemove, HsiRemove, RpadcRemove
<1>3. AskedOf(d) \subseteq Wanted /\ d # "xadc"
  BY AskedIs DEF Files
<1>w. \A x \in {"region", "cdev", "class", "device"} : x \in Resources \ Wanted
  BY <1>z, <1>0 DEF Wanted
<1>4. Orderly(r) /\ Puts(r) = {"device", "class", "cdev"}
  BY ONLY <1>z, FewPuts
<1> HIDE DEF a, b, c, e, f, r
<1>5. s \in Seq(Item) /\ Len(s) = 5
  BY <1>2 DEF Is
<1>p. s[1] = a /\ s[2] = b /\ s[3] = c /\ s[4] = e /\ s[5] = f
  OBVIOUS
<1> HIDE DEF s
<1>t. Takes(s[1]) /\ Takes(s[2]) /\ Takes(s[3]) /\ Takes(s[4]) /\ ~Takes(s[5])
  BY <1>p, <1>2 DEF Is, Takes
<1>q. s[1].what = "region" /\ s[2].what = "cdev" /\ s[3].what = "class" /\ s[4].what = "device" /\ s[5].what = "mem"
  BY <1>p, <1>2 DEF Is
<1>6. TakenBy(s, 6) = {"region", "cdev", "class", "device"}
  <2>1. TakenBy(s, 1) = {} /\ \A k \in 1 .. 5 : \A m : m = k + 1 =>
          TakenBy(s, m) = TakenBy(s, k) \cup (IF Takes(s[k]) THEN {s[k].what} ELSE {})
    BY TakenStep, <1>5
  <2>2. 2 = 1 + 1 /\ 3 = 2 + 1 /\ 4 = 3 + 1 /\ 5 = 4 + 1 /\ 6 = 5 + 1
    OBVIOUS
  <2>3. TakenBy(s, 2) = {"region"}
    BY ONLY <1>t, <1>q, <2>1, <2>2
  <2>4. TakenBy(s, 3) = {"region", "cdev"}
    BY ONLY <1>t, <1>q, <2>1, <2>2, <2>3
  <2>5. TakenBy(s, 4) = {"region", "cdev", "class"}
    BY ONLY <1>t, <1>q, <2>1, <2>2, <2>4
  <2>6. TakenBy(s, 5) = {"region", "cdev", "class", "device"}
    BY ONLY <1>t, <1>q, <2>1, <2>2, <2>5
  <2>7. QED  BY ONLY <1>t, <1>q, <2>1, <2>2, <2>6
<1>7. ProbeSteps(d, s)
  <2>1. \A k \in 1 .. 5 : /\ s[k].do \in {"get", "try", "chan", "check", "zero"}
                          /\ Takes(s[k]) => s[k].what \in Resources \ AskedOf(d)
    BY <1>p, <1>2, <1>t, <1>w, <1>3 DEF Is
  <2>2. \A i, j \in 1 .. 5 : Takes(s[i]) /\ Takes(s[j]) /\ s[i].what = s[j].what => i = j
    BY ONLY <1>t, <1>q
  <2>3. \A k \in 1 .. 5 : s[k].undo = <<>>
    BY <1>p, <1>2 DEF Is
  <2>4. \A k \in 1 .. 5 : Undoes(d, s, k)
    BY <2>3, <1>3, NoUndo
  <2>5. QED  BY <2>1, <2>2, <2>4, <1>5 DEF ProbeSteps
<1>o. OwnedOf(d)
  BY <1>1, <1>5, <1>q DEF OwnedOf
<1>8. RemoveSteps(d, s, r)
  BY <1>4, <1>5, <1>6, <1>o DEF RemoveSteps
<1>9. QED  BY <1>1, <1>7, <1>8, <1>o DEF ProbeShape

(* The DMA examples without channels.                                      *)
LEMMA Ex2Shape ==
  ASSUME NEW d \in {"ex2"}
  PROVE  ProbeShape(d)
<1> DEFINE a == Try("buffer")
           b == Need("chrdev")
           s == <<a, b>>
           r == <<Put("chrdev"), Put("buffer")>>
<1>z. /\ "chrdev" \in Resources /\ "buffer" \in Resources \ {"chrdev"}
      /\ "class" \in Resources \ {"chrdev", "buffer"}
  BY DEF Resources
<1>0. /\ <<>> \in Seq(Named)
  BY DEF Resources
<1>2. /\ Is(a, "try", "buffer", <<>>) /\ Is(b, "get", "chrdev", <<>>)
  BY <1>z, <1>0, StepIs
<1>1. ProbeOf(d) = s /\ Code[d].remove = r
  BY ProbesAre, RemoveIs DEF ProbeOf, Ex2Probe, Ex2Remove
<1>3. AskedOf(d) = {} /\ d # "xadc"
  BY Asking DEF Files, Keepers, NoFile
<1>4. Orderly(r) /\ Puts(r) = {"chrdev", "buffer"}
  BY ONLY <1>z, FewPuts
<1> HIDE DEF a, b, r
<1>5. s \in Seq(Item) /\ Len(s) = 2
  BY <1>2 DEF Is
<1>p. s[1] = a /\ s[2] = b
  OBVIOUS
<1> HIDE DEF s
<1>t. Takes(s[1]) /\ Takes(s[2])
  BY <1>p, <1>2 DEF Is, Takes
<1>q. s[1].what = "buffer" /\ s[2].what = "chrdev"
  BY <1>p, <1>2 DEF Is
<1>6. TakenBy(s, 3) = {"buffer", "chrdev"}
  <2>1. TakenBy(s, 1) = {} /\ \A k \in 1 .. 2 : \A m : m = k + 1 =>
          TakenBy(s, m) = TakenBy(s, k) \cup (IF Takes(s[k]) THEN {s[k].what} ELSE {})
    BY TakenStep, <1>5
  <2>2. 2 = 1 + 1 /\ 3 = 2 + 1
    OBVIOUS
  <2>3. TakenBy(s, 2) = {"buffer"}
    BY ONLY <1>t, <1>q, <2>1, <2>2
  <2>4. QED  BY ONLY <1>t, <1>q, <2>1, <2>2, <2>3
<1>7. ProbeSteps(d, s)
  <2>1. \A k \in 1 .. 2 : /\ s[k].do \in {"get", "try", "chan", "check", "zero"}
                          /\ Takes(s[k]) => s[k].what \in Resources \ AskedOf(d)
    BY <1>p, <1>2, <1>t, <1>z, <1>0, <1>3 DEF Is
  <2>2. \A i, j \in 1 .. 2 : Takes(s[i]) /\ Takes(s[j]) /\ s[i].what = s[j].what => i = j
    BY ONLY <1>t, <1>q
  <2>3. \A k \in 1 .. 2 : s[k].undo = <<>>
    BY <1>p, <1>2 DEF Is
  <2>4. \A k \in 1 .. 2 : Undoes(d, s, k)
    BY <2>3, <1>3, NoUndo
  <2>5. QED  BY <2>1, <2>2, <2>4, <1>5 DEF ProbeSteps
<1>8. RemoveSteps(d, s, r)
  BY <1>4, <1>5, <1>6 DEF RemoveSteps
<1>9. QED  BY <1>1, <1>7, <1>8 DEF ProbeShape

(* The smallest.                                                           *)
LEMMA Ex4Shape ==
  ASSUME NEW d \in {"ex4"}
  PROVE  ProbeShape(d)
<1> DEFINE a == Need("chrdev")
           s == <<a>>
           r == <<Put("chrdev")>>
<1>z. /\ "chrdev" \in Resources /\ "device" \in Resources \ {"chrdev"}
      /\ "class" \in Resources \ {"chrdev", "device"}
  BY DEF Resources
<1>0. /\ <<>> \in Seq(Named)
  BY DEF Resources
<1>2. /\ Is(a, "get", "chrdev", <<>>)
  BY <1>z, <1>0, StepIs
<1>1. ProbeOf(d) = s /\ Code[d].remove = r
  BY ProbesAre, RemoveIs DEF ProbeOf, Ex4Probe, Ex4Remove
<1>3. AskedOf(d) = {} /\ d # "xadc"
  BY Asking DEF Files, Keepers, NoFile
<1>4. Orderly(r) /\ Puts(r) = {"chrdev"}
  BY ONLY <1>z, FewPuts
<1> HIDE DEF a, r
<1>5. s \in Seq(Item) /\ Len(s) = 1
  BY <1>2 DEF Is
<1>p. s[1] = a
  OBVIOUS
<1> HIDE DEF s
<1>t. Takes(s[1])
  BY <1>p, <1>2 DEF Is, Takes
<1>q. s[1].what = "chrdev"
  BY <1>p, <1>2 DEF Is
<1>6. TakenBy(s, 2) = {"chrdev"}
  <2>1. TakenBy(s, 1) = {} /\ \A k \in 1 .. 1 : \A m : m = k + 1 =>
          TakenBy(s, m) = TakenBy(s, k) \cup (IF Takes(s[k]) THEN {s[k].what} ELSE {})
    BY TakenStep, <1>5
  <2>2. 2 = 1 + 1
    OBVIOUS
  <2>3. QED  BY ONLY <1>t, <1>q, <2>1, <2>2
<1>7. ProbeSteps(d, s)
  <2>1. \A k \in 1 .. 1 : /\ s[k].do \in {"get", "try", "chan", "check", "zero"}
                          /\ Takes(s[k]) => s[k].what \in Resources \ AskedOf(d)
    BY <1>p, <1>2, <1>t, <1>z, <1>0, <1>3 DEF Is
  <2>2. \A i, j \in 1 .. 1 : Takes(s[i]) /\ Takes(s[j]) /\ s[i].what = s[j].what => i = j
    BY ONLY <1>t, <1>q
  <2>3. \A k \in 1 .. 1 : s[k].undo = <<>>
    BY <1>p, <1>2 DEF Is
  <2>4. \A k \in 1 .. 1 : Undoes(d, s, k)
    BY <2>3, <1>3, NoUndo
  <2>5. QED  BY <2>1, <2>2, <2>4, <1>5 DEF ProbeSteps
<1>8. RemoveSteps(d, s, r)
  BY <1>4, <1>5, <1>6 DEF RemoveSteps
<1>9. QED  BY <1>1, <1>7, <1>8 DEF ProbeShape

(* A short sequence in two parts.                                          *)
LEMMA JoinThree ==
  ASSUME NEW S, NEW x \in S, NEW y \in S, NEW z \in S
  PROVE  <<x>> \o <<y, z>> = <<x, y, z>>
<1>0. <<x>> \in Seq(S) /\ <<y, z>> \in Seq(S) /\ <<x, y, z>> \in Seq(S)
  OBVIOUS
<1>1. PICK s : s = <<x>> \o <<y, z>>
  OBVIOUS
<1>2. PICK t : t = <<x, y, z>>
  OBVIOUS
<1>3. s \in Seq(S) /\ Len(s) = 3 /\ s[1] = x /\ s[2] = y /\ s[3] = z
  BY <1>1, <1>0, ConcatProperties
<1>4. t \in Seq(S) /\ Len(t) = 3 /\ t[1] = x /\ t[2] = y /\ t[3] = z
  BY <1>2, <1>0
<1>5. \A i \in 1 .. Len(s) : s[i] = t[i]
  BY ONLY <1>3, <1>4
<1>6. Len(s) = Len(t)
  BY <1>3, <1>4
<1>7. s = t
  BY <1>3, <1>4, <1>5, <1>6, SeqEqual
<1>8. QED  BY <1>1, <1>2, <1>7

(* The same for two and two.                                               *)
LEMMA JoinFour ==
  ASSUME NEW S, NEW x \in S, NEW y \in S, NEW z \in S, NEW w \in S
  PROVE  <<x, y>> \o <<z, w>> = <<x, y, z, w>>
<1>0. <<x, y>> \in Seq(S) /\ <<z, w>> \in Seq(S) /\ <<x, y, z, w>> \in Seq(S)
  OBVIOUS
<1>1. PICK s : s = <<x, y>> \o <<z, w>>
  OBVIOUS
<1>2. PICK t : t = <<x, y, z, w>>
  OBVIOUS
<1>3. s \in Seq(S) /\ Len(s) = 4 /\ s[1] = x /\ s[2] = y /\ s[3] = z /\ s[4] = w
  BY <1>1, <1>0, ConcatProperties
<1>4. t \in Seq(S) /\ Len(t) = 4 /\ t[1] = x /\ t[2] = y /\ t[3] = z /\ t[4] = w
  BY <1>2, <1>0
<1>5. \A i \in 1 .. Len(s) : s[i] = t[i]
  BY ONLY <1>3, <1>4
<1>6. Len(s) = Len(t)
  BY <1>3, <1>4
<1>7. s = t
  BY <1>3, <1>4, <1>5, <1>6, SeqEqual
<1>8. QED  BY <1>1, <1>2, <1>7


(* Those with channels.                                                    *)
LEMMA DmaProbe ==
  ASSUME NEW d \in {"ex3", "ex5"}
  PROVE  ProbeShape(d)
<1> DEFINE a == Need("chrdev")
           b == Chan("tx", <<"tx">>)
           c == Chan("rx", <<"tx", "rx">>)
           s == <<a, b, c>>
           r == <<Put("rx"), Put("tx"), Put("chrdev")>>
<1>z. /\ "rx" \in Resources /\ "tx" \in Resources \ {"rx"}
      /\ "chrdev" \in Resources \ {"rx", "tx"}
  BY DEF Resources
<1>0. /\ <<>> \in Seq(Named) /\ <<"tx">> \in Seq(Named)
      /\ <<"tx", "rx">> \in Seq(Named)
  BY DEF Resources, Named
<1>2. /\ Is(a, "get", "chrdev", <<>>) /\ Is(b, "chan", "tx", <<"tx">>)
      /\ Is(c, "chan", "rx", <<"tx", "rx">>)
  BY <1>z, <1>0, StepIs
<1>i. a \in Item /\ b \in Item /\ c \in Item
  BY <1>2 DEF Is
<1>c. <<a>> \o <<b, c>> = <<a, b, c>>
  <2>1. \A x, y, z \in Item : <<x>> \o <<y, z>> = <<x, y, z>>
    BY JoinThree
  <2>2. QED  BY ONLY <2>1, <1>i
<1>1. ProbeOf(d) = s /\ Code[d].remove = r
  BY <1>c, ProbesAre, RemoveIs DEF ProbeOf, Ex3Probe, Ex5Probe, Ex5Channels, Ex3Remove, Ex5Remove
<1>3. AskedOf(d) = {} /\ d # "xadc"
  BY Asking DEF Files, Keepers, NoFile
<1>4. Orderly(r) /\ Puts(r) = {"rx", "tx", "chrdev"}
  BY ONLY <1>z, FewPuts
<1> HIDE DEF a, b, c, r
<1>5. s \in Seq(Item) /\ Len(s) = 3
  BY <1>2 DEF Is
<1>p. s[1] = a /\ s[2] = b /\ s[3] = c
  OBVIOUS
<1> HIDE DEF s
<1>t. Takes(s[1]) /\ Takes(s[2]) /\ Takes(s[3])
  BY <1>p, <1>2 DEF Is, Takes
<1>q. s[1].what = "chrdev" /\ s[2].what = "tx" /\ s[3].what = "rx"
  BY <1>p, <1>2 DEF Is
<1>6. TakenBy(s, 4) = {"chrdev", "tx", "rx"} /\ TakenBy(s, 3) = {"chrdev", "tx"}
  <2>1. TakenBy(s, 1) = {} /\ \A k \in 1 .. 3 : \A m : m = k + 1 =>
          TakenBy(s, m) = TakenBy(s, k) \cup (IF Takes(s[k]) THEN {s[k].what} ELSE {})
    BY TakenStep, <1>5
  <2>2. 2 = 1 + 1 /\ 3 = 2 + 1 /\ 4 = 3 + 1
    OBVIOUS
  <2>3. TakenBy(s, 2) = {"chrdev"}
    BY ONLY <1>t, <1>q, <2>1, <2>2
  <2>4. TakenBy(s, 3) = {"chrdev", "tx"}
    BY ONLY <1>t, <1>q, <2>1, <2>2, <2>3
  <2>5. QED  BY ONLY <1>t, <1>q, <2>1, <2>2, <2>4
<1>7. ProbeSteps(d, s)
  <2>1. \A k \in 1 .. 3 : /\ s[k].do \in {"get", "try", "chan", "check", "zero"}
                          /\ Takes(s[k]) => s[k].what \in Resources \ AskedOf(d)
    BY <1>p, <1>2, <1>t, <1>z, <1>0, <1>3 DEF Is
  <2>2. \A i, j \in 1 .. 3 : Takes(s[i]) /\ Takes(s[j]) /\ s[i].what = s[j].what => i = j
    BY ONLY <1>t, <1>q
  <2>3. \A k \in {1} : Undoes(d, s, k)
    <3>1. \A k \in {1} : s[k].undo = <<>>
      BY <1>p, <1>2 DEF Is
    <3>2. QED  BY <3>1, <1>3, NoUndo
  <2>t. Undoes(d, s, 2)
    <3>1. s[2].undo = <<"tx">> /\ s[2].what = "tx"
      BY <1>p, <1>2 DEF Is
    <3>2. <<"tx">> \in Seq(Resources)
      BY <1>z
    <3>3. QED  BY <3>1, <3>2, <1>3 DEF Undoes
  <2>r. Undoes(d, s, 3)
    <3>1. s[3].undo = <<"tx", "rx">> /\ s[3].what = "rx" /\ "tx" \in TakenBy(s, 3)
      BY <1>p, <1>2, <1>6 DEF Is
    <3>2. <<"tx", "rx">> \in Seq(Resources)
      BY <1>z
    <3>3. QED  BY <3>1, <3>2, <1>3 DEF Undoes
  <2>4. \A k \in 1 .. 3 : Undoes(d, s, k)
    BY <2>3, <2>t, <2>r
  <2>5. QED  BY <2>1, <2>2, <2>4, <1>5 DEF ProbeSteps
<1>8. RemoveSteps(d, s, r)
  BY <1>4, <1>5, <1>6 DEF RemoveSteps
<1>9. QED  BY <1>1, <1>7, <1>8 DEF ProbeShape

(* The one that resets its counter between them.                           *)
LEMMA Ex6Shape ==
  ASSUME NEW d \in {"ex6"}
  PROVE  ProbeShape(d)
<1> DEFINE a == Need("chrdev")
           b == Zero
           c == Chan("tx", <<"tx">>)
           e == Chan("rx", <<"tx", "rx">>)
           s == <<a, b, c, e>>
           r == <<Put("rx"), Put("tx"), Put("chrdev")>>
<1>z. /\ "rx" \in Resources /\ "tx" \in Resources \ {"rx"}
      /\ "chrdev" \in Resources \ {"rx", "tx"}
  BY DEF Resources
<1>0. /\ <<>> \in Seq(Named) /\ <<"tx">> \in Seq(Named)
      /\ <<"tx", "rx">> \in Seq(Named)
  BY DEF Resources, Named
<1>2. /\ Is(a, "get", "chrdev", <<>>) /\ Is(b, "zero", "busy", <<>>)
      /\ Is(c, "chan", "tx", <<"tx">>) /\ Is(e, "chan", "rx", <<"tx", "rx">>)
  BY <1>z, <1>0, StepIs
<1>i. a \in Item /\ b \in Item /\ c \in Item /\ e \in Item
  BY <1>2 DEF Is
<1>c. <<a, b>> \o <<c, e>> = <<a, b, c, e>>
  <2>1. \A x, y, z, w \in Item : <<x, y>> \o <<z, w>> = <<x, y, z, w>>
    BY JoinFour
  <2>2. QED  BY ONLY <2>1, <1>i
<1>1. ProbeOf(d) = s /\ Code[d].remove = r
  BY <1>c, ProbesAre, RemoveIs DEF ProbeOf, Ex6Probe, Ex6Channels, Ex6Remove
<1>3. AskedOf(d) = {} /\ d # "xadc"
  BY Asking DEF Files, Keepers, NoFile
<1>4. Orderly(r) /\ Puts(r) = {"rx", "tx", "chrdev"}
  BY ONLY <1>z, FewPuts
<1> HIDE DEF a, b, c, e, r
<1>5. s \in Seq(Item) /\ Len(s) = 4
  BY <1>2 DEF Is
<1>p. s[1] = a /\ s[2] = b /\ s[3] = c /\ s[4] = e
  OBVIOUS
<1> HIDE DEF s
<1>t. Takes(s[1]) /\ ~Takes(s[2]) /\ Takes(s[3]) /\ Takes(s[4])
  BY <1>p, <1>2 DEF Is, Takes
<1>q. s[1].what = "chrdev" /\ s[2].what = "busy" /\ s[3].what = "tx" /\ s[4].what = "rx"
  BY <1>p, <1>2 DEF Is
<1>6. TakenBy(s, 5) = {"chrdev", "tx", "rx"} /\ TakenBy(s, 4) = {"chrdev", "tx"}
  <2>1. TakenBy(s, 1) = {} /\ \A k \in 1 .. 4 : \A m : m = k + 1 =>
          TakenBy(s, m) = TakenBy(s, k) \cup (IF Takes(s[k]) THEN {s[k].what} ELSE {})
    BY TakenStep, <1>5
  <2>2. 2 = 1 + 1 /\ 3 = 2 + 1 /\ 4 = 3 + 1 /\ 5 = 4 + 1
    OBVIOUS
  <2>3. TakenBy(s, 2) = {"chrdev"}
    BY ONLY <1>t, <1>q, <2>1, <2>2
  <2>4. TakenBy(s, 3) = {"chrdev"}
    BY ONLY <1>t, <1>q, <2>1, <2>2, <2>3
  <2>5. TakenBy(s, 4) = {"chrdev", "tx"}
    BY ONLY <1>t, <1>q, <2>1, <2>2, <2>4
  <2>6. QED  BY ONLY <1>t, <1>q, <2>1, <2>2, <2>5
<1>7. ProbeSteps(d, s)
  <2>1. \A k \in 1 .. 4 : /\ s[k].do \in {"get", "try", "chan", "check", "zero"}
                          /\ Takes(s[k]) => s[k].what \in Resources \ AskedOf(d)
    BY <1>p, <1>2, <1>t, <1>z, <1>0, <1>3 DEF Is
  <2>2. \A i, j \in 1 .. 4 : Takes(s[i]) /\ Takes(s[j]) /\ s[i].what = s[j].what => i = j
    BY ONLY <1>t, <1>q
  <2>3. \A k \in {1, 2} : Undoes(d, s, k)
    <3>1. \A k \in {1, 2} : s[k].undo = <<>>
      BY <1>p, <1>2 DEF Is
    <3>2. QED  BY <3>1, <1>3, NoUndo
  <2>t. Undoes(d, s, 3)
    <3>1. s[3].undo = <<"tx">> /\ s[3].what = "tx"
      BY <1>p, <1>2 DEF Is
    <3>2. <<"tx">> \in Seq(Resources)
      BY <1>z
    <3>3. QED  BY <3>1, <3>2, <1>3 DEF Undoes
  <2>r. Undoes(d, s, 4)
    <3>1. s[4].undo = <<"tx", "rx">> /\ s[4].what = "rx" /\ "tx" \in TakenBy(s, 4)
      BY <1>p, <1>2, <1>6 DEF Is
    <3>2. <<"tx", "rx">> \in Seq(Resources)
      BY <1>z
    <3>3. QED  BY <3>1, <3>2, <1>3 DEF Undoes
  <2>4. \A k \in 1 .. 4 : Undoes(d, s, k)
    BY <2>3, <2>t, <2>r
  <2>5. QED  BY <2>1, <2>2, <2>4, <1>5 DEF ProbeSteps
<1>8. RemoveSteps(d, s, r)
  BY <1>4, <1>5, <1>6 DEF RemoveSteps
<1>9. QED  BY <1>1, <1>7, <1>8 DEF ProbeShape

(* The one without a file.                                                 *)
LEMMA Ex1Shape ==
  ASSUME NEW d \in {"ex1"}
  PROVE  ProbeShape(d)
<1> DEFINE a == Need("tx")
           b == Chan("rx", <<"tx", "ok">>)
           s == <<a, b>>
           r == <<Put("tx"), Put("rx")>>
<1>z. /\ "tx" \in Resources /\ "rx" \in Resources \ {"tx"}
      /\ "class" \in Resources \ {"tx", "rx"}
  BY DEF Resources
<1>0. /\ <<>> \in Seq(Named) /\ <<"tx", "ok">> \in Seq(Named)
  BY DEF Resources, Named
<1>2. /\ Is(a, "get", "tx", <<>>) /\ Is(b, "chan", "rx", <<"tx", "ok">>)
  BY <1>z, <1>0, StepIs
<1>1. ProbeOf(d) = s /\ Code[d].remove = r
  BY ProbeIs, RemoveIs DEF ProbeOf, Ex1Probe, Ex1Remove
<1>3. AskedOf(d) = {} /\ d # "xadc"
  BY Asking DEF Files, Keepers, NoFile
<1>4. Orderly(r) /\ Puts(r) = {"tx", "rx"}
  BY ONLY <1>z, FewPuts
<1> HIDE DEF a, b, r
<1>5. s \in Seq(Item) /\ Len(s) = 2
  BY <1>2 DEF Is
<1>p. s[1] = a /\ s[2] = b
  OBVIOUS
<1> HIDE DEF s
<1>t. Takes(s[1]) /\ Takes(s[2])
  BY <1>p, <1>2 DEF Is, Takes
<1>q. s[1].what = "tx" /\ s[2].what = "rx"
  BY <1>p, <1>2 DEF Is
<1>6. TakenBy(s, 3) = {"tx", "rx"} /\ TakenBy(s, 2) = {"tx"}
  <2>1. TakenBy(s, 1) = {} /\ \A k \in 1 .. 2 : \A m : m = k + 1 =>
          TakenBy(s, m) = TakenBy(s, k) \cup (IF Takes(s[k]) THEN {s[k].what} ELSE {})
    BY TakenStep, <1>5
  <2>2. 2 = 1 + 1 /\ 3 = 2 + 1
    OBVIOUS
  <2>3. TakenBy(s, 2) = {"tx"}
    BY ONLY <1>t, <1>q, <2>1, <2>2
  <2>4. QED  BY ONLY <1>t, <1>q, <2>1, <2>2, <2>3
<1>7. ProbeSteps(d, s)
  <2>1. \A k \in 1 .. 2 : /\ s[k].do \in {"get", "try", "chan", "check", "zero"}
                          /\ Takes(s[k]) => s[k].what \in Resources \ AskedOf(d)
    BY <1>p, <1>2, <1>t, <1>z, <1>0, <1>3 DEF Is
  <2>2. \A i, j \in 1 .. 2 : Takes(s[i]) /\ Takes(s[j]) /\ s[i].what = s[j].what => i = j
    BY ONLY <1>t, <1>q
  <2>3. Undoes(d, s, 1)
    <3>1. s[1].undo = <<>>
      BY <1>p, <1>2 DEF Is
    <3>2. QED  BY <3>1, <1>3, NoUndo
  <2>r. Undoes(d, s, 2)
    <3>1. s[2].undo = <<"tx", "ok">> /\ s[2].what = "rx" /\ "tx" \in TakenBy(s, 2)
      BY <1>p, <1>2, <1>6 DEF Is
    <3>2. QED  BY <3>1 DEF Undoes
  <2>4. \A k \in 1 .. 2 : Undoes(d, s, k)
    BY <2>3, <2>r
  <2>5. QED  BY <2>1, <2>2, <2>4, <1>5 DEF ProbeSteps
<1>8. RemoveSteps(d, s, r)
  BY <1>4, <1>5, <1>6 DEF RemoveSteps
<1>9. QED  BY <1>1, <1>7, <1>8 DEF ProbeShape

(* An undo label of the XADC gives back the end of its list.               *)
LEMMA XadcUndo ==
  ASSUME NEW k \in 1 .. 6
  PROVE  LET u == XadcFrom(k)
             all == <<"irq", "sample trigger", "convst trigger", "event buffer", "clk", "channels">>
         IN  /\ u \in Seq(Resources) /\ \A i, j \in 1 .. Len(u) : u[i] = u[j] => i = j
             /\ {u[i] : i \in 1 .. Len(u)} = {all[j] : j \in k .. 6}
<1> DEFINE all == <<"irq", "sample trigger", "convst trigger", "event buffer", "clk", "channels">>
           u == XadcFrom(k)
<1>a. /\ all[1] = "irq" /\ all[2] = "sample trigger" /\ all[3] = "convst trigger"
      /\ all[4] = "event buffer" /\ all[5] = "clk" /\ all[6] = "channels"
  OBVIOUS
<1>n. 1 .. 6 = {1, 2, 3, 4, 5, 6}
  OBVIOUS
<1>u. u = SubSeq(all, k, 6)
  BY DEF XadcFrom
<1> HIDE DEF all, u
<1>0. \A j \in 1 .. 6 : all[j] \in Resources
  BY ONLY <1>a, <1>n DEF Resources
<1>d. \A i, j \in 1 .. 6 : all[i] = all[j] => i = j
  <2> DEFINE N(w) == IF w = "irq" THEN 1 ELSE IF w = "sample trigger" THEN 2
                     ELSE IF w = "convst trigger" THEN 3 ELSE IF w = "event buffer" THEN 4
                     ELSE IF w = "clk" THEN 5 ELSE 6
  <2>1. \A x \in 1 .. 6 : N(all[x]) = x
    BY ONLY <1>a, <1>n
  <2> HIDE DEF N
  <2>2. QED  BY <2>1
<1>1. /\ u \in Seq(Resources) /\ Len(u) = 6 - k + 1
      /\ \A i \in 1 .. 6 - k + 1 : u[i] = all[k + i - 1]
  <2>1. \A i \in k .. 6 : all[i] \in Resources
    BY <1>0
  <2>2. k \in Int /\ 6 \in Int /\ k <= 6
    OBVIOUS
  <2>3. QED  BY <2>1, <2>2, <1>u, SubSeqProperties
<1>2. \A i \in 1 .. Len(u) : k + i - 1 \in k .. 6
  BY <1>1
<1>3. \A i, j \in 1 .. Len(u) : u[i] = u[j] => i = j
  <2>1. \A i \in 1 .. Len(u) : u[i] = all[k + i - 1] /\ k + i - 1 \in 1 .. 6
    BY <1>1
  <2>2. \A i, j \in 1 .. Len(u) : u[i] = u[j] => k + i - 1 = k + j - 1
    BY <2>1, <1>d
  <2>3. Len(u) \in Int
    BY <1>1
  <2>4. QED  BY <2>2, <2>3
<1>4. \A j \in k .. 6 : j - k + 1 \in 1 .. Len(u) /\ u[j - k + 1] = all[j]
  BY <1>1
<1>5. {u[i] : i \in 1 .. Len(u)} = {all[j] : j \in k .. 6}
  <2>1. \A i \in 1 .. Len(u) : u[i] \in {all[j] : j \in k .. 6}
    BY <1>1, <1>2
  <2>2. \A j \in k .. 6 : all[j] \in {u[i] : i \in 1 .. Len(u)}
    BY <1>4
  <2>3. QED  BY <2>1, <2>2
<1>6. QED  BY <1>1, <1>3, <1>5 DEF u, all

(* So the sets its labels give back are these.                             *)
LEMMA XadcGives ==
  LET G(k) == {XadcFrom(k)[i] : i \in 1 .. Len(XadcFrom(k))}
  IN  /\ G(1) = {"irq"} \cup G(2) /\ G(2) = Triggers \cup G(5)
      /\ G(3) = {"convst trigger", "event buffer"} \cup G(5) /\ G(4) = {"event buffer"} \cup G(5)
      /\ G(5) = {"clk", "channels"} /\ G(6) = {"channels"}
<1> DEFINE all == <<"irq", "sample trigger", "convst trigger", "event buffer", "clk", "channels">>
           S(k) == {all[j] : j \in k .. 6}
<1>1. \A k \in 1 .. 6 : {XadcFrom(k)[i] : i \in 1 .. Len(XadcFrom(k))} = S(k)
  BY XadcUndo
<1>a. /\ all[1] = "irq" /\ all[2] = "sample trigger" /\ all[3] = "convst trigger"
      /\ all[4] = "event buffer" /\ all[5] = "clk" /\ all[6] = "channels"
  OBVIOUS
<1>b. /\ 1 .. 6 = {1} \cup (2 .. 6) /\ 2 .. 6 = {2, 3, 4} \cup (5 .. 6) /\ 3 .. 6 = {3, 4} \cup (5 .. 6)
      /\ 4 .. 6 = {4} \cup (5 .. 6) /\ 5 .. 6 = {5, 6} /\ 6 .. 6 = {6}
  OBVIOUS
<1> HIDE DEF all
<1>2. /\ S(1) = {"irq"} \cup S(2) /\ S(2) = Triggers \cup S(5)
      /\ S(3) = {"convst trigger", "event buffer"} \cup S(5) /\ S(4) = {"event buffer"} \cup S(5)
      /\ S(5) = {"clk", "channels"} /\ S(6) = {"channels"}
  <2>1. S(1) = {all[1]} \cup S(2) /\ S(2) = {all[2], all[3], all[4]} \cup S(5)
    BY ONLY <1>b
  <2>2. S(3) = {all[3], all[4]} \cup S(5) /\ S(4) = {all[4]} \cup S(5)
    BY ONLY <1>b
  <2>3. S(5) = {all[5], all[6]} /\ S(6) = {all[6]}
    BY ONLY <1>b
  <2> HIDE DEF S
  <2>4. QED  BY ONLY <2>1, <2>2, <2>3, <1>a DEF Triggers
<1>3. 1 \in 1 .. 6 /\ 2 \in 1 .. 6 /\ 3 \in 1 .. 6 /\ 4 \in 1 .. 6 /\ 5 \in 1 .. 6 /\ 6 \in 1 .. 6
  OBVIOUS
<1> HIDE DEF S
<1>4. QED  BY <1>1, <1>2, <1>3

(* What the XADC's removal gives back.                                     *)
LEMMA XadcRemoval ==
  /\ Orderly(XadcRemove)
  /\ Puts(XadcRemove) = Triggers \cup {"iio", "irq", "clk", "channels"}
<1> DEFINE a == Put("iio")
           b == Put("sample trigger")
           c == Put("convst trigger")
           e == Put("event buffer")
           f == Put("irq")
           g == Put("clk")
           h == Put("channels")
           s == <<a, b, c, e, f, g, h>>
<1>1. /\ Is(a, "put", "iio", <<>>) /\ Is(b, "put", "sample trigger", <<>>)
      /\ Is(c, "put", "convst trigger", <<>>) /\ Is(e, "put", "event buffer", <<>>)
      /\ Is(f, "put", "irq", <<>>) /\ Is(g, "put", "clk", <<>>) /\ Is(h, "put", "channels", <<>>)
  <2>1. \A r \in Resources : Is(Put(r), "put", r, <<>>)
    BY StepIs, <<>> \in Seq(Named)
  <2>2. QED  BY <2>1 DEF Resources
<1>2. XadcRemove = s
  BY DEF XadcRemove
<1> HIDE DEF a, b, c, e, f, g, h
<1>i. /\ a \in Item /\ b \in Item /\ c \in Item /\ e \in Item /\ f \in Item /\ g \in Item
      /\ h \in Item
  BY <1>1 DEF Is
<1>3. s \in Seq(Item) /\ Len(s) = 7
  BY ONLY <1>i
<1>p. s[1] = a /\ s[2] = b /\ s[3] = c /\ s[4] = e /\ s[5] = f /\ s[6] = g /\ s[7] = h
  OBVIOUS
<1> HIDE DEF s
<1>n. 1 .. 7 = {1, 2, 3, 4, 5, 6, 7}
  OBVIOUS
<1>4. \A i \in 1 .. 7 : s[i].do = "put"
  <2>1. s[1].do = "put" /\ s[2].do = "put" /\ s[3].do = "put" /\ s[4].do = "put"
    BY ONLY <1>1, <1>p DEF Is
  <2>2. s[5].do = "put" /\ s[6].do = "put" /\ s[7].do = "put"
    BY ONLY <1>1, <1>p DEF Is
  <2>3. QED  BY ONLY <2>1, <2>2, <1>n
<1>5. /\ s[1].what = "iio" /\ s[2].what = "sample trigger" /\ s[3].what = "convst trigger"
      /\ s[4].what = "event buffer" /\ s[5].what = "irq" /\ s[6].what = "clk" /\ s[7].what = "channels"
  BY ONLY <1>1, <1>p DEF Is
<1>6. \A i \in 1 .. 7 : s[i].what \in Resources
  BY ONLY <1>5, <1>n DEF Resources
<1>7. ASSUME NEW i \in 1 .. 7, NEW j \in 1 .. 7, s[i].what = s[j].what
      PROVE  i = j
  <2> DEFINE N(w) == IF w = "iio" THEN 1 ELSE IF w = "sample trigger" THEN 2
                     ELSE IF w = "convst trigger" THEN 3 ELSE IF w = "event buffer" THEN 4
                     ELSE IF w = "irq" THEN 5 ELSE IF w = "clk" THEN 6 ELSE 7
  <2>1. \A x \in 1 .. 7 : N(s[x].what) = x
    BY ONLY <1>5, <1>n
  <2> HIDE DEF N
  <2>2. QED  BY <2>1, <1>7
<1>8. Puts(s) = Triggers \cup {"iio", "irq", "clk", "channels"}
  <2>1. Puts(s) = {s[i].what : i \in {1, 2, 3, 4, 5, 6, 7}}
    BY <1>3, <1>n DEF Puts
  <2>2. Puts(s) = {s[1].what, s[2].what, s[3].what, s[4].what, s[5].what, s[6].what, s[7].what}
    BY ONLY <2>1
  <2>3. QED  BY ONLY <2>2, <1>5 DEF Triggers
<1>9. QED  BY <1>2, <1>3, <1>4, <1>6, <1>7, <1>8 DEF Orderly

(* The probe of the XADC.                                                  *)
LEMMA XadcShape == ProbeShape("xadc")
<1> DEFINE a == Get("channels", XadcFrom(6))
           b == Get("event buffer", XadcFrom(6))
           c == Get("convst trigger", XadcFrom(4))
           e == Get("sample trigger", XadcFrom(3))
           f == Get("clk", XadcFrom(2))
           g == Check(XadcFrom(2))
           h == Get("irq", XadcFrom(5))
           i == Check(XadcFrom(1))
           j == Get("iio", XadcFrom(1))
           s == <<a, b, c, e, f, g, h, i, j>>
<1>1. ProbeOf("xadc") = s /\ Code["xadc"].remove = XadcRemove
  BY ProbeIs, RemoveIs DEF ProbeOf, XadcProbe
<1>0. /\ "channels" \in Resources /\ "event buffer" \in Resources /\ "convst trigger" \in Resources
      /\ "sample trigger" \in Resources /\ "clk" \in Resources /\ "irq" \in Resources
      /\ "iio" \in Resources
  BY DEF Resources
<1>u. /\ XadcFrom(1) \in Seq(Named) /\ XadcFrom(2) \in Seq(Named) /\ XadcFrom(3) \in Seq(Named)
      /\ XadcFrom(4) \in Seq(Named) /\ XadcFrom(5) \in Seq(Named) /\ XadcFrom(6) \in Seq(Named)
  BY XadcFromIs
<1>2. /\ Is(a, "get", "channels", XadcFrom(6))
      /\ Is(b, "get", "event buffer", XadcFrom(6))
      /\ Is(c, "get", "convst trigger", XadcFrom(4))
      /\ Is(e, "get", "sample trigger", XadcFrom(3))
      /\ Is(f, "get", "clk", XadcFrom(2))
      /\ Is(g, "check", "mem", XadcFrom(2))
      /\ Is(h, "get", "irq", XadcFrom(5))
      /\ Is(i, "check", "mem", XadcFrom(1))
      /\ Is(j, "get", "iio", XadcFrom(1))
  <2>1. \A r \in Resources : \A x \in Seq(Named) : Is(Get(r, x), "get", r, x) /\ Is(Check(x), "check", "mem", x)
    BY StepIs
  <2>2. QED  BY ONLY <2>1, <1>0, <1>u
<1>3. AskedOf("xadc") = {}
  BY AskedIs
<1> HIDE DEF a, b, c, e, f, g, h, i, j
<1>i. /\ a \in Item /\ b \in Item /\ c \in Item /\ e \in Item /\ f \in Item /\ g \in Item
      /\ h \in Item /\ i \in Item /\ j \in Item
  BY <1>2 DEF Is
<1>5. s \in Seq(Item) /\ Len(s) = 9
  BY ONLY <1>i
<1>p. s[1] = a /\ s[2] = b /\ s[3] = c /\ s[4] = e /\ s[5] = f /\ s[6] = g /\ s[7] = h /\ s[8] = i /\ s[9] = j
  OBVIOUS
<1> HIDE DEF s
<1>t. /\ Takes(s[1]) /\ s[1].do = "get"
      /\ Takes(s[2]) /\ s[2].do = "get"
      /\ Takes(s[3]) /\ s[3].do = "get"
      /\ Takes(s[4]) /\ s[4].do = "get"
      /\ Takes(s[5]) /\ s[5].do = "get"
      /\ ~Takes(s[6]) /\ s[6].do = "check"
      /\ Takes(s[7]) /\ s[7].do = "get"
      /\ ~Takes(s[8]) /\ s[8].do = "check"
      /\ Takes(s[9]) /\ s[9].do = "get"
  <2>1. /\ Takes(s[1]) /\ s[1].do = "get"
        /\ Takes(s[2]) /\ s[2].do = "get"
        /\ Takes(s[3]) /\ s[3].do = "get"
    BY ONLY <1>p, <1>2 DEF Is, Takes
  <2>2. /\ Takes(s[4]) /\ s[4].do = "get"
        /\ Takes(s[5]) /\ s[5].do = "get"
        /\ ~Takes(s[6]) /\ s[6].do = "check"
    BY ONLY <1>p, <1>2 DEF Is, Takes
  <2>3. /\ Takes(s[7]) /\ s[7].do = "get"
        /\ ~Takes(s[8]) /\ s[8].do = "check"
        /\ Takes(s[9]) /\ s[9].do = "get"
    BY ONLY <1>p, <1>2 DEF Is, Takes
  <2>4. QED  BY ONLY <2>1, <2>2, <2>3
<1>q. /\ s[1].what = "channels" /\ s[1].undo = XadcFrom(6)
      /\ s[2].what = "event buffer" /\ s[2].undo = XadcFrom(6)
      /\ s[3].what = "convst trigger" /\ s[3].undo = XadcFrom(4)
      /\ s[4].what = "sample trigger" /\ s[4].undo = XadcFrom(3)
      /\ s[5].what = "clk" /\ s[5].undo = XadcFrom(2)
      /\ s[6].what = "mem" /\ s[6].undo = XadcFrom(2)
      /\ s[7].what = "irq" /\ s[7].undo = XadcFrom(5)
      /\ s[8].what = "mem" /\ s[8].undo = XadcFrom(1)
      /\ s[9].what = "iio" /\ s[9].undo = XadcFrom(1)
  <2>1. /\ s[1].what = "channels" /\ s[1].undo = XadcFrom(6)
        /\ s[2].what = "event buffer" /\ s[2].undo = XadcFrom(6)
        /\ s[3].what = "convst trigger" /\ s[3].undo = XadcFrom(4)
    BY ONLY <1>p, <1>2 DEF Is
  <2>2. /\ s[4].what = "sample trigger" /\ s[4].undo = XadcFrom(3)
        /\ s[5].what = "clk" /\ s[5].undo = XadcFrom(2)
        /\ s[6].what = "mem" /\ s[6].undo = XadcFrom(2)
    BY ONLY <1>p, <1>2 DEF Is
  <2>3. /\ s[7].what = "irq" /\ s[7].undo = XadcFrom(5)
        /\ s[8].what = "mem" /\ s[8].undo = XadcFrom(1)
        /\ s[9].what = "iio" /\ s[9].undo = XadcFrom(1)
    <3>1. /\ s[7].what = "irq" /\ s[7].undo = XadcFrom(5) /\ s[8].what = "mem"
          /\ s[8].undo = XadcFrom(1)
      BY ONLY <1>p, <1>2 DEF Is
    <3>2. s[9].what = "iio" /\ s[9].undo = XadcFrom(1)
      BY ONLY <1>p, <1>2 DEF Is
    <3>3. QED  BY ONLY <3>1, <3>2
  <2>4. QED  BY ONLY <2>1, <2>2, <2>3
<1>6. /\ TakenBy(s, 1) = {}
      /\ TakenBy(s, 2) = {"channels"}
      /\ TakenBy(s, 3) = {"channels", "event buffer"}
      /\ TakenBy(s, 4) = {"channels", "event buffer", "convst trigger"}
      /\ TakenBy(s, 5) = {"channels", "event buffer", "convst trigger", "sample trigger"}
      /\ TakenBy(s, 6) = {"channels", "event buffer", "convst trigger", "sample trigger", "clk"}
      /\ TakenBy(s, 7) = {"channels", "event buffer", "convst trigger", "sample trigger", "clk"}
      /\ TakenBy(s, 8) = {"channels", "event buffer", "convst trigger", "sample trigger", "clk", "irq"}
      /\ TakenBy(s, 9) = {"channels", "event buffer", "convst trigger", "sample trigger", "clk", "irq"}
      /\ TakenBy(s, 10) = {"channels", "event buffer", "convst trigger", "sample trigger", "clk", "irq", "iio"}
  <2>1. TakenBy(s, 1) = {} /\ \A k \in 1 .. 9 : \A m : m = k + 1 =>
          TakenBy(s, m) = TakenBy(s, k) \cup (IF Takes(s[k]) THEN {s[k].what} ELSE {})
    BY TakenStep, <1>5
  <2>2. TakenBy(s, 2) = {"channels"}
    <3>1. 1 \in 1 .. 9 /\ 2 = 1 + 1
      OBVIOUS
    <3>2. TakenBy(s, 2) = TakenBy(s, 1) \cup (IF Takes(s[1]) THEN {s[1].what} ELSE {})
      BY ONLY <3>1, <2>1
    <3>3. QED  BY ONLY <3>2, <1>t, <1>q, <2>1
  <2>3. TakenBy(s, 3) = {"channels", "event buffer"}
    <3>1. 2 \in 1 .. 9 /\ 3 = 2 + 1
      OBVIOUS
    <3>2. TakenBy(s, 3) = TakenBy(s, 2) \cup (IF Takes(s[2]) THEN {s[2].what} ELSE {})
      BY ONLY <3>1, <2>1
    <3>3. QED  BY ONLY <3>2, <1>t, <1>q, <2>2
  <2>4. TakenBy(s, 4) = {"channels", "event buffer", "convst trigger"}
    <3>1. 3 \in 1 .. 9 /\ 4 = 3 + 1
      OBVIOUS
    <3>2. TakenBy(s, 4) = TakenBy(s, 3) \cup (IF Takes(s[3]) THEN {s[3].what} ELSE {})
      BY ONLY <3>1, <2>1
    <3>3. QED  BY ONLY <3>2, <1>t, <1>q, <2>3
  <2>5. TakenBy(s, 5) = {"channels", "event buffer", "convst trigger", "sample trigger"}
    <3>1. 4 \in 1 .. 9 /\ 5 = 4 + 1
      OBVIOUS
    <3>2. TakenBy(s, 5) = TakenBy(s, 4) \cup (IF Takes(s[4]) THEN {s[4].what} ELSE {})
      BY ONLY <3>1, <2>1
    <3>3. QED  BY ONLY <3>2, <1>t, <1>q, <2>4
  <2>6. TakenBy(s, 6) = {"channels", "event buffer", "convst trigger", "sample trigger", "clk"}
    <3>1. 5 \in 1 .. 9 /\ 6 = 5 + 1
      OBVIOUS
    <3>2. TakenBy(s, 6) = TakenBy(s, 5) \cup (IF Takes(s[5]) THEN {s[5].what} ELSE {})
      BY ONLY <3>1, <2>1
    <3>3. QED  BY ONLY <3>2, <1>t, <1>q, <2>5
  <2>7. TakenBy(s, 7) = {"channels", "event buffer", "convst trigger", "sample trigger", "clk"}
    <3>1. 6 \in 1 .. 9 /\ 7 = 6 + 1
      OBVIOUS
    <3>2. TakenBy(s, 7) = TakenBy(s, 6) \cup (IF Takes(s[6]) THEN {s[6].what} ELSE {})
      BY ONLY <3>1, <2>1
    <3>3. QED  BY ONLY <3>2, <1>t, <1>q, <2>6
  <2>8. TakenBy(s, 8) = {"channels", "event buffer", "convst trigger", "sample trigger", "clk", "irq"}
    <3>1. 7 \in 1 .. 9 /\ 8 = 7 + 1
      OBVIOUS
    <3>2. TakenBy(s, 8) = TakenBy(s, 7) \cup (IF Takes(s[7]) THEN {s[7].what} ELSE {})
      BY ONLY <3>1, <2>1
    <3>3. QED  BY ONLY <3>2, <1>t, <1>q, <2>7
  <2>9. TakenBy(s, 9) = {"channels", "event buffer", "convst trigger", "sample trigger", "clk", "irq"}
    <3>1. 8 \in 1 .. 9 /\ 9 = 8 + 1
      OBVIOUS
    <3>2. TakenBy(s, 9) = TakenBy(s, 8) \cup (IF Takes(s[8]) THEN {s[8].what} ELSE {})
      BY ONLY <3>1, <2>1
    <3>3. QED  BY ONLY <3>2, <1>t, <1>q, <2>8
  <2>10. TakenBy(s, 10) = {"channels", "event buffer", "convst trigger", "sample trigger", "clk", "irq", "iio"}
    <3>1. 9 \in 1 .. 9 /\ 10 = 9 + 1
      OBVIOUS
    <3>2. TakenBy(s, 10) = TakenBy(s, 9) \cup (IF Takes(s[9]) THEN {s[9].what} ELSE {})
      BY ONLY <3>1, <2>1
    <3>3. QED  BY ONLY <3>2, <1>t, <1>q, <2>9
  <2>11. QED  BY <2>1, <2>2, <2>3, <2>4, <2>5, <2>6, <2>7, <2>8, <2>9, <2>10
<1>n. 1 .. 9 = {1, 2, 3, 4, 5, 6, 7, 8, 9}
  OBVIOUS
<1>7. \A k \in 1 .. 9 : /\ s[k].do \in {"get", "check"} /\ (Takes(s[k]) => s[k].what \in Resources)
  <2>1. \A k \in 1 .. 9 : s[k].do \in {"get", "check"}
    BY ONLY <1>t, <1>n
  <2>2. \A k \in {1, 2, 3, 4, 5, 7, 9} : s[k].what \in Resources
    BY ONLY <1>q, <1>0
  <2>3. \A k \in 1 .. 9 : Takes(s[k]) => k \in {1, 2, 3, 4, 5, 7, 9}
    BY ONLY <1>t, <1>n
  <2>4. QED  BY <2>1, <2>2, <2>3
<1>8. ASSUME NEW m \in 1 .. 9, NEW n \in 1 .. 9, Takes(s[m]), Takes(s[n]), s[m].what = s[n].what
      PROVE  m = n
  <2>1. \A x \in 1 .. 9 : Takes(s[x]) => x \in {1, 2, 3, 4, 5, 7, 9}
    BY ONLY <1>t, <1>n
  <2>2. m \in {1, 2, 3, 4, 5, 7, 9} /\ n \in {1, 2, 3, 4, 5, 7, 9}
    BY <2>1, <1>8
  <2> DEFINE N(w) == IF w = "channels" THEN 1 ELSE IF w = "event buffer" THEN 2
                     ELSE IF w = "convst trigger" THEN 3 ELSE IF w = "sample trigger" THEN 4
                     ELSE IF w = "clk" THEN 5 ELSE IF w = "irq" THEN 7 ELSE 9
  <2>3. \A x \in {1, 2, 3, 4, 5, 7, 9} : N(s[x].what) = x
    BY ONLY <1>q
  <2> HIDE DEF N
  <2>4. QED  BY <2>2, <2>3, <1>8
<1> DEFINE G(k) == {XadcFrom(k)[x] : x \in 1 .. Len(XadcFrom(k))}
<1>g. /\ G(1) = {"irq"} \cup G(2) /\ G(2) = Triggers \cup G(5)
      /\ G(3) = {"convst trigger", "event buffer"} \cup G(5) /\ G(4) = {"event buffer"} \cup G(5)
      /\ G(5) = {"clk", "channels"} /\ G(6) = {"channels"}
  BY XadcGives
<1>9. ASSUME NEW k \in 1 .. 9, NEW l \in 1 .. 6, s[k].undo = XadcFrom(l),
             G(l) \subseteq TakenBy(s, k) \cup {s[k].what} \cup {"clk"},
             TakenBy(s, k) \subseteq G(l) \cup (IF s[k].what = "irq" THEN Triggers ELSE {})
      PROVE  Undoes("xadc", s, k)
  <2>1. LET u == XadcFrom(l) IN u \in Seq(Resources) /\ \A x, y \in 1 .. Len(u) : u[x] = u[y] => x = y
    BY XadcUndo
  <2>2. {s[k].undo[x] : x \in 1 .. Len(s[k].undo)} = G(l)
    BY <1>9
  <2> HIDE DEF G
  <2>3. QED  BY ONLY <2>1, <2>2, <1>9, <1>3 DEF Undoes
<1> HIDE DEF G
<1>10. Undoes("xadc", s, 1)
  <2>1. G(6) \subseteq TakenBy(s, 1) \cup {s[1].what} \cup {"clk"}
    BY ONLY <1>6, <1>q, <1>g DEF Triggers
  <2>2. TakenBy(s, 1) \subseteq G(6) \cup (IF s[1].what = "irq" THEN Triggers ELSE {})
    BY ONLY <1>6, <1>q, <1>g DEF Triggers
  <2>3. 1 \in 1 .. 9 /\ 6 \in 1 .. 6
    OBVIOUS
  <2>4. s[1].undo = XadcFrom(6)
    BY ONLY <1>q
  <2>5. QED  BY <2>1, <2>2, <2>3, <2>4, <1>9
<1>11. Undoes("xadc", s, 2)
  <2>1. G(6) \subseteq TakenBy(s, 2) \cup {s[2].what} \cup {"clk"}
    BY ONLY <1>6, <1>q, <1>g DEF Triggers
  <2>2. TakenBy(s, 2) \subseteq G(6) \cup (IF s[2].what = "irq" THEN Triggers ELSE {})
    BY ONLY <1>6, <1>q, <1>g DEF Triggers
  <2>3. 2 \in 1 .. 9 /\ 6 \in 1 .. 6
    OBVIOUS
  <2>4. s[2].undo = XadcFrom(6)
    BY ONLY <1>q
  <2>5. QED  BY <2>1, <2>2, <2>3, <2>4, <1>9
<1>12. Undoes("xadc", s, 3)
  <2>1. G(4) \subseteq TakenBy(s, 3) \cup {s[3].what} \cup {"clk"}
    BY ONLY <1>6, <1>q, <1>g DEF Triggers
  <2>2. TakenBy(s, 3) \subseteq G(4) \cup (IF s[3].what = "irq" THEN Triggers ELSE {})
    BY ONLY <1>6, <1>q, <1>g DEF Triggers
  <2>3. 3 \in 1 .. 9 /\ 4 \in 1 .. 6
    OBVIOUS
  <2>4. s[3].undo = XadcFrom(4)
    BY ONLY <1>q
  <2>5. QED  BY <2>1, <2>2, <2>3, <2>4, <1>9
<1>13. Undoes("xadc", s, 4)
  <2>1. G(3) \subseteq TakenBy(s, 4) \cup {s[4].what} \cup {"clk"}
    BY ONLY <1>6, <1>q, <1>g DEF Triggers
  <2>2. TakenBy(s, 4) \subseteq G(3) \cup (IF s[4].what = "irq" THEN Triggers ELSE {})
    BY ONLY <1>6, <1>q, <1>g DEF Triggers
  <2>3. 4 \in 1 .. 9 /\ 3 \in 1 .. 6
    OBVIOUS
  <2>4. s[4].undo = XadcFrom(3)
    BY ONLY <1>q
  <2>5. QED  BY <2>1, <2>2, <2>3, <2>4, <1>9
<1>14. Undoes("xadc", s, 5)
  <2>1. G(2) \subseteq TakenBy(s, 5) \cup {s[5].what} \cup {"clk"}
    BY ONLY <1>6, <1>q, <1>g DEF Triggers
  <2>2. TakenBy(s, 5) \subseteq G(2) \cup (IF s[5].what = "irq" THEN Triggers ELSE {})
    BY ONLY <1>6, <1>q, <1>g DEF Triggers
  <2>3. 5 \in 1 .. 9 /\ 2 \in 1 .. 6
    OBVIOUS
  <2>4. s[5].undo = XadcFrom(2)
    BY ONLY <1>q
  <2>5. QED  BY <2>1, <2>2, <2>3, <2>4, <1>9
<1>15. Undoes("xadc", s, 6)
  <2>1. G(2) \subseteq TakenBy(s, 6) \cup {s[6].what} \cup {"clk"}
    BY ONLY <1>6, <1>q, <1>g DEF Triggers
  <2>2. TakenBy(s, 6) \subseteq G(2) \cup (IF s[6].what = "irq" THEN Triggers ELSE {})
    BY ONLY <1>6, <1>q, <1>g DEF Triggers
  <2>3. 6 \in 1 .. 9 /\ 2 \in 1 .. 6
    OBVIOUS
  <2>4. s[6].undo = XadcFrom(2)
    BY ONLY <1>q
  <2>5. QED  BY <2>1, <2>2, <2>3, <2>4, <1>9
<1>16. Undoes("xadc", s, 7)
  <2>1. G(5) \subseteq TakenBy(s, 7) \cup {s[7].what} \cup {"clk"}
    BY ONLY <1>6, <1>q, <1>g DEF Triggers
  <2>2. TakenBy(s, 7) \subseteq G(5) \cup (IF s[7].what = "irq" THEN Triggers ELSE {})
    BY ONLY <1>6, <1>q, <1>g DEF Triggers
  <2>3. 7 \in 1 .. 9 /\ 5 \in 1 .. 6
    OBVIOUS
  <2>4. s[7].undo = XadcFrom(5)
    BY ONLY <1>q
  <2>5. QED  BY <2>1, <2>2, <2>3, <2>4, <1>9
<1>17. Undoes("xadc", s, 8)
  <2>1. G(1) \subseteq TakenBy(s, 8) \cup {s[8].what} \cup {"clk"}
    BY ONLY <1>6, <1>q, <1>g DEF Triggers
  <2>2. TakenBy(s, 8) \subseteq G(1) \cup (IF s[8].what = "irq" THEN Triggers ELSE {})
    BY ONLY <1>6, <1>q, <1>g DEF Triggers
  <2>3. 8 \in 1 .. 9 /\ 1 \in 1 .. 6
    OBVIOUS
  <2>4. s[8].undo = XadcFrom(1)
    BY ONLY <1>q
  <2>5. QED  BY <2>1, <2>2, <2>3, <2>4, <1>9
<1>18. Undoes("xadc", s, 9)
  <2>1. G(1) \subseteq TakenBy(s, 9) \cup {s[9].what} \cup {"clk"}
    BY ONLY <1>6, <1>q, <1>g DEF Triggers
  <2>2. TakenBy(s, 9) \subseteq G(1) \cup (IF s[9].what = "irq" THEN Triggers ELSE {})
    BY ONLY <1>6, <1>q, <1>g DEF Triggers
  <2>3. 9 \in 1 .. 9 /\ 1 \in 1 .. 6
    OBVIOUS
  <2>4. s[9].undo = XadcFrom(1)
    BY ONLY <1>q
  <2>5. QED  BY <2>1, <2>2, <2>3, <2>4, <1>9
<1>20. ProbeSteps("xadc", s)
  <2>1. \A k \in 1 .. 9 : Undoes("xadc", s, k)
    BY ONLY <1>n, <1>10, <1>11, <1>12, <1>13, <1>14, <1>15, <1>16, <1>17, <1>18
  <2>2. \A k \in 1 .. Len(s) : /\ s[k].do \in {"get", "try", "chan", "check", "zero"}
                               /\ Takes(s[k]) => s[k].what \in Resources \ AskedOf("xadc")
                               /\ s[k].do \in {"get", "chan", "check"} => Undoes("xadc", s, k)
    BY ONLY <2>1, <1>3, <1>5, <1>7
  <2>3. \A m, n \in 1 .. Len(s) : Takes(s[m]) /\ Takes(s[n]) /\ s[m].what = s[n].what => m = n
    BY ONLY <1>5, <1>8
  <2>4. s \in Seq(Item) /\ Len(s) \in Nat
    BY ONLY <1>5
  <2>5. QED  BY ONLY <2>2, <2>3, <2>4 DEF ProbeSteps
<1>21. RemoveSteps("xadc", s, XadcRemove)
  <2>1. TakenBy(s, 10) = Puts(XadcRemove) /\ Orderly(XadcRemove)
    BY <1>6, XadcRemoval DEF Triggers
  <2>2. QED  BY <2>1, <1>5 DEF RemoveSteps
<1>22. QED  BY <1>1, <1>20, <1>21 DEF ProbeShape

(* Every driver of the table.                                              *)
LEMMA ProbeShapes ==
  /\ \A d \in Files \cup NoFile : ProbeShape(d)
  /\ \A d \in Keepers : OwnedOf(d)
<1>1. \A d \in Files \cup NoFile : ProbeShape(d)
  BY ClassProbe, CdevProbe, Ex1Shape, Ex2Shape, DmaProbe, Ex4Shape, Ex6Shape, XadcShape DEF Files, NoFile
<1>2. ASSUME NEW d \in Keepers
      PROVE  OwnedOf(d)
  BY CdevProbe DEF Keepers
<1>3. QED  BY <1>1, <1>2

-----------------------------------------------------------------------------
(* Steps of functions                                                      *)

(* The steps from the k-th on: head, tail, end.                            *)
LEMMA LeftSteps ==
  ASSUME NEW d, ProbeOf(d) \in Seq(Item), NEW k \in 1 .. Len(ProbeOf(d)) + 1
  PROVE  /\ LeftOf(d, 1) = ProbeOf(d)
         /\ k <= Len(ProbeOf(d)) => /\ LeftOf(d, k) # <<>> /\ Head(LeftOf(d, k)) = ProbeOf(d)[k]
                                    /\ Tail(LeftOf(d, k)) = LeftOf(d, k + 1)
         /\ LeftOf(d, k) = <<>> <=> k = Len(ProbeOf(d)) + 1
<1> DEFINE o == ProbeOf(d)
           n == Len(o)
           R(j) == SubSeq(o, j, n)
<1>2. o \in Seq(Item) /\ n \in Nat
  OBVIOUS
<1>r. \A j : LeftOf(d, j) = R(j)
  BY DEF LeftOf
<1> HIDE DEF o
<1>4. R(1) = o
  BY <1>2
<1>5. ASSUME k <= n
      PROVE  R(k) # <<>> /\ Head(R(k)) = o[k] /\ Tail(R(k)) = R(k + 1)
  <2>1. k \in 1 .. Len(o) /\ n \in k .. Len(o)
    BY <1>2, <1>5 DEF o
  <2>2. Head(SubSeq(o, k, n)) = o[k] /\ Tail(SubSeq(o, k, n)) = SubSeq(o, k + 1, n)
    BY <2>1, <1>2, HeadTailOfSubSeq
  <2>3. \A i \in k .. n : o[i] \in Item
    BY <1>2, <2>1
  <2>4. Len(SubSeq(o, k, n)) = n - k + 1
    BY <2>3, <2>1, <1>2, <1>5, SubSeqProperties
  <2>5. Len(R(k)) # 0 /\ Len(<<>>) = 0
    BY <2>4, <1>2, <2>1
  <2>6. R(k) # <<>>
    BY <2>5
  <2>7. QED  BY <2>2, <2>6
<1>6. k = n + 1 => R(k) = <<>>
  BY <1>2, SubSeqEmpty
<1>7. k <= n \/ k = n + 1
  BY <1>2 DEF o
<1>8. ~(k <= n /\ k = n + 1)
  BY <1>2
<1> HIDE DEF R
<1>9. QED  BY <1>4, <1>5, <1>6, <1>7, <1>8, <1>r DEF o

(* What is left of such a sequence.                                        *)
LEMMA PutSteps ==
  ASSUME NEW s, Orderly(s), s # <<>>
  PROVE  /\ Head(s).do = "put" /\ Head(s).what \in Resources /\ Head(s).what \in Puts(s)
         /\ Orderly(Tail(s)) /\ Puts(Tail(s)) = Puts(s) \ {Head(s).what}
<1> DEFINE t == Tail(s)
<1>1. /\ s \in Seq(Item) /\ Len(s) \in Nat \ {0} /\ Head(s) = s[1] /\ t \in Seq(Item) /\ Len(t) = Len(s) - 1
      /\ \A i \in 1 .. Len(t) : t[i] = s[i + 1]
  <2>1. s \in Seq(Item)
    BY DEF Orderly
  <2>2. QED  BY <2>1, HeadTailProperties
<1>2. PICK n : n = Len(t)
  OBVIOUS
<1>3. n \in Nat /\ Len(s) = n + 1 /\ 1 \in 1 .. Len(s)
  BY <1>1, <1>2
<1>4. /\ \A i \in 1 .. n + 1 : s[i].do = "put" /\ s[i].what \in Resources
      /\ \A i, j \in 1 .. n + 1 : s[i].what = s[j].what => i = j
  BY <1>3 DEF Orderly
<1> HIDE DEF t
<1>a. \A i \in 1 .. n : t[i] = s[i + 1]
  BY <1>1, <1>2
<1>5. \A i \in 1 .. n : t[i].do = "put" /\ t[i].what \in Resources
  <2>1. \A i \in 1 .. n : i + 1 \in 1 .. n + 1
    BY <1>3
  <2>2. QED  BY ONLY <2>1, <1>a, <1>4
<1>6. \A i, j \in 1 .. n : t[i].what = t[j].what => i = j
  <2>1. \A i, j \in 1 .. n : i + 1 \in 1 .. n + 1 /\ j + 1 \in 1 .. n + 1 /\ (i + 1 = j + 1 => i = j)
    BY <1>3
  <2>2. QED  BY ONLY <2>1, <1>a, <1>4
<1>7. Orderly(t)
  BY <1>1, <1>2, <1>5, <1>6 DEF Orderly
<1>8. Puts(t) = Puts(s) \ {Head(s).what}
  <2>1. ASSUME NEW i \in 1 .. n
        PROVE  t[i].what \in Puts(s) \ {s[1].what}
    <3>1. i + 1 \in 1 .. n + 1 /\ i + 1 # 1 /\ 1 \in 1 .. n + 1
      BY <1>3
    <3>2. s[i + 1].what # s[1].what
      BY <3>1, <1>4
    <3>3. QED  BY <3>1, <3>2, <1>a, <1>3 DEF Puts
  <2>2. ASSUME NEW i \in 1 .. n + 1, s[i].what # s[1].what
        PROVE  s[i].what \in Puts(t)
    <3>1. i # 1
      BY <2>2
    <3>2. i - 1 \in 1 .. n /\ (i - 1) + 1 = i
      BY <3>1, <1>3
    <3>3. t[i - 1] = s[i]
      BY <3>2, <1>a
    <3>4. QED  BY <3>2, <3>3, <1>2 DEF Puts
  <2>3. Puts(t) = {t[i].what : i \in 1 .. n} /\ Puts(s) = {s[i].what : i \in 1 .. n + 1}
    BY <1>2, <1>3 DEF Puts
  <2>4. \A w \in Puts(t) : w \in Puts(s) \ {s[1].what}
    BY ONLY <2>1, <2>3
  <2>5. \A w \in Puts(s) \ {s[1].what} : w \in Puts(t)
    BY ONLY <2>2, <2>3
  <2>6. QED  BY <2>4, <2>5, <1>1
<1>9. Head(s).do = "put" /\ Head(s).what \in Resources /\ Head(s).what \in Puts(s)
  <2>1. 1 \in 1 .. n + 1 /\ Len(s) = n + 1
    BY <1>3
  <2>2. QED  BY ONLY <2>1, <1>1, <1>4 DEF Puts
<1>10. QED  BY <1>7, <1>8, <1>9 DEF t

(* An error path is such a sequence if it names nothing twice.             *)
LEMMA UndoSteps ==
  ASSUME NEW u \in Seq(Resources), \A i, j \in 1 .. Len(u) : u[i] = u[j] => i = j
  PROVE  Orderly(Steps(u)) /\ Puts(Steps(u)) = {u[i] : i \in 1 .. Len(u)}
<1>1. PICK n : n = Len(u) /\ n \in Nat /\ \A i \in 1 .. n : u[i] \in Resources
  OBVIOUS
<1>2. \A r \in Resources : Put(r) \in Item /\ Put(r).do = "put" /\ Put(r).what = r
  BY PutIs
<1> DEFINE s == [i \in 1 .. n |-> Put(u[i])]
<1>3. Steps(u) = s
  BY <1>1 DEF Steps
<1>4. s \in Seq(Item) /\ Len(s) = n
  BY <1>1, <1>2
<1>5. \A i \in 1 .. n : s[i].do = "put" /\ s[i].what = u[i] /\ u[i] \in Resources
  BY <1>1, <1>2
<1> HIDE DEF s
<1>6. Orderly(s)
  BY <1>1, <1>4, <1>5 DEF Orderly
<1>7. Puts(s) = {u[i] : i \in 1 .. n}
  BY <1>4, <1>5 DEF Puts
<1>8. QED  BY <1>1, <1>3, <1>6, <1>7

(* Example 1's.                                                            *)
LEMMA OkSteps ==
  ASSUME NEW u, u = <<"tx", "ok">>
  PROVE  SubSeq(u, 1, Len(u) - 1) = <<"tx">> /\ u[Len(u)] = "ok" /\ u # <<>>
<1>1. u \in Seq({"tx", "ok"}) /\ Len(u) = 2 /\ u[1] = "tx" /\ u[2] = "ok"
  OBVIOUS
<1>2. PICK v : v = SubSeq(u, 1, 1)
  OBVIOUS
<1>3. v \in Seq({"tx", "ok"}) /\ Len(v) = 1 /\ v[1] = "tx"
  BY <1>1, <1>2, SubSeqProperties
<1>4. v = <<"tx">>
  BY <1>3
<1>5. Len(u) - 1 = 1
  BY <1>1
<1>6. u[Len(u)] = "ok"
  BY <1>1
<1>7. u # <<>>
  BY Len(<<>>) = 0, <1>1
<1>8. QED  BY <1>2, <1>4, <1>5, <1>6, <1>7

(* Which action a step is.                                                 *)
LEMMA RunWhich ==
  ASSUME NEW t \in Threads, Run(t)
  PROVE  LET k == Head(todo[t]).do
         IN  /\ k = "get" => Taken(t) \/ Refused(t)
             /\ k = "try" => Taken(t) \/ Missed(t)
             /\ k = "chan" => Taken(t) \/ Missed(t) \/ Refused(t)
             /\ k = "check" => Refused(t) \/ Found(t)
             /\ k = "put" => Given(t)
             /\ k \notin {"get", "try", "chan", "check", "put"} => Counter(t) \/ Permitted(t)
  BY DEF Run, Taken, Missed, Refused, Found, Given, Counter, Permitted, Doing

-----------------------------------------------------------------------------
(* The loader's side                                                       *)

(* What the loader and driver core see to; a failed probe, but the XADC's, *)
(* is excepted; a set may be given back if what is missing is excused; it  *)
(* is all there is.                                                        *)
Mine       == Resources \ AskedOf(drv)
Gone       == hist.broken /\ drv # "xadc"
Safe(W)    == \A r \in W : ref[r] \/ r \in Excused
Covered(W) == \A r \in Mine \ Leaked : ref[r] => r \in W

TakenOf(d, k) == TakenBy(ProbeOf(d), k)
RemovedBy(d)  == Puts(Code[d].remove)

(* A probe has taken what its steps so far take; or it gives back what it  *)
(* has taken, and perhaps reports success.                                 *)
Going(k) ==
  /\ ~bad["core"] /\ todo["core"] = LeftOf(drv, k)
  /\ \A r \in Mine : ref[r] => r \in TakenOf(drv, k)
  /\ Safe(TakenOf(drv, k))
Undoing ==
  /\ Orderly(todo["core"]) /\ Puts(todo["core"]) \subseteq Mine /\ Safe(Puts(todo["core"]))
  /\ drv = "xadc" \/ ~bad["core"] => Covered(Puts(todo["core"]))
  /\ ~bad["core"] => RemovedBy(drv) \subseteq Excused
Removing ==
  /\ Orderly(todo["core"]) /\ Puts(todo["core"]) \subseteq Mine /\ Safe(Puts(todo["core"]))
  /\ Gone \/ Covered(Puts(todo["core"]))

(* So much for the loader and driver core.                                 *)
Stages ==
  /\ at["core"] = "probing" => Undoing \/ \E k \in 1 .. Len(ProbeOf(drv)) + 1 : Going(k)
  /\ at["core"] = "bound" => Safe(RemovedBy(drv)) /\ Covered(RemovedBy(drv))
  /\ at["core"] = "failed" => hist.broken /\ (drv = "xadc" => Covered({}))
  /\ at["core"] = "removing" => Removing

(* One is taken of what its variable says is taken, none without a module. *)
Kept ==
  /\ DOMAIN live = Resources
  /\ Gone \/ \A r \in Mine \ Leaked : live[r] = IF at["core"] # "out" /\ ref[r] THEN 1 ELSE 0
  /\ at["core"] = "out" => live["map"] = 0

(* A program that closes gives back what opens ask for, once it was the    *)
(* last.                                                                   *)
Closings ==
  \A p \in Programs : at[p] = "closing" =>
    todo[p] = RelOf(drv) \/ (Orderly(todo[p]) /\ Puts(todo[p]) \subseteq AskedOf(drv))

Load == Stages /\ Kept /\ Closings

(* The history only grows.                                                 *)
Later ==
  /\ drv' = drv /\ hist.failed \subseteq hist'.failed /\ (hist.mess => hist'.mess)
  /\ (hist.denied => hist'.denied) /\ (hist.broken => hist'.broken)

(* What is excused stays excused, and the table stays what it is.          *)
LEMMA Widens ==
  ASSUME Later
  PROVE  /\ Excused \subseteq Excused' /\ Leaked \subseteq Leaked' /\ (Gone => Gone') /\ Mine' = Mine
         /\ AskedOf(drv)' = AskedOf(drv) /\ Code[drv]' = Code[drv] /\ Owned' = Owned
         /\ ProbeOf(drv)' = ProbeOf(drv)
<1>1. drv' = drv
  BY DEF Later
<1>2. Owned' = Owned
  BY <1>1 DEF Owned
<1>3. Excused \subseteq Excused'
  BY <1>1 DEF Later, Excused
<1>4. Leaked \subseteq Leaked'
  BY <1>1, <1>2 DEF Later, Leaked
<1>5. QED  BY <1>1, <1>2, <1>3, <1>4 DEF Later, Gone, Mine

(* A run's step on the history.                                            *)
LEMMA RunLater ==
  ASSUME Typed, NEW t \in Threads, Run(t)
  PROVE  /\ Later /\ hist'.mess = hist.mess /\ hist'.broken = hist.broken
         /\ ~Given(t) => hist'.stray = hist.stray
<1>0. drv' = drv
  BY RunFrame
<1>s. ASSUME NEW e, hist' = [hist EXCEPT !.stray = e]
      PROVE  Later /\ hist'.mess = hist.mess /\ hist'.broken = hist.broken
  BY <1>s, <1>0 DEF Typed, Fields, Later
<1>d. ASSUME hist' = [hist EXCEPT !.denied = TRUE]
      PROVE  Later /\ hist'.mess = hist.mess /\ hist'.broken = hist.broken /\ hist'.stray = hist.stray
  BY <1>d, <1>0 DEF Typed, Fields, Later
<1>f. ASSUME NEW e, hist.failed \subseteq e, hist' = [hist EXCEPT !.failed = e]
      PROVE  Later /\ hist'.mess = hist.mess /\ hist'.broken = hist.broken /\ hist'.stray = hist.stray
  BY <1>f, <1>0 DEF Typed, Fields, Later
<1>h. ASSUME hist' = hist
      PROVE  Later /\ hist'.mess = hist.mess /\ hist'.broken = hist.broken /\ hist'.stray = hist.stray
  BY <1>h, <1>0 DEF Later
<1>1. CASE Taken(t) \/ Found(t) \/ Counter(t)
  BY <1>1, <1>h DEF Taken, Found, Counter
<1>2. CASE Given(t)
  BY <1>2, <1>s DEF Given
<1>3. CASE Permitted(t)
  <2>1. hist' = hist \/ hist' = [hist EXCEPT !.denied = TRUE]
    BY <1>3 DEF Permitted
  <2>2. QED  BY <2>1, <1>h, <1>d
<1>4. CASE Missed(t) \/ Refused(t)
  <2>1. PICK e : hist' = [hist EXCEPT !.failed = e] /\ hist.failed \subseteq e
    BY <1>4 DEF Missed, Refused
  <2>2. QED  BY <2>1, <1>f
<1>5. QED  BY <1>1, <1>2, <1>3, <1>4 DEF Run

(* What a step of a function does to the resources, and to what is left.   *)
LEMMA RunEffect ==
  ASSUME Typed, DOMAIN live = Resources, NEW t \in Threads, Run(t)
  PROVE  LET x == Head(todo[t])
         IN  /\ DOMAIN live' = Resources
             /\ \A r \in Resources \ {x.what} : ref'[r] = ref[r] /\ live'[r] = live[r]
             /\ x.do \notin {"get", "try", "chan", "put"} => ref' = ref /\ live' = live
<1> DEFINE x == Head(todo[t])
<1>1. CASE Taken(t)
  <2>1. /\ live' = [live EXCEPT ![x.what] = @ + 1] /\ ref' = [ref EXCEPT ![x.what] = TRUE]
        /\ x.do \in {"get", "try", "chan"}
    BY <1>1 DEF Taken, Doing
  <2>2. QED  BY <2>1 DEF Typed
<1>2. CASE Missed(t)
  <2>1. live' = live /\ x.do \in {"try", "chan"}
    BY <1>2 DEF Missed, Doing
  <2>2. \E e : ref' = [ref EXCEPT ![x.what] = e]
    BY <1>2 DEF Missed
  <2>3. QED  BY <2>1, <2>2 DEF Typed
<1>3. CASE Given(t)
  <2>1. ref' = [ref EXCEPT ![x.what] = FALSE] /\ x.do = "put"
    BY <1>3 DEF Given, Doing
  <2>2. \E e : live' = [live EXCEPT ![x.what] = e]
    BY <1>3 DEF Given
  <2>3. QED  BY <2>1, <2>2 DEF Typed
<1>4. CASE Refused(t) \/ Found(t) \/ Counter(t) \/ Permitted(t)
  BY <1>4 DEF Refused, Found, Counter, Permitted
<1>5. QED  BY <1>1, <1>2, <1>3, <1>4 DEF Run

(* What is left of a function after a step, done or failed.                *)
LEMMA LeftAfter ==
  ASSUME Typed, NEW t \in Threads
  PROVE  /\ Advance(t) => todo'[t] = Tail(todo[t])
         /\ \A u : Fail(t, u) /\ (u = <<>> \/ u[Len(u)] # "ok") => todo'[t] = Steps(u) /\ bad'[t]
         /\ \A u : Fail(t, u) /\ u # <<>> /\ u[Len(u)] = "ok" =>
              todo'[t] = Steps(SubSeq(u, 1, Len(u) - 1)) /\ ~bad'[t]
<1>1. Advance(t) => todo'[t] = Tail(todo[t])
  BY DEF Advance, Typed
<1>2. ASSUME NEW u, Fail(t, u), u = <<>> \/ u[Len(u)] # "ok"
      PROVE  todo'[t] = Steps(u) /\ bad'[t]
  BY <1>2 DEF Fail, Typed
<1>3. ASSUME NEW u, Fail(t, u), u # <<>>, u[Len(u)] = "ok"
      PROVE  todo'[t] = Steps(SubSeq(u, 1, Len(u) - 1)) /\ ~bad'[t]
  BY <1>3 DEF Fail, Typed
<1>4. QED  BY <1>1, <1>2, <1>3

(* A program touches only what opens ask for.                              *)
LEMMA ProgramRun ==
  ASSUME Inv, Closings, DOMAIN live = Resources, NEW p \in Programs, Run(p)
  PROVE  /\ \A r \in Mine : ref'[r] = ref[r] /\ live'[r] = live[r]
         /\ at[p] = "opening" => drv \in Files /\ Head(todo[p]).do # "put"
         /\ at[p] = "closing" => drv \in Files /\ Orderly(todo'[p]) /\ Puts(todo'[p]) \subseteq AskedOf(drv)
<1> DEFINE x == Head(todo[p])
<1>0. p \in Threads /\ todo[p] # <<>> /\ Typed /\ Places
  BY RunFrame DEF Threads, Inv
<1>1. at[p] \in {"opening", "closing"}
  BY <1>0 DEF Places
<1>f. drv \in Files
  BY <1>0, <1>1 DEF Places, Typed, Files, NoFile, Idle
<1>e. /\ \A r \in Resources \ {x.what} : ref'[r] = ref[r] /\ live'[r] = live[r]
      /\ x.do \notin {"get", "try", "chan", "put"} => ref' = ref /\ live' = live
  BY <1>0, RunEffect
<1>2. CASE at[p] = "opening"
  <2>1. PICK k \in 1 .. Len(OpenOf(drv)) : todo[p] = RestOf(drv, k) /\ (Goes(p, k) \/ Fails(p, k))
    BY <1>0, <1>2, OpenStep
  <2>2. x = OpenOf(drv)[k]
    <3>1. k \in 1 .. Len(OpenOf(drv)) + 1 /\ k <= Len(OpenOf(drv))
      BY <1>f, OpenShape DEF Shape
    <3>2. QED  BY <2>1, <3>1, <1>f, RestSteps
  <2>3. x.do \in {"try", "zero", "test", "take", "perm"}
    BY <2>1, <2>2 DEF Goes, Fails
  <2>4. x.do = "try" => x.what \in AskedOf(drv)
    <3>1. k \in DOMAIN OpenOf(drv)
      BY <1>f, OpenShape DEF Shape
    <3>2. QED  BY <2>2, <3>1 DEF AskedOf
  <2>5. \A r \in Mine : ref'[r] = ref[r] /\ live'[r] = live[r]
    <3>1. CASE x.do = "try"
      BY <3>1, <2>4, <1>e DEF Mine
    <3>2. CASE x.do # "try"
      BY <3>2, <2>3, <1>e
    <3>3. QED  BY <3>1, <3>2
  <2>6. QED  BY <2>3, <2>5, <1>2, <1>f
<1>3. CASE at[p] = "closing"
  <2>1. CASE todo[p] = RelOf(drv)
    <3>1. x = Drop /\ Orderly(Tail(todo[p])) /\ Puts(Tail(todo[p])) = AskedOf(drv)
      BY <2>1, <1>f, ReleaseShape
    <3>2. x.do = "drop"
      BY <3>1 DEF Drop, Step
    <3>3. Counter(p)
      BY <3>2, <1>0, RunWhich DEF Permitted, Doing
    <3>4. (todo'[p] = Tail(todo[p]) \/ todo'[p] = <<>>)
      BY <3>2, <3>3, <1>0 DEF Counter, Doing, Advance, Typed
    <3>5. Orderly(<<>>) /\ Puts(<<>>) = {}
      BY DEF Orderly, Puts
    <3>6. ref' = ref /\ live' = live
      BY <3>2, <1>e
    <3>7. QED  BY <3>1, <3>4, <3>5, <3>6, <1>3, <1>f
  <2>2. CASE Orderly(todo[p]) /\ Puts(todo[p]) \subseteq AskedOf(drv)
    <3>1. x.do = "put" /\ x.what \in AskedOf(drv) /\ Orderly(Tail(todo[p]))
          /\ Puts(Tail(todo[p])) \subseteq AskedOf(drv)
      BY <2>2, <1>0, PutSteps
    <3>2. Given(p)
      BY <3>1, <1>0, RunWhich
    <3>3. todo'[p] = Tail(todo[p])
      BY <3>2, <1>0 DEF Given, Advance, Typed
    <3>4. QED  BY <3>1, <3>3, <1>3, <1>e, <1>f DEF Mine
  <2>3. QED  BY <2>1, <2>2, <1>3 DEF Closings
<1>4. QED  BY <1>1, <1>2, <1>3

(* Steps of programs leave the loader's side as it is.                     *)
LEMMA StagesFrame ==
  ASSUME Typed, Stages, Later, at'["core"] = at["core"], todo'["core"] = todo["core"],
         bad'["core"] = bad["core"], \A r \in Mine : ref'[r] = ref[r]
  PROVE  Stages'
<1>1. /\ Excused \subseteq Excused' /\ Leaked \subseteq Leaked' /\ (Gone => Gone') /\ Mine' = Mine
      /\ drv' = drv /\ (hist.broken => hist'.broken)
  BY Widens DEF Later
<1>s. \A W : W \subseteq Mine /\ Safe(W) => \A r \in W : ref'[r] \/ r \in Excused'
  BY <1>1 DEF Safe
<1>c. \A W : Covered(W) => \A r \in Mine \ Leaked' : ref'[r] => r \in W
  BY <1>1 DEF Covered
<1>p. ProbeShape(drv)
  BY ProbeShapes DEF Typed
<1>t. \A k \in 1 .. Len(ProbeOf(drv)) + 1 : TakenOf(drv, k) \subseteq Mine
  <2>1. ProbeSteps(drv, ProbeOf(drv))
    BY <1>p DEF ProbeShape
  <2>2. \A k \in 1 .. Len(ProbeOf(drv)) + 1 : \A j \in 1 .. k - 1 : j \in 1 .. Len(ProbeOf(drv))
    BY <2>1 DEF ProbeSteps
  <2>3. QED  BY <2>1, <2>2 DEF ProbeSteps, TakenOf, TakenBy, Mine
<1>r. RemovedBy(drv) \subseteq Mine
  <2>1. ProbeSteps(drv, ProbeOf(drv)) /\ RemovedBy(drv) \subseteq TakenOf(drv, Len(ProbeOf(drv)) + 1)
    BY <1>p DEF ProbeShape, RemoveSteps, RemovedBy, TakenOf
  <2>2. Len(ProbeOf(drv)) + 1 \in 1 .. Len(ProbeOf(drv)) + 1
    BY <2>1 DEF ProbeSteps
  <2>3. QED  BY <2>1, <2>2, <1>t
<1>2. \A k \in 1 .. Len(ProbeOf(drv)) + 1 : Going(k) => Going(k)'
  <2>1. ASSUME NEW k \in 1 .. Len(ProbeOf(drv)) + 1, Going(k)
        PROVE  Going(k)'
    <3>1. \A r \in TakenOf(drv, k) : ref'[r] \/ r \in Excused'
      BY <2>1, <1>s, <1>t DEF Going
    <3>2. QED  BY <2>1, <3>1, <1>1 DEF Going, Safe
  <2>2. QED  BY <2>1
<1>3. Undoing => Undoing'
  <2>1. ASSUME Undoing
        PROVE  Undoing'
    <3>1. \A r \in Puts(todo["core"]) : ref'[r] \/ r \in Excused'
      BY <2>1, <1>s DEF Undoing
    <3>2. Covered(Puts(todo["core"])) => \A r \in Mine \ Leaked' : ref'[r] => r \in Puts(todo["core"])
      BY <1>c
    <3>3. QED  BY <2>1, <3>1, <3>2, <1>1 DEF Undoing, Safe, Covered
  <2>2. QED  BY <2>1
<1>4. Removing => Removing'
  <2>1. ASSUME Removing
        PROVE  Removing'
    <3>1. \A r \in Puts(todo["core"]) : ref'[r] \/ r \in Excused'
      BY <2>1, <1>s DEF Removing
    <3>2. Covered(Puts(todo["core"])) => \A r \in Mine \ Leaked' : ref'[r] => r \in Puts(todo["core"])
      BY <1>c
    <3>3. QED  BY <2>1, <3>1, <3>2, <1>1 DEF Removing, Safe, Covered
  <2>2. QED  BY <2>1
<1>5. Safe(RemovedBy(drv)) => Safe(RemovedBy(drv))'
  BY <1>r, <1>s, <1>1 DEF Safe
<1>6. \A W : Covered(W) => Covered(W)'
  BY <1>c, <1>1 DEF Covered
<1>7. Covered(RemovedBy(drv)) => Covered(RemovedBy(drv))'
  BY <1>c, <1>1 DEF Covered
<1>8. Covered({}) => Covered({})'
  BY <1>6
<1>9. QED  BY <1>1, <1>2, <1>3, <1>4, <1>5, <1>7, <1>8 DEF Stages

(* A probe's next step: it has taken one thing more, or gives back.        *)
LEMMA CoreProbes ==
  ASSUME Inv, Kept, at["core"] = "probing", Run("core"),
         NEW k \in 1 .. Len(ProbeOf(drv)) + 1, Going(k)
  PROVE  /\ Undoing' \/ \E j \in 1 .. Len(ProbeOf(drv)) + 1 : Going(j)'
         /\ Gone' \/ \A r \in Mine \ Leaked' : live'[r] = IF ref'[r] THEN 1 ELSE 0
         /\ ~Given("core")
<1> DEFINE s == ProbeOf(drv)
           x == Head(todo["core"])
           B == TakenOf(drv, k)
<1>0. /\ "core" \in Threads /\ todo["core"] # <<>> /\ Typed /\ Later /\ drv' = drv
      /\ DOMAIN live = Resources /\ ref' \in [Resources -> BOOLEAN] /\ bad' \in [Threads -> BOOLEAN]
  BY RunFrame, RunLater, Core DEF Inv, Kept
<1>w. /\ Excused \subseteq Excused' /\ Leaked \subseteq Leaked' /\ (Gone => Gone') /\ Mine' = Mine
      /\ s' = s /\ AskedOf(drv)' = AskedOf(drv)
  BY <1>0, Widens
<1>p. ProbeSteps(drv, s)
  BY <1>0, ProbeShapes DEF ProbeShape, Typed
<1>s. s \in Seq(Item) /\ Len(s) \in Nat
  BY <1>p DEF ProbeSteps
<1>1. k \in 1 .. Len(s) /\ x = s[k] /\ Tail(todo["core"]) = LeftOf(drv, k + 1) /\ k + 1 \in 1 .. Len(s) + 1
  <2>1. LeftOf(drv, k) # <<>>
    BY <1>0 DEF Going
  <2>2. k <= Len(s)
    BY <2>1, <1>s, LeftSteps
  <2>3. Head(LeftOf(drv, k)) = s[k] /\ Tail(LeftOf(drv, k)) = LeftOf(drv, k + 1)
    BY <2>2, <1>s, LeftSteps
  <2>4. QED  BY <2>2, <2>3, <1>s DEF Going
<1> HIDE DEF s, x
<1>2. /\ x.do \in {"get", "try", "chan", "check", "zero"}
      /\ Takes(x) => x.what \in Mine
      /\ x.do \in {"get", "chan", "check"} => Undoes(drv, s, k)
  BY <1>p, <1>1 DEF ProbeSteps, Mine
<1>3. Takes(x) => x.what \notin B
  <2>1. ASSUME Takes(x), x.what \in B
        PROVE  FALSE
    <3>1. PICK i \in 1 .. k - 1 : Takes(s[i]) /\ s[i].what = x.what
      BY <2>1 DEF TakenOf, TakenBy, s
    <3>2. i \in 1 .. Len(s) /\ i # k
      BY <1>1, <1>s
    <3>3. QED  BY <3>1, <3>2, <2>1, <1>1, <1>p DEF ProbeSteps
  <2>2. QED  BY <2>1
<1>4. TakenOf(drv, k + 1) = B \cup (IF Takes(x) THEN {x.what} ELSE {})
  <2>1. \A m : m = k + 1 => TakenBy(s, m) = TakenBy(s, k) \cup (IF Takes(s[k]) THEN {s[k].what} ELSE {})
    BY <1>s, <1>1, TakenStep
  <2>2. QED  BY <2>1, <1>1 DEF TakenOf, s
<1>g. /\ ~bad["core"] /\ (\A r \in Mine : ref[r] => r \in B) /\ \A r \in B : ref[r] \/ r \in Excused
  BY DEF Going, Safe
<1>k. Gone \/ \A r \in Mine \ Leaked : live[r] = IF ref[r] THEN 1 ELSE 0
  BY DEF Kept
<1>n. Takes(x) => ~ref[x.what]
  BY <1>2, <1>3, <1>g
<1>e. /\ \A r \in Resources \ {x.what} : ref'[r] = ref[r] /\ live'[r] = live[r]
      /\ x.do \notin {"get", "try", "chan", "put"} => ref' = ref /\ live' = live
  BY <1>0, RunEffect DEF x
<1>m. Mine \subseteq Resources
  BY DEF Mine
<1>a. ASSUME Advance("core"), bad' = bad, Takes(x) => ref'[x.what] \/ x.what \in Excused',
             ~Takes(x) => ref' = ref
      PROVE  \E j \in 1 .. Len(s) + 1 : Going(j)'
  <2>1. todo'["core"] = LeftOf(drv, k + 1)
    BY <1>a, <1>0, <1>1, LeftAfter
  <2>2. \A r \in Mine : ref'[r] => r \in TakenOf(drv, k + 1)
    <3>1. CASE Takes(x)
      BY <3>1, <1>4, <1>e, <1>g, <1>m
    <3>2. CASE ~Takes(x)
      BY <3>2, <1>a, <1>4, <1>g
    <3>3. QED  BY <3>1, <3>2
  <2>3. \A r \in TakenOf(drv, k + 1) : ref'[r] \/ r \in Excused'
    <3>b. B \subseteq Resources
      BY <1>p, <1>s, <1>1 DEF ProbeSteps, TakenOf, TakenBy, s
    <3>1. CASE Takes(x)
      BY <3>1, <3>b, <1>a, <1>3, <1>4, <1>e, <1>g, <1>w
    <3>2. CASE ~Takes(x)
      BY <3>2, <1>a, <1>4, <1>g, <1>w
    <3>3. QED  BY <3>1, <3>2
  <2>4. Going(k + 1)'
    BY <2>1, <2>2, <2>3, <1>a, <1>g, <1>w, <1>0 DEF Going, Safe
  <2>5. QED  BY <2>4, <1>1
<1>b. ASSUME ref' = ref, live' = live
      PROVE  Gone' \/ \A r \in Mine \ Leaked' : live'[r] = IF ref'[r] THEN 1 ELSE 0
  BY <1>b, <1>k, <1>w
<1>x. x.do # "put"
  BY <1>2
<1>5. CASE Taken("core")
  <2>1. /\ live' = [live EXCEPT ![x.what] = @ + 1] /\ ref' = [ref EXCEPT ![x.what] = TRUE]
        /\ Advance("core") /\ bad' = bad /\ Takes(x)
    BY <1>5 DEF Taken, Doing, x, Takes
  <2>2. x.what \in Resources /\ ref'[x.what] /\ live'[x.what] = live[x.what] + 1 /\ ~ref[x.what]
    BY <2>1, <1>2, <1>n, <1>m, <1>0 DEF Typed
  <2>3. Gone' \/ \A r \in Mine \ Leaked' : live'[r] = IF ref'[r] THEN 1 ELSE 0
    <3>1. ASSUME ~Gone', NEW r \in Mine \ Leaked'
          PROVE  live'[r] = IF ref'[r] THEN 1 ELSE 0
      <4>1. live[r] = IF ref[r] THEN 1 ELSE 0
        BY <3>1, <1>k, <1>w
      <4>2. CASE r = x.what
        BY <4>1, <4>2, <2>2
      <4>3. CASE r # x.what
        BY <4>1, <4>3, <1>e, <1>m
      <4>4. QED  BY <4>2, <4>3
    <3>2. QED  BY <3>1
  <2>4. QED  BY <2>1, <2>2, <2>3, <1>a, <1>x DEF Given, Doing, s, x
<1>6. CASE Missed("core")
  <2>1. x.do \in {"try", "chan"} /\ Takes(x) /\ live' = live /\ Advance("core") /\ bad' = bad
    BY <1>6 DEF Missed, Doing, x, Takes
  <2>2. ~ref[x.what] /\ x.what \in Resources
    BY <2>1, <1>n, <1>2, <1>m
  <2>3. /\ ref' = [ref EXCEPT ![x.what] = FALSE]
        /\ hist' = [hist EXCEPT !.failed = @ \cup {x.what}]
    BY <2>2, <1>6 DEF Missed, x
  <2>4. ref' = ref
    BY <2>2, <2>3, <1>0 DEF Typed
  <2>5. x.what \in Excused'
    <3>1. x.what \in hist'.failed
      BY <2>3, <1>0 DEF Typed, Fields
    <3>2. QED  BY <3>1 DEF Excused
  <2>6. QED  BY <2>1, <2>4, <2>5, <1>a, <1>b, <1>x DEF Given, Doing, s, x
<1>7. CASE Found("core")
  <2>1. Advance("core") /\ bad' = bad /\ ref' = ref /\ live' = live /\ ~Takes(x)
    BY <1>7 DEF Found, Doing, x, Takes
  <2>2. QED  BY <2>1, <1>a, <1>b, <1>x DEF Given, Doing, s, x
<1>8. CASE x.do = "zero"
  <2>1. Counter("core") \/ Permitted("core")
    BY <1>8, <1>0, RunWhich DEF x
  <2>2. Advance("core") /\ bad' = bad /\ ref' = ref /\ live' = live /\ ~Takes(x)
    BY <2>1, <1>8 DEF Counter, Permitted, Doing, x, Takes
  <2>3. QED  BY <2>2, <1>a, <1>b, <1>x DEF Given, Doing, s, x
<1>9. CASE Refused("core")
  <2>1. /\ ref' = ref /\ live' = live /\ Fail("core", x.undo) /\ x.do \in {"get", "chan", "check"}
        /\ hist' = [hist EXCEPT !.failed = @ \cup {x.what}]
    BY <1>9 DEF Refused, Doing, x
  <2>f. hist'.failed = hist.failed \cup {x.what}
    BY <2>1, <1>0 DEF Typed, Fields
  <2>2. hist'.failed \subseteq Excused' /\ x.what \in Excused'
    BY <2>f DEF Excused
  <2>3. Undoes(drv, s, k) /\ x = s[k]
    BY <2>1, <1>1, <1>2
  <2> DEFINE u == x.undo
             G == {u[i] : i \in 1 .. Len(u)}
  <2>4. CASE drv = "ex1" /\ x.what = "rx" /\ u = <<"tx", "ok">> /\ "tx" \in B
    <3>1. u # <<>> /\ u[Len(u)] = "ok" /\ SubSeq(u, 1, Len(u) - 1) = <<"tx">>
      BY <2>4, OkSteps
    <3>2. todo'["core"] = Steps(<<"tx">>) /\ ~bad'["core"]
      BY <3>1, <2>1, <1>0, LeftAfter
    <3>3. Orderly(Steps(<<"tx">>)) /\ Puts(Steps(<<"tx">>)) = {"tx"}
      <4>1. PICK v : v = <<"tx">>
        OBVIOUS
      <4>2. v \in Seq(Resources) /\ Len(v) = 1 /\ v[1] = "tx"
        BY <4>1 DEF Resources
      <4>3. \A i, j \in 1 .. Len(v) : v[i] = v[j] => i = j
        BY <4>2
      <4>4. {v[i] : i \in 1 .. Len(v)} = {"tx"}
        BY <4>2
      <4>5. QED  BY <4>1, <4>2, <4>3, <4>4, UndoSteps
    <3>4. "tx" \in Mine
      BY <2>4, AskedIs DEF Mine, Resources
    <3>5. ref'["tx"] \/ "tx" \in Excused'
      BY <2>1, <2>4, <1>g, <1>w
    <3>6. \A r \in Mine : ref'[r] => r = "tx"
      <4>1. B = {"tx"}
        <5>1. drv = "ex1"
          BY <2>4
        <5>2. k \in {1, 2} /\ s = Ex1Probe /\ Len(s) = 2
          BY <5>1, ProbeIs, <1>1 DEF s, ProbeOf, Ex1Probe
        <5>3. B \subseteq {"tx"}
          <6>1. Ex1Probe[1].what = "tx"
            BY DEF Ex1Probe, Need, Get, Step
          <6>2. \A i \in 1 .. k - 1 : i = 1
            BY <5>2
          <6>3. QED  BY <6>1, <6>2, <5>2 DEF TakenOf, TakenBy, s
        <5>4. QED  BY <5>3, <2>4
      <4>2. QED  BY <4>1, <2>1, <1>g
    <3>7. RemovedBy("ex1") = {"tx", "rx"}
      <4>1. "tx" \in Resources /\ "rx" \in Resources \ {"tx"} /\ "class" \in Resources \ {"tx", "rx"}
        BY DEF Resources
      <4>2. Puts(<<Put("tx"), Put("rx")>>) = {"tx", "rx"}
        BY ONLY <4>1, FewPuts
      <4>3. QED  BY <4>2, RemoveIs DEF RemovedBy, Ex1Remove
    <3>8. "rx" \in Excused' /\ "tx" \in Excused'
      <4>1. "rx" \in hist'.failed /\ drv' = "ex1"
        BY <2>f, <2>4, <1>0
      <4>2. QED  BY <4>1 DEF Excused
    <3>9. Undoing'
      BY <3>2, <3>3, <3>4, <3>5, <3>6, <3>7, <3>8, <2>4, <1>w, <1>0 DEF Undoing, Safe, Covered
    <3>10. QED  BY <3>9, <2>1, <1>b, <1>x DEF Given, Doing, x
  <2>5. CASE /\ u \in Seq(Resources) /\ \A i, j \in 1 .. Len(u) : u[i] = u[j] => i = j
             /\ G \cap AskedOf(drv) = {}
             /\ G \subseteq B \cup {x.what} \cup (IF drv = "xadc" THEN {"clk"} ELSE {})
             /\ drv = "xadc" => B \subseteq G \cup (IF x.what = "irq" THEN Triggers ELSE {})
    <3>1. u = <<>> \/ u[Len(u)] # "ok"
      <4>1. u # <<>> => u[Len(u)] \in Resources
        BY <2>5
      <4>2. "ok" \notin Resources
        BY DEF Resources
      <4>3. QED  BY <4>1, <4>2
    <3>2. todo'["core"] = Steps(u) /\ bad'["core"]
      BY <3>1, <2>1, <1>0, LeftAfter
    <3>3. Orderly(Steps(u)) /\ Puts(Steps(u)) = G
      BY <2>5, UndoSteps
    <3>4. G \subseteq Mine
      <4>1. G \subseteq Resources
        BY <2>5
      <4>2. QED  BY <4>1, <2>5 DEF Mine
    <3>5. \A r \in G : ref'[r] \/ r \in Excused'
      <4>1. drv = "xadc" => "clk" \in Excused'
        BY <1>0 DEF Excused
      <4>2. QED  BY <4>1, <2>1, <2>2, <2>5, <1>g, <1>w
    <3>6. drv = "xadc" => \A r \in Mine \ Leaked' : ref'[r] => r \in G
      <4>1. ASSUME drv = "xadc", NEW r \in Mine \ Leaked', ref'[r]
            PROVE  r \in G
        <5>1. r \in B
          BY <4>1, <2>1, <1>g
        <5>2. x.what = "irq" => Triggers \subseteq Leaked'
          BY <4>1, <2>f, <1>0 DEF Leaked, Triggers
        <5>3. QED  BY <4>1, <5>1, <5>2, <2>5
      <4>2. QED  BY <4>1
    <3>7. Undoing'
      BY <3>2, <3>3, <3>4, <3>5, <3>6, <1>w, <1>0 DEF Undoing, Safe, Covered
    <3>8. QED  BY <3>7, <2>1, <1>b, <1>x DEF Given, Doing, x
  <2>6. QED  BY <2>3, <2>4, <2>5, SMTT(30) DEF Undoes, TakenOf, s
<1>10. QED  BY <1>2, <1>5, <1>6, <1>7, <1>8, <1>9, <1>0, RunWhich DEF x

(* What a step that gives back does.                                       *)
LEMMA CoreGives ==
  ASSUME Inv, Kept, at["core"] \in {"probing", "removing"}, Run("core"),
         Orderly(todo["core"]), Puts(todo["core"]) \subseteq Mine, Safe(Puts(todo["core"]))
  PROVE  /\ Orderly(todo'["core"]) /\ Puts(todo'["core"]) \subseteq Mine /\ Safe(Puts(todo["core"]))'
         /\ Covered(Puts(todo["core"])) => Covered(Puts(todo["core"]))'
         /\ Gone' \/ \A r \in Mine \ Leaked' : live'[r] = IF ref'[r] THEN 1 ELSE 0
         /\ bad'["core"] = bad["core"]
         /\ Given("core") /\ (ref[Head(todo["core"]).what] \/ Head(todo["core"]).what \in Excused)
<1> DEFINE s == todo["core"]
           r == Head(s).what
<1>0. /\ "core" \in Threads /\ s # <<>> /\ Typed /\ Later /\ drv' = drv
      /\ DOMAIN live = Resources /\ ref' \in [Resources -> BOOLEAN]
  BY RunFrame, RunLater, Core DEF Inv, Kept
<1>w. Excused \subseteq Excused' /\ Leaked \subseteq Leaked' /\ (Gone => Gone') /\ Mine' = Mine
  BY <1>0, Widens
<1>1. /\ Head(s).do = "put" /\ r \in Resources /\ r \in Puts(s)
      /\ Orderly(Tail(s)) /\ Puts(Tail(s)) = Puts(s) \ {r}
  BY <1>0, PutSteps
<1>2. Given("core")
  BY <1>0, <1>1, RunWhich
<1>3. /\ live' = [live EXCEPT ![r] = IF ref[r] THEN @ - 1 ELSE @] /\ ref' = [ref EXCEPT ![r] = FALSE]
      /\ Advance("core") /\ bad' = bad
  BY <1>2 DEF Given
<1>4. todo'["core"] = Tail(s)
  BY <1>3, <1>0, LeftAfter
<1> HIDE DEF s, r
<1>5. ~ref'[r] /\ \A q \in Resources \ {r} : ref'[q] = ref[q] /\ live'[q] = live[q]
  BY <1>0, <1>1, <1>3 DEF Typed
<1>6. live'[r] = IF ref[r] THEN live[r] - 1 ELSE live[r]
  BY <1>0, <1>1, <1>3
<1>m. Mine \subseteq Resources
  BY DEF Mine
<1>7. \A q \in Puts(s) \ {r} : ref'[q] \/ q \in Excused'
  <2>1. \A q \in Puts(s) : q \in Resources /\ (ref[q] \/ q \in Excused)
    BY <1>m DEF Safe, s
  <2>2. QED  BY <2>1, <1>5, <1>w
<1>8. Covered(Puts(s)) => \A q \in Mine \ Leaked' : ref'[q] => q \in Puts(s) \ {r}
  BY <1>5, <1>m, <1>w DEF Covered
<1>9. Gone' \/ \A q \in Mine \ Leaked' : live'[q] = IF ref'[q] THEN 1 ELSE 0
  <2>1. Gone \/ \A q \in Mine \ Leaked : live[q] = IF ref[q] THEN 1 ELSE 0
    BY DEF Kept
  <2>2. ASSUME ~Gone', NEW q \in Mine \ Leaked'
        PROVE  live'[q] = IF ref'[q] THEN 1 ELSE 0
    <3>1. live[q] = IF ref[q] THEN 1 ELSE 0
      BY <2>1, <2>2, <1>w
    <3>2. CASE q = r
      BY <3>1, <3>2, <1>5, <1>6
    <3>3. CASE q # r
      BY <3>1, <3>3, <1>5, <1>m
    <3>4. QED  BY <3>2, <3>3
  <2>3. QED  BY <2>2
<1>10. Puts(todo'["core"]) = Puts(s) \ {r}
  BY <1>4, <1>1
<1>11. Safe(Puts(todo["core"]))'
  BY <1>7, <1>10 DEF Safe
<1>12. Covered(Puts(s)) => Covered(Puts(todo["core"]))'
  BY <1>8, <1>10, <1>w DEF Covered
<1>13. ref[r] \/ r \in Excused
  BY <1>1 DEF Safe, s
<1>14. QED  BY <1>1, <1>2, <1>3, <1>4, <1>9, <1>10, <1>11, <1>12, <1>13 DEF s, r

(* A step of any function.                                                 *)
LEMMA RunLoad ==
  ASSUME Inv, Load, NEW t \in Threads, Run(t)
  PROVE  Load'
<1>0. /\ at' = at /\ drv' = drv /\ Typed /\ Places /\ Later /\ hist'.broken = hist.broken
      /\ todo[t] # <<>> /\ \A u \in Threads \ {t} : todo'[u] = todo[u] /\ bad'[u] = bad[u]
      /\ Stages /\ Kept /\ Closings /\ DOMAIN live = Resources
  BY RunFrame, RunLater DEF Inv, Load, Kept
<1>w. Excused \subseteq Excused' /\ Leaked \subseteq Leaked' /\ (Gone => Gone') /\ Mine' = Mine
  BY <1>0, Widens
<1>d. DOMAIN live' = Resources
  BY <1>0, RunEffect
<1>1. CASE t = "core"
  <2>1. at["core"] \in {"probing", "removing"}
    BY <1>0, <1>1, CoreStep
  <2>2. Closings'
    BY <1>0, <1>1, Core DEF Closings
  <2>3. CASE at["core"] = "probing"
    <3>1. CASE Undoing
      <4>1. /\ Orderly(todo'["core"]) /\ Puts(todo'["core"]) \subseteq Mine /\ Safe(Puts(todo["core"]))'
            /\ Covered(Puts(todo["core"])) => Covered(Puts(todo["core"]))'
            /\ Gone' \/ \A r \in Mine \ Leaked' : live'[r] = IF ref'[r] THEN 1 ELSE 0
            /\ bad'["core"] = bad["core"]
        BY <1>0, <1>1, <2>3, <3>1, CoreGives DEF Undoing
      <4>2. Undoing'
        BY <3>1, <4>1, <1>0, <1>w DEF Undoing
      <4>3. Stages'
        BY <4>2, <2>3, <1>0 DEF Stages
      <4>4. Kept'
        BY <4>1, <2>3, <1>0, <1>d, <1>w DEF Kept
      <4>5. QED  BY <2>2, <4>3, <4>4 DEF Load
    <3>2. CASE \E k \in 1 .. Len(ProbeOf(drv)) + 1 : Going(k)
      <4>1. PICK k \in 1 .. Len(ProbeOf(drv)) + 1 : Going(k)
        BY <3>2
      <4>2. /\ Undoing' \/ \E j \in 1 .. Len(ProbeOf(drv)) + 1 : Going(j)'
            /\ Gone' \/ \A r \in Mine \ Leaked' : live'[r] = IF ref'[r] THEN 1 ELSE 0
        BY <4>1, <1>0, <1>1, <2>3, CoreProbes
      <4>3. (\E j \in 1 .. Len(ProbeOf(drv)) + 1 : Going(j)')
              => (\E j \in 1 .. Len(ProbeOf(drv)) + 1 : Going(j))'
        BY <1>0
      <4>4. Stages'
        BY <4>2, <4>3, <2>3, <1>0 DEF Stages
      <4>5. Kept'
        BY <4>2, <2>3, <1>0, <1>d, <1>w DEF Kept
      <4>6. QED  BY <2>2, <4>4, <4>5 DEF Load
    <3>3. QED  BY <3>1, <3>2, <2>3, <1>0 DEF Stages
  <2>4. CASE at["core"] = "removing"
    <3>0. Removing
      BY <2>4, <1>0 DEF Stages
    <3>1. /\ Orderly(todo'["core"]) /\ Puts(todo'["core"]) \subseteq Mine /\ Safe(Puts(todo["core"]))'
          /\ Covered(Puts(todo["core"])) => Covered(Puts(todo["core"]))'
          /\ Gone' \/ \A r \in Mine \ Leaked' : live'[r] = IF ref'[r] THEN 1 ELSE 0
      BY <1>0, <1>1, <2>4, <3>0, CoreGives DEF Removing
    <3>2. Removing'
      BY <3>0, <3>1, <1>w DEF Removing
    <3>3. Stages'
      BY <3>2, <2>4, <1>0 DEF Stages
    <3>4. Kept'
      BY <3>1, <2>4, <1>0, <1>d, <1>w DEF Kept
    <3>5. QED  BY <2>2, <3>3, <3>4 DEF Load
  <2>5. QED  BY <2>1, <2>3, <2>4
<1>2. CASE t \in Programs
  <2>1. /\ \A r \in Mine : ref'[r] = ref[r] /\ live'[r] = live[r]
        /\ at[t] = "closing" => drv \in Files /\ Orderly(todo'[t]) /\ Puts(todo'[t]) \subseteq AskedOf(drv)
    BY <1>0, <1>2, ProgramRun
  <2>2. todo'["core"] = todo["core"] /\ bad'["core"] = bad["core"]
    BY <1>0, <1>2, Core
  <2>3. Stages'
    BY <1>0, <2>1, <2>2, StagesFrame
  <2>4. at["core"] # "out"
    BY <1>0, <1>2 DEF Places, Idle
  <2>5. Kept'
    BY <2>1, <2>4, <1>0, <1>d, <1>w DEF Kept
  <2>6. Closings'
    <3>1. ASSUME NEW p \in Programs, at'[p] = "closing"
          PROVE  todo'[p] = RelOf(drv) \/ (Orderly(todo'[p]) /\ Puts(todo'[p]) \subseteq AskedOf(drv))
      <4>1. CASE p = t
        BY <3>1, <4>1, <2>1, <1>0
      <4>2. CASE p # t
        BY <3>1, <4>2, <1>0, Core DEF Closings
      <4>3. QED  BY <4>1, <4>2
    <3>2. QED  BY <3>1, <1>0 DEF Closings
  <2>7. QED  BY <2>3, <2>5, <2>6 DEF Load
<1>3. QED  BY <1>1, <1>2 DEF Threads

(* The other actions, too, only add to the history.                        *)
LEMMA MixLater ==
  ASSUME Typed, NEW ps
  PROVE  LET h == Mix(ps)
             g == [h EXCEPT !.calls = hist.calls + 1]
         IN  /\ h.failed = hist.failed /\ h.stray = hist.stray /\ h.denied = hist.denied
             /\ h.broken = hist.broken /\ h.mess = (hist.mess \/ ps # {}) /\ h.mixed = hist.mixed \cup ps
             /\ g.failed = hist.failed /\ g.stray = hist.stray /\ g.denied = hist.denied
             /\ g.broken = hist.broken /\ g.mess = (hist.mess \/ ps # {}) /\ g.mixed = hist.mixed \cup ps
<1> DEFINE h == Mix(ps)
<1>1. /\ DOMAIN h = Fields /\ h.calls = hist.calls /\ h.failed = hist.failed /\ h.stray = hist.stray
      /\ h.denied = hist.denied
  BY DEF Typed, Fields, Mix
<1>2. h.broken = hist.broken /\ h.mess = (hist.mess \/ ps # {}) /\ h.mixed = hist.mixed \cup ps
  BY DEF Typed, Fields, Mix
<1> HIDE DEF h
<1>3. LET g == [h EXCEPT !.calls = hist.calls + 1]
      IN  /\ g.failed = h.failed /\ g.stray = h.stray /\ g.denied = h.denied
          /\ g.broken = h.broken /\ g.mess = h.mess /\ g.mixed = h.mixed
  BY <1>1 DEF Fields
<1>4. QED  BY <1>1, <1>2, <1>3 DEF h

(* Nor do they give anything back.                                         *)
LEMMA CallLater ==
  ASSUME Typed,
         \/ Insmod \/ Probed \/ Rmmod \/ Removed
         \/ \E p \in Programs : CallOpen(p) \/ CallClose(p) \/ Return(p)
  PROVE  Later /\ hist'.stray = hist.stray
<1>1. CASE Insmod
  BY <1>1 DEF Insmod, Typed, Fields, Later
<1>2. CASE Probed
  BY <1>2 DEF Probed, Typed, Fields, Later
<1>3. CASE Removed
  BY <1>3 DEF Removed, Later
<1>4. CASE Rmmod \/ \E p \in Programs : CallOpen(p) \/ CallClose(p)
  <2>c. \A ps : [Mix(ps) EXCEPT !.calls = @ + 1] = [Mix(ps) EXCEPT !.calls = hist.calls + 1]
    BY DEF Mix, Typed, Fields
  <2>1. drv' = drv /\ \E ps : hist' = Mix(ps) \/ hist' = [Mix(ps) EXCEPT !.calls = hist.calls + 1]
    BY <1>4, <2>c DEF Rmmod, CallOpen, CallClose
  <2>2. PICK ps : hist' = Mix(ps) \/ hist' = [Mix(ps) EXCEPT !.calls = hist.calls + 1]
    BY <2>1
  <2>3. /\ hist'.failed = hist.failed /\ hist'.stray = hist.stray /\ hist'.denied = hist.denied
        /\ hist'.broken = hist.broken /\ hist'.mess = (hist.mess \/ ps # {})
    <3>1. CASE hist' = Mix(ps)
      BY <3>1, MixLater
    <3>2. CASE hist' = [Mix(ps) EXCEPT !.calls = hist.calls + 1]
      BY <3>2, MixLater
    <3>3. QED  BY <2>2, <3>1, <3>2
  <2>4. QED  BY <2>1, <2>3 DEF Later
<1>5. CASE \E p \in Programs : Return(p)
  <2>1. drv' = drv /\ \E e : hist' = [hist EXCEPT !.mixed = e]
    BY <1>5 DEF Return
  <2>2. QED  BY <2>1 DEF Typed, Fields, Later
<1>6. QED  BY <1>1, <1>2, <1>3, <1>4, <1>5

(* A module that is loaded has taken nothing, and nothing is left of it.   *)
LEMMA InsmodLoad ==
  ASSUME Inv, Load, Insmod
  PROVE  Load'
<1>0. Typed /\ Places /\ Stages /\ Kept /\ Closings
  BY DEF Inv, Load
<1>1. /\ at["core"] = "out" /\ Enter("core", "probing", ProbeOf(drv))
      /\ ref' = [r \in Resources |-> FALSE] /\ drv' = drv /\ live' = live
  BY DEF Insmod, ProbeOf
<1>2. "probing" \in Spots /\ "core" \in Threads
  BY Core DEF Spots
<1>3. /\ at'["core"] = "probing" /\ todo'["core"] = ProbeOf(drv) /\ ~bad'["core"]
      /\ \A p \in Programs : at'[p] = at[p] /\ todo'[p] = todo[p]
  BY <1>0, <1>1, <1>2, EnterIs, Core
<1>l. Later
  BY <1>0, CallLater
<1>w. Leaked \subseteq Leaked' /\ (Gone => Gone') /\ Mine' = Mine
  BY <1>l, Widens
<1>p. ProbeSteps(drv, ProbeOf(drv))
  BY <1>0, ProbeShapes DEF ProbeShape, Typed
<1>4. LeftOf(drv, 1) = ProbeOf(drv) /\ 1 \in 1 .. Len(ProbeOf(drv)) + 1 /\ TakenOf(drv, 1) = {}
  <2>1. ProbeOf(drv) \in Seq(Item) /\ 1 \in 1 .. Len(ProbeOf(drv)) + 1
    BY <1>p DEF ProbeSteps
  <2>2. QED  BY <2>1, LeftSteps, TakenStep DEF TakenOf
<1>5. Going(1)'
  <2>1. \A r \in Mine : ~ref'[r]
    BY <1>1 DEF Mine
  <2>2. QED  BY <2>1, <1>1, <1>3, <1>4, <1>w DEF Going, Safe
<1>6. Stages'
  <2>1. (\E k \in 1 .. Len(ProbeOf(drv)) + 1 : Going(k))'
    BY <1>1, <1>4, <1>5
  <2>2. QED  BY <2>1, <1>3 DEF Stages
<1>7. Kept'
  <2>1. Gone \/ \A r \in Mine \ Leaked : live[r] = 0
    BY <1>0, <1>1 DEF Kept
  <2>2. Gone' \/ \A r \in Mine \ Leaked' : live'[r] = 0 /\ ~ref'[r]
    BY <2>1, <1>1, <1>w DEF Mine
  <2>3. Gone' \/ \A r \in (Mine \ Leaked)' :
                    live'[r] = IF at'["core"] # "out" /\ ref'[r] THEN 1 ELSE 0
    BY <2>2, <1>w
  <2>4. DOMAIN live' = Resources /\ at'["core"] # "out"
    BY <1>0, <1>1, <1>3 DEF Kept
  <2>5. QED  BY <2>3, <2>4 DEF Kept
<1>8. Closings'
  BY <1>0, <1>1, <1>3 DEF Closings
<1>9. QED  BY <1>6, <1>7, <1>8 DEF Load

(* A probe that is over has taken all that its removal gives back, or      *)
(* failed.                                                                 *)
LEMMA ProbedLoad ==
  ASSUME Inv, Load, Probed
  PROVE  Load'
<1>0. Typed /\ Places /\ Stages /\ Kept /\ Closings /\ "core" \in Threads
  BY Core DEF Inv, Load
<1>1. /\ at["core"] = "probing" /\ todo["core"] = <<>>
      /\ at' = [at EXCEPT !["core"] = IF bad["core"] THEN "failed" ELSE "bound"]
      /\ live' = IF bad["core"] THEN Unbound ELSE live
      /\ ref' = [r \in Resources |-> ref[r] /\ ~(bad["core"] /\ r \in Devm)]
      /\ hist' = [hist EXCEPT !.broken = @ \/ bad["core"]]
      /\ drv' = drv /\ todo' = todo /\ bad' = bad
  BY DEF Probed
<1>2. hist'.broken = (hist.broken \/ bad["core"])
  BY <1>0, <1>1 DEF Typed, Fields
<1>3. /\ at'["core"] = (IF bad["core"] THEN "failed" ELSE "bound")
      /\ \A p \in Programs : at'[p] = at[p]
  BY <1>0, <1>1, Core DEF Typed
<1>l. Later
  BY <1>0, CallLater
<1>w. Excused \subseteq Excused' /\ Leaked \subseteq Leaked' /\ (Gone => Gone') /\ Mine' = Mine
  BY <1>l, Widens
<1>p. ProbeShape(drv)
  BY <1>0, ProbeShapes DEF Typed
<1> DEFINE R == RemovedBy(drv)
           n == Len(ProbeOf(drv))
<1>4. CASE bad["core"]
  <2>1. Undoing
    BY <1>0, <1>1, <1>4 DEF Stages, Going
  <2>2. drv = "xadc" => \A r \in Mine \ Leaked : ~ref[r]
    <3>1. Puts(<<>>) = {}
      BY DEF Puts
    <3>2. QED  BY <2>1, <3>1, <1>1 DEF Undoing, Covered
  <2>3. \A r \in Mine : ref'[r] => ref[r]
    BY <1>1 DEF Mine
  <2>4. Stages'
    <3>1. at'["core"] = "failed" /\ hist'.broken
      BY <1>2, <1>3, <1>4
    <3>2. drv = "xadc" => Covered({})'
      BY <2>2, <2>3, <1>w DEF Covered
    <3>3. QED  BY <3>1, <3>2, <1>1 DEF Stages
  <2>5. Kept'
    <3>1. DOMAIN live' = Resources
      BY <1>1, <1>4 DEF Unbound
    <3>2. Gone' \/ \A r \in Mine \ Leaked' : live'[r] = IF ref'[r] THEN 1 ELSE 0
      <4>1. ASSUME ~Gone', NEW r \in Mine \ Leaked'
            PROVE  live'[r] = IF ref'[r] THEN 1 ELSE 0
        <5>1. live[r] = IF ref[r] THEN 1 ELSE 0
          BY <4>1, <1>0, <1>1, <1>w DEF Kept
        <5>2. r \in Resources
          BY DEF Mine
        <5>3. live'[r] = (IF r \in Devm THEN 0 ELSE live[r]) /\ ref'[r] = (ref[r] /\ r \notin Devm)
          BY <5>2, <1>1, <1>4 DEF Unbound
        <5>4. QED  BY <5>1, <5>3
      <4>2. QED  BY <4>1
    <3>3. Gone' \/ \A r \in (Mine \ Leaked)' :
                      live'[r] = IF at'["core"] # "out" /\ ref'[r] THEN 1 ELSE 0
      BY <3>2, <1>3, <1>4, <1>w
    <3>4. QED  BY <3>1, <3>3, <1>3, <1>4 DEF Kept
  <2>6. Closings'
    BY <1>0, <1>1, <1>3 DEF Closings
  <2>7. QED  BY <2>4, <2>5, <2>6 DEF Load
<1>5. CASE ~bad["core"]
  <2>1. live' = live /\ (hist'.broken => hist.broken) /\ ref' = ref
    <3>1. ref \in [Resources -> BOOLEAN]
      BY <1>0 DEF Typed
    <3>2. \A r \in Resources : ref'[r] = ref[r]
      BY <3>1, <1>1, <1>5
    <3>3. ref' = ref
      BY <3>1, <3>2, <1>1
    <3>4. QED  BY <3>3, <1>1, <1>2, <1>5
  <2>2. Safe(R) /\ Covered(R)
    <3>1. CASE Undoing
      <4>1. Puts(<<>>) = {}
        BY DEF Puts
      <4>2. QED  BY <3>1, <4>1, <1>1, <1>5 DEF Undoing, Safe, Covered
    <3>2. CASE \E k \in 1 .. n + 1 : Going(k)
      <4>1. PICK k \in 1 .. n + 1 : Going(k)
        BY <3>2
      <4>2. ProbeOf(drv) \in Seq(Item) /\ LeftOf(drv, k) = <<>>
        BY <4>1, <1>1, <1>p DEF Going, ProbeShape, ProbeSteps
      <4>3. k = n + 1
        BY <4>2, LeftSteps
      <4>4. R \subseteq TakenOf(drv, k)
        BY <4>3, <1>p DEF ProbeShape, RemoveSteps, TakenOf, RemovedBy
      <4>5. \A r \in TakenOf(drv, k) \ Leaked : r \in R
        <5>1. OwnedOf(drv) => Owned
          BY DEF OwnedOf, Owned, ProbeOf
        <5>2. QED  BY <5>1, <4>3, <1>p DEF ProbeShape, RemoveSteps, TakenOf, RemovedBy, Leaked
      <4>6. QED  BY <4>1, <4>4, <4>5 DEF Going, Safe, Covered
    <3>3. QED  BY <3>1, <3>2, <1>0, <1>1 DEF Stages
  <2>3. Stages'
    <3>1. Safe(R)' /\ Covered(R)'
      BY <2>1, <2>2, <1>1, <1>w DEF Safe, Covered
    <3>2. at'["core"] = "bound"
      BY <1>3, <1>5
    <3>3. QED  BY <3>1, <3>2, <1>1 DEF Stages
  <2>4. Kept'
    BY <1>0, <1>1, <1>3, <1>5, <2>1, <1>w DEF Kept
  <2>5. Closings'
    BY <1>0, <1>1, <1>3 DEF Closings
  <2>6. QED  BY <2>3, <2>4, <2>5 DEF Load
<1>6. QED  BY <1>4, <1>5

(* What is taken does not change while the variables do not.               *)
LEMMA KeptFrame ==
  ASSUME Kept, Later, live' = live, \A r \in Mine : ref'[r] = ref[r],
         at'["core"] = "out" <=> at["core"] = "out"
  PROVE  Kept'
<1>1. Leaked \subseteq Leaked' /\ (Gone => Gone') /\ Mine' = Mine
  BY Widens
<1>2. Gone' \/ \A r \in (Mine \ Leaked)' :
                 live'[r] = IF at'["core"] # "out" /\ ref'[r] THEN 1 ELSE 0
  <2>1. ASSUME ~Gone', NEW r \in (Mine \ Leaked)'
        PROVE  live'[r] = IF at'["core"] # "out" /\ ref'[r] THEN 1 ELSE 0
    <3>1. ~Gone /\ r \in Mine \ Leaked
      BY <2>1, <1>1
    <3>2. live[r] = (IF at["core"] # "out" /\ ref[r] THEN 1 ELSE 0) /\ ref'[r] = ref[r]
      BY <3>1 DEF Kept
    <3>3. QED  BY <3>2
  <2>2. QED  BY <2>1
<1>3. QED  BY <1>2 DEF Kept

(* A removal gives back what the probe has taken.                          *)
LEMMA RmmodLoad ==
  ASSUME Inv, Load, Rmmod
  PROVE  Load'
<1>0. Typed /\ Places /\ Stages /\ Kept /\ Closings /\ "core" \in Threads /\ "removing" \in Spots
  BY Core DEF Inv, Load, Spots
<1> DEFINE s == IF at["core"] = "bound" THEN Code[drv].remove ELSE <<>>
<1>1. /\ at["core"] \in {"bound", "failed"} /\ Enter("core", "removing", s)
      /\ drv' = drv /\ ref' = ref /\ live' = live
  BY DEF Rmmod
<1>2. Orderly(s) /\ Puts(s) \subseteq Mine /\ Safe(Puts(s)) /\ (Gone \/ Covered(Puts(s)))
  <2>1. CASE at["core"] = "bound"
    <3>1. ProbeShape(drv)
      BY <1>0, ProbeShapes DEF Typed
    <3>2. LET n == Len(ProbeOf(drv)) IN n \in Nat /\ \A i \in 1 .. (n + 1) - 1 : i \in 1 .. n
      BY <3>1 DEF ProbeShape, ProbeSteps
    <3>3. Orderly(s) /\ Puts(s) \subseteq Mine
      BY <2>1, <3>1, <3>2 DEF ProbeShape, ProbeSteps, RemoveSteps, TakenBy, Mine
    <3>4. Safe(Puts(s)) /\ Covered(Puts(s))
      BY <2>1, <1>0 DEF Stages, RemovedBy
    <3>5. QED  BY <3>3, <3>4
  <2>2. CASE at["core"] = "failed"
    <3>1. s = <<>>
      BY <2>2
    <3>2. Orderly(<<>>) /\ Puts(<<>>) = {}
      BY DEF Orderly, Puts
    <3>3. Gone \/ Covered({})
      BY <2>2, <1>0 DEF Stages, Gone
    <3>4. QED  BY <3>1, <3>2, <3>3 DEF Safe
  <2>3. QED  BY <1>1, <2>1, <2>2
<1> HIDE DEF s
<1>3. /\ at'["core"] = "removing" /\ todo'["core"] = s
      /\ \A p \in Programs : at'[p] = at[p] /\ todo'[p] = todo[p]
  BY <1>0, <1>1, EnterIs, Core
<1>l. Later
  BY <1>0, CallLater
<1>w. /\ Excused \subseteq Excused' /\ Leaked \subseteq Leaked' /\ (Gone => Gone') /\ Mine' = Mine
      /\ AskedOf(drv)' = AskedOf(drv)
  BY <1>l, Widens
<1>4. Stages'
  <2>1. Orderly(todo'["core"]) /\ Puts(todo'["core"]) \subseteq Mine'
    BY <1>2, <1>3, <1>w
  <2>2. Safe(Puts(todo["core"]))'
    BY <1>1, <1>2, <1>3, <1>w DEF Safe
  <2>3. Gone' \/ Covered(Puts(todo["core"]))'
    BY <1>1, <1>2, <1>3, <1>w DEF Covered
  <2>4. QED  BY <2>1, <2>2, <2>3, <1>3 DEF Stages, Removing
<1>5. Kept'
  <2>1. at'["core"] # "out" /\ at["core"] # "out"
    BY <1>1, <1>3
  <2>2. QED  BY <2>1, <1>0, <1>1, <1>l, KeptFrame
<1>6. Closings'
  BY <1>0, <1>1, <1>3, <1>w DEF Closings
<1>7. QED  BY <1>4, <1>5, <1>6 DEF Load

(* When it is over nothing is left.                                        *)
LEMMA RemovedLoad ==
  ASSUME Inv, Load, Removed
  PROVE  Load'
<1>0. Typed /\ Places /\ Stages /\ Kept
  BY DEF Inv, Load
<1>1. /\ at["core"] = "removing" /\ todo["core"] = <<>> /\ live' = Unbound
      /\ drv' = drv /\ ref' = ref /\ hist' = hist
      /\ at'["core"] = "out" /\ \A p \in Programs : at'[p] \in {"closed", "orphan"}
  BY Core DEF Removed
<1>w. Gone' = Gone /\ (Mine \ Leaked)' = Mine \ Leaked
  <2>1. Owned' = Owned /\ AskedOf(drv)' = AskedOf(drv)
    BY <1>1 DEF Owned
  <2>2. QED  BY <2>1, <1>1 DEF Gone, Mine, Leaked
<1>2. Stages'
  BY <1>1 DEF Stages
<1>3. Gone \/ \A r \in Mine \ Leaked : live'[r] = 0
  <2>1. Puts(<<>>) = {}
    BY DEF Puts
  <2>2. Gone \/ \A r \in Mine \ Leaked : ~ref[r]
    BY <2>1, <1>0, <1>1 DEF Stages, Removing, Covered
  <2>3. Gone \/ \A r \in Mine \ Leaked : live[r] = 0
    BY <2>2, <1>0, <1>1 DEF Kept
  <2>4. QED  BY <2>3, <1>1 DEF Unbound, Mine
<1>4. DOMAIN live' = Resources /\ live'["map"] = 0
  BY <1>1 DEF Unbound, Resources, Devm
<1>5. Kept'
  BY <1>1, <1>w, <1>3, <1>4 DEF Kept
<1>6. Closings'
  BY <1>1 DEF Closings
<1>7. QED  BY <1>2, <1>5, <1>6 DEF Load

(* Programs come and go without taking anything of the loader's.           *)
LEMMA CallsLoad ==
  ASSUME Inv, Load, NEW p \in Programs, CallOpen(p) \/ CallClose(p) \/ Return(p)
  PROVE  Load'
<1>0. Typed /\ Places /\ Stages /\ Kept /\ Closings /\ p \in Threads /\ "core" \in Threads
  BY Core DEF Inv, Load
<1>l. Later
  BY <1>0, CallLater
<1>1. drv' = drv /\ ref' = ref /\ live' = live
  BY DEF CallOpen, CallClose, Return
<1>2. /\ \A t \in Threads \ {p} : at'[t] = at[t] /\ todo'[t] = todo[t] /\ bad'[t] = bad[t]
      /\ at'[p] = "closing" => todo'[p] = RelOf(drv)
  <2>1. CASE CallOpen(p)
    <3>1. Enter(p, "opening", OpenOf(drv)) /\ "opening" \in Spots
      BY <2>1 DEF CallOpen, OpenOf, Spots
    <3>2. QED  BY <3>1, <1>0, EnterIs
  <2>2. CASE CallClose(p)
    <3>1. Enter(p, "closing", RelOf(drv)) /\ "closing" \in Spots
      BY <2>2 DEF CallClose, RelOf, Spots
    <3>2. QED  BY <3>1, <1>0, EnterIs
  <2>3. CASE Return(p)
    BY <2>3, <1>0 DEF Return, Typed
  <2>4. QED  BY <2>1, <2>2, <2>3
<1>3. at'["core"] = at["core"] /\ todo'["core"] = todo["core"] /\ bad'["core"] = bad["core"]
  BY <1>2, Core
<1>4. Stages'
  BY <1>0, <1>l, <1>1, <1>3, StagesFrame
<1>5. Kept'
  BY <1>0, <1>l, <1>1, <1>3, KeptFrame
<1>6. Closings'
  BY <1>0, <1>1, <1>2, Core DEF Closings
<1>7. QED  BY <1>4, <1>5, <1>6 DEF Load

(* This part holds at first.                                               *)
LEMMA InitLoad == Init => Load
<1> SUFFICES ASSUME Init PROVE Load
  OBVIOUS
<1>1. at["core"] = "out" /\ \A p \in Programs : at[p] = "closed"
  BY Core DEF Init
<1>2. live = [r \in Resources |-> 0] /\ "map" \in Resources
  BY DEF Init, Resources
<1>3. Stages /\ Closings
  BY <1>1 DEF Stages, Closings
<1>4. Kept
  BY <1>1, <1>2 DEF Kept, Mine
<1>5. QED  BY <1>3, <1>4 DEF Load

(* Every step keeps it.                                                    *)
LEMMA NextLoad ==
  ASSUME Inv, Load, [Next]_vars
  PROVE  Load'
<1>1. CASE UNCHANGED vars
  <2>1. drv' = drv /\ at' = at /\ todo' = todo /\ bad' = bad /\ live' = live /\ ref' = ref /\ hist' = hist
    BY <1>1 DEF vars
  <2>2. Later
    BY <2>1 DEF Later
  <2>3. Typed /\ Stages /\ Kept /\ Closings
    BY DEF Inv, Load
  <2>4. Stages'
    BY <2>1, <2>2, <2>3, StagesFrame
  <2>5. Kept'
    BY <2>1, <2>2, <2>3, KeptFrame
  <2>6. Closings'
    BY <2>1, <2>3 DEF Closings
  <2>7. QED  BY <2>4, <2>5, <2>6 DEF Load
<1>2. QED  BY <1>1, InsmodLoad, ProbedLoad, RmmodLoad, RemovedLoad, RunLoad, CallsLoad DEF Next

-----------------------------------------------------------------------------
(* Calm drivers: the programs' side                                        *)

(* A driver whose open asks for something, and no two calls have           *)
(* overlapped yet: nobody loses the module, a close finds everybody else   *)
(* out, itself the last, and what it gives back taken.                     *)
Calm == drv \in Keepers /\ ~hist.mess
Ends(p) ==
  \/ todo[p] = RelOf(drv) /\ busy = 1 /\ Safe(AskedOf(drv))
  \/ Orderly(todo[p]) /\ Safe(Puts(todo[p])) /\ busy = 0
Quiet ==
  Calm =>
    /\ hist.mixed = {}
    /\ \A p \in Programs : at[p] # "orphan"
    /\ at["core"] \in {"out", "probing", "removing"} => \A p \in Programs : at[p] = "closed"
    /\ \A p \in Programs : at[p] = "closing" =>
         Ends(p) /\ \A q \in Programs \ {p} : at[q] = "closed"

(* Calm was calm before.                                                   *)
LEMMA CalmBefore ==
  ASSUME Later, Calm'
  PROVE  Calm /\ drv \in Files /\ ~hist'.mess
  BY Asking DEF Later, Calm

(* The loader's steps find nobody there.                                   *)
LEMMA CoreAlone ==
  ASSUME Inv, Quiet, Calm', Insmod \/ Probed \/ Rmmod \/ Removed \/ Run("core")
  PROVE  \A p \in Programs : at[p] = "closed" /\ at'[p] = "closed"
<1>0. Typed /\ Places /\ "core" \in Threads
  BY Core DEF Inv
<1>l. Later
  BY <1>0, CallLater, RunLater
<1>c. Calm
  BY <1>l, CalmBefore
<1>1. \A p \in Programs : at[p] = "closed"
  <2>1. CASE Insmod \/ Probed \/ Removed
    BY <2>1, <1>c DEF Quiet, Insmod, Probed, Removed
  <2>2. CASE Rmmod
    <3>1. Owned
      BY <1>c, ProbeShapes DEF OwnedOf, Owned, ProbeOf, Calm
    <3>2. QED  BY <2>2, <3>1 DEF Rmmod
  <2>3. CASE Run("core")
    <3>1. at["core"] \in {"probing", "removing"}
      BY <2>3, <1>0, CoreStep
    <3>2. QED  BY <3>1, <1>c DEF Quiet
  <2>4. QED  BY <2>1, <2>2, <2>3
<1>2. \A p \in Programs : at'[p] = "closed"
  <2>1. CASE Insmod
    BY <2>1, <1>0, <1>1, Core DEF Insmod, Enter, Typed
  <2>2. CASE Probed
    BY <2>2, <1>1, Core DEF Probed, Typed
  <2>3. CASE Rmmod
    BY <2>3, <1>1, Core DEF Rmmod, Enter, Typed
  <2>4. CASE Removed
    BY <2>4, <1>1, Core DEF Removed
  <2>5. CASE Run("core")
    BY <2>5, <1>0, <1>1, RunFrame
  <2>6. QED  BY <2>1, <2>2, <2>3, <2>4, <2>5
<1>3. QED  BY <1>1, <1>2

(* So all stays quiet.                                                     *)
LEMMA CoreQuiet ==
  ASSUME Inv, Quiet, Calm', Insmod \/ Probed \/ Rmmod \/ Removed \/ Run("core")
  PROVE  Quiet'
<1>0. Typed /\ Places /\ "core" \in Threads
  BY Core DEF Inv
<1>l. Later
  BY <1>0, CallLater, RunLater
<1>c. Calm
  BY <1>l, CalmBefore
<1>1. hist.mixed = {}
  BY <1>c DEF Quiet
<1>2. \A p \in Programs : at[p] = "closed" /\ at'[p] = "closed"
  BY CoreAlone
<1>3. hist'.mixed = {}
  <2>1. CASE Insmod
    BY <2>1, <1>0, <1>1 DEF Insmod, Typed, Fields
  <2>2. CASE Probed
    BY <2>2, <1>0, <1>1 DEF Probed, Typed, Fields
  <2>3. CASE Rmmod
    <3>1. {p \in Programs : at[p] = "opening"} = {}
      BY <1>2
    <3>2. hist' = Mix({})
      BY <2>3, <3>1 DEF Rmmod
    <3>3. QED  BY <3>2, <1>0, <1>1, MixLater
  <2>4. CASE Removed
    BY <2>4, <1>1 DEF Removed
  <2>5. CASE Run("core")
    BY <2>5, <1>0, <1>1, RunFrame
  <2>6. QED  BY <2>1, <2>2, <2>3, <2>4, <2>5
<1>4. QED  BY <1>2, <1>3 DEF Quiet

(* An open that begins finds nobody coming or going.                       *)
LEMMA CallOpenQuiet ==
  ASSUME Inv, Quiet, Calm', NEW p \in Programs, CallOpen(p)
  PROVE  Quiet'
<1>0. Typed /\ Places /\ p \in Threads /\ "opening" \in Spots
  BY Core DEF Inv, Spots
<1>l. Later
  BY <1>0, CallLater
<1>c. Calm /\ ~hist'.mess
  BY <1>l, CalmBefore
<1> DEFINE others == {q \in Programs \ {p} : Disturbs(q)}
           clash  == \/ others # {} \/ at["core"] \in {"probing", "removing"}
                     \/ \E q \in Programs \ {p} : at[q] # "closed" /\ q \in hist.mixed
           ps     == others \cup (IF clash THEN {p} ELSE {})
<1>1. /\ at["core"] # "out" /\ Enter(p, "opening", OpenOf(drv))
      /\ hist' = [Mix(ps) EXCEPT !.calls = @ + 1]
  BY DEF CallOpen, OpenOf
<1>2. /\ \A q \in Programs \ {p} : at[q] \in {"opening", "closing"} => q \in ps
      /\ at["core"] \in {"probing", "removing"} => p \in ps
  BY DEF Disturbs
<1> HIDE DEF others, clash, ps
<1>3. hist'.mess = (hist.mess \/ ps # {}) /\ hist'.mixed = hist.mixed \cup ps
  <2>1. [Mix(ps) EXCEPT !.calls = @ + 1] = [Mix(ps) EXCEPT !.calls = hist.calls + 1]
    BY <1>0 DEF Mix, Typed, Fields
  <2>2. QED  BY <1>0, <1>1, <2>1, MixLater
<1>4. ps = {}
  BY <1>3, <1>c
<1>5. at'[p] = "opening" /\ \A t \in Threads \ {p} : at'[t] = at[t]
  BY <1>0, <1>1, EnterIs
<1>6. at'["core"] \notin {"out", "probing", "removing"}
  BY <1>1, <1>2, <1>4, <1>5, Core
<1>7. \A q \in Programs : at'[q] # "closing" /\ at'[q] # "orphan"
  BY <1>2, <1>4, <1>5, <1>c, Core DEF Quiet
<1>8. hist'.mixed = {}
  BY <1>3, <1>4, <1>c DEF Quiet
<1>9. QED  BY <1>6, <1>7, <1>8 DEF Quiet

(* A close that begins is that of the only program there.                  *)
LEMMA CallCloseQuiet ==
  ASSUME Inv, Quiet, Calm', NEW p \in Programs, CallClose(p)
  PROVE  Quiet'
<1>0. Typed /\ Places /\ Apart /\ p \in Threads /\ "closing" \in Spots
  BY Core DEF Inv, Spots
<1>l. Later
  BY <1>0, CallLater
<1>c. Calm /\ ~hist'.mess /\ drv \in Files
  BY <1>l, CalmBefore
<1>w. Excused \subseteq Excused' /\ drv' = drv
  BY <1>l, Widens DEF Later
<1> DEFINE ps == {q \in Programs \ {p} : at[q] = "opening"}
<1>1. /\ at[p] = "open" /\ Enter(p, "closing", RelOf(drv)) /\ hist' = Mix(ps)
      /\ ref' = ref /\ busy' = busy
  BY DEF CallClose, RelOf
<1>2. ps = {} /\ hist'.mixed = hist.mixed \cup ps
  BY <1>0, <1>1, <1>c, MixLater
<1>q. hist.mixed = {} /\ \A q \in Programs : at[q] # "orphan"
  BY <1>c DEF Quiet
<1>3. /\ busy = 1 /\ HeldTo(drv, ref, hist.failed, Len(OpenOf(drv)) + 1)
      /\ \A q \in Programs \ {p} : Idle(at[q]) \/ at[q] = "opening"
  BY <1>0, <1>1, <1>q DEF Apart
<1>4. \A q \in Programs \ {p} : at[q] = "closed"
  BY <1>2, <1>3, <1>q DEF Idle
<1>5. at'[p] = "closing" /\ todo'[p] = RelOf(drv) /\ \A t \in Threads \ {p} : at'[t] = at[t]
  BY <1>0, <1>1, EnterIs
<1>6. Safe(AskedOf(drv))
  <2>1. \A i \in DOMAIN OpenOf(drv) : i \in 1 .. (Len(OpenOf(drv)) + 1) - 1
    BY <1>c, OpenShape DEF Shape
  <2>2. QED  BY <1>3, <2>1 DEF Safe, AskedOf, HeldTo, Known, Excused
<1>7. Ends(p)'
  BY <1>1, <1>3, <1>5, <1>6, <1>w DEF Ends, Safe
<1>8. at'["core"] = at["core"] /\ at["core"] \notin {"out", "probing", "removing"}
  BY <1>1, <1>5, <1>c, Core DEF Quiet
<1>9. /\ \A q \in Programs : at'[q] # "orphan"
      /\ \A q \in Programs \ {p} : at'[q] = "closed"
  BY <1>4, <1>5, <1>q, Core
<1>10. QED  BY <1>2, <1>7, <1>8, <1>9, <1>q DEF Quiet

(* A call that returns leaves nobody closing.                              *)
LEMMA ReturnQuiet ==
  ASSUME Inv, Quiet, Calm', NEW p \in Programs, Return(p)
  PROVE  Quiet'
<1>0. Typed /\ p \in Threads
  BY Core DEF Inv
<1>l. Later
  BY <1>0, CallLater
<1>c. Calm
  BY <1>l, CalmBefore
<1> DEFINE to == IF at[p] = "opening" /\ ~bad[p] THEN "open" ELSE "closed"
<1>1. /\ at[p] \in {"opening", "closing"} /\ at' = [at EXCEPT ![p] = to]
      /\ hist' = [hist EXCEPT !.mixed = IF to = "open" THEN @ ELSE @ \ {p}]
  BY DEF Return
<1>2. hist'.mixed \subseteq hist.mixed
  BY <1>0, <1>1 DEF Typed, Fields
<1>3. at'[p] \in {"open", "closed"} /\ \A t \in Threads \ {p} : at'[t] = at[t]
  BY <1>0, <1>1 DEF Typed
<1>4. \A q \in Programs \ {p} : at[q] # "closing"
  BY <1>1, <1>c DEF Quiet
<1>5. at'["core"] \notin {"out", "probing", "removing"}
  BY <1>1, <1>3, <1>c, Core DEF Quiet
<1>6. \A q \in Programs : at'[q] \notin {"closing", "orphan"}
  BY <1>3, <1>4, <1>c, Core DEF Quiet
<1>7. QED  BY <1>2, <1>5, <1>6, <1>c DEF Quiet

(* The last one leaving gives back what is held, thing by thing.           *)
LEMMA RunQuiet ==
  ASSUME Inv, Load, Quiet, Calm', NEW p \in Programs, Run(p)
  PROVE  Quiet'
<1>0. Typed /\ Places /\ p \in Threads
  BY Core DEF Inv
<1>l. Later
  BY <1>0, RunLater
<1>c. Calm /\ drv \in Files
  BY <1>l, CalmBefore
<1>w. Excused \subseteq Excused' /\ drv' = drv
  BY <1>l, Widens DEF Later
<1>1. at' = at /\ hist'.mixed = hist.mixed /\ todo[p] # <<>>
  BY <1>0, RunFrame
<1>2. at[p] \in {"opening", "closing"}
  BY <1>0, <1>1 DEF Places
<1>3. at["core"] \notin {"out", "probing", "removing"}
  BY <1>2, <1>c DEF Quiet
<1>4. CASE at[p] = "opening"
  <2>1. \A q \in Programs : at[q] # "closing"
    BY <1>4, <1>c DEF Quiet
  <2>2. QED  BY <2>1, <1>1, <1>3, <1>c DEF Quiet
<1>5. CASE at[p] = "closing"
  <2> DEFINE x == Head(todo[p])
  <2>1. Ends(p) /\ \A q \in Programs \ {p} : at[q] = "closed"
    BY <1>5, <1>c DEF Quiet
  <2>2. ASSUME todo[p] = RelOf(drv), busy = 1, Safe(AskedOf(drv))
        PROVE  Ends(p)'
    <3>1. x = Drop /\ Orderly(Tail(todo[p])) /\ Puts(Tail(todo[p])) = AskedOf(drv)
      BY <2>2, <1>c, ReleaseShape
    <3>2. x.do = "drop"
      BY <3>1 DEF Drop, Step
    <3>3. Counter(p)
      BY <3>2, <1>0, RunWhich DEF Permitted, Doing
    <3>4. busy' = busy - 1 /\ Advance(p) /\ ref' = ref
      BY <3>2, <3>3, <2>2 DEF Counter, Doing
    <3>5. busy' = 0 /\ todo'[p] = Tail(todo[p])
      <4>1. busy' = 0
        BY <3>4, <2>2
      <4>2. todo'[p] = Tail(todo[p])
        BY <3>4, <1>0, LeftAfter
      <4>3. QED  BY <4>1, <4>2
    <3>6. Safe(AskedOf(drv))'
      BY <3>4, <2>2, <1>w DEF Safe
    <3>7. Safe(Puts(todo[p]))'
      BY <3>1, <3>5, <3>6, <1>w DEF Safe
    <3>8. QED  BY <3>1, <3>5, <3>7 DEF Ends
  <2>3. ASSUME Orderly(todo[p]), Safe(Puts(todo[p])), busy = 0
        PROVE  Ends(p)'
    <3>1. /\ x.do = "put" /\ x.what \in Resources /\ x.what \in Puts(todo[p])
          /\ Orderly(Tail(todo[p])) /\ Puts(Tail(todo[p])) = Puts(todo[p]) \ {x.what}
      BY <2>3, <1>1, PutSteps
    <3>2. Given(p)
      BY <3>1, <1>0, RunWhich
    <3>3. todo'[p] = Tail(todo[p]) /\ busy' = busy
      BY <3>2, <1>0, LeftAfter DEF Given
    <3>4. \A r \in Resources \ {x.what} : ref'[r] = ref[r]
      <4>1. DOMAIN live = Resources
        BY DEF Load, Kept
      <4>2. QED  BY <4>1, <1>0, RunEffect
    <3>5. Puts(todo[p]) \subseteq Resources
      BY <2>3 DEF Orderly, Puts
    <3>6. Safe(Puts(todo[p]))'
      BY <3>1, <3>3, <3>4, <3>5, <2>3, <1>w DEF Safe
    <3>7. QED  BY <3>1, <3>3, <3>6, <2>3 DEF Ends
  <2>4. Ends(p)'
    BY <2>1, <2>2, <2>3 DEF Ends
  <2>5. \A q \in Programs : at'[q] # "orphan" /\ (at'[q] = "closing" => q = p)
    BY <2>1, <1>1, <1>5
  <2>6. QED  BY <2>1, <2>4, <2>5, <1>1, <1>3, <1>c DEF Quiet
<1>6. QED  BY <1>2, <1>4, <1>5

(* It is so at first.                                                      *)
LEMMA InitQuiet == Init => Quiet
<1> SUFFICES ASSUME Init PROVE Quiet
  OBVIOUS
<1>1. hist.mixed = {} /\ \A p \in Programs : at[p] = "closed"
  BY Core DEF Init
<1>2. QED  BY <1>1 DEF Quiet

(* Every step keeps it.                                                    *)
LEMMA NextQuiet ==
  ASSUME Inv, Load, Quiet, [Next]_vars
  PROVE  Quiet'
<1>1. CASE ~Calm'
  BY <1>1 DEF Quiet
<1>2. CASE Calm'
  <2>1. CASE UNCHANGED vars
    BY <2>1 DEF vars, Quiet, Calm, Ends, Safe, Excused
  <2>2. ASSUME NEW t \in Threads, Run(t)
        PROVE  Quiet'
    BY <2>2, <1>2, CoreQuiet, RunQuiet DEF Threads
  <2>3. QED  BY <2>1, <2>2, <1>2, CoreQuiet, CallOpenQuiet, CallCloseQuiet, ReturnQuiet DEF Next
<1>3. QED  BY <1>1, <1>2

-----------------------------------------------------------------------------
(* What opens have taken                                                   *)

(* Somebody is behind the counter and behind what opens have taken, of     *)
(* which there is one at most: an open that will ask for the ring finds    *)
(* none there.                                                             *)
Holds(p) ==
  \/ at[p] = "open"
  \/ /\ at[p] = "opening" /\ ~bad[p]
     /\ \E k \in TestOf(drv) + 2 .. Len(OpenOf(drv)) + 1 : todo[p] = RestOf(drv, k)
  \/ at[p] = "closing" /\ todo[p] = RelOf(drv)
Owes(p, r) ==
  \/ at[p] = "open" \/ (at[p] = "opening" /\ ~bad[p])
  \/ at[p] = "closing" /\ (todo[p] = RelOf(drv) \/ r \in Puts(todo[p]))
Ringless ==
  "buffer" \in AskedOf(drv) =>
    \A p \in Programs : at[p] = "opening" /\ ~bad[p] =>
      \A k \in 1 .. TestOf(drv) - 1 : todo[p] = RestOf(drv, k) => ~ref["buffer"]
Single == \A r \in AskedOf(drv) \ {"map"} : live[r] = IF ref[r] THEN 1 ELSE 0
Due ==
  Calm /\ ~hist.denied =>
    /\ busy # 0 => \E p \in Programs : Holds(p)
    /\ Single /\ \A r \in AskedOf(drv) \ {"map"} : ref[r] => \E p \in Programs : Owes(p, r)
    /\ Ringless

(* The loader's functions keep away from what opens ask for.               *)
LEMMA CoreAway ==
  ASSUME Inv, Load, Run("core")
  PROVE  /\ \A r \in AskedOf(drv) : r \in Resources => ref'[r] = ref[r] /\ live'[r] = live[r]
         /\ busy' \in {busy, 0}
<1> DEFINE x == Head(todo["core"])
<1>0. Typed /\ Places /\ Stages /\ "core" \in Threads /\ DOMAIN live = Resources
  BY Core DEF Inv, Load, Kept
<1>1. at["core"] \in {"probing", "removing"}
  BY <1>0, CoreStep
<1>2. todo["core"] # <<>>
  BY <1>0, RunFrame
<1>e. /\ \A r \in Resources \ {x.what} : ref'[r] = ref[r] /\ live'[r] = live[r]
      /\ x.do \notin {"get", "try", "chan", "put"} => ref' = ref /\ live' = live
  BY <1>0, RunEffect
<1>3. /\ x.do \in {"get", "try", "chan", "check", "zero", "put"}
      /\ x.do \in {"get", "try", "chan", "put"} => x.what \notin AskedOf(drv)
  <2>1. CASE Orderly(todo["core"]) /\ Puts(todo["core"]) \subseteq Mine
    BY <2>1, <1>2, PutSteps DEF Mine
  <2>2. ASSUME NEW k \in 1 .. Len(ProbeOf(drv)) + 1, Going(k)
        PROVE  /\ x.do \in {"get", "try", "chan", "check", "zero", "put"}
               /\ x.do \in {"get", "try", "chan", "put"} => x.what \notin AskedOf(drv)
    <3>1. ProbeSteps(drv, ProbeOf(drv)) /\ ProbeOf(drv) \in Seq(Item) /\ Len(ProbeOf(drv)) \in Nat
      BY <1>0, ProbeShapes DEF ProbeShape, ProbeSteps, Typed
    <3>2. k \in 1 .. Len(ProbeOf(drv)) /\ x = ProbeOf(drv)[k]
      BY <2>2, <3>1, <1>2, LeftSteps DEF Going
    <3>3. QED  BY <3>1, <3>2 DEF ProbeSteps, Takes
  <2>3. QED  BY <1>0, <1>1, <2>1, <2>2 DEF Stages, Undoing, Removing
<1>4. busy' \in {busy, 0}
  <2>1. CASE Counter("core")
    BY <2>1, <1>3 DEF Counter, Doing
  <2>2. CASE ~Counter("core")
    BY <2>2 DEF Run, Taken, Missed, Refused, Found, Given, Permitted
  <2>3. QED  BY <2>1, <2>2
<1>5. QED  BY <1>3, <1>4, <1>e

(* Nor do they change anything while nobody is there.                      *)
LEMMA CoreDue ==
  ASSUME Inv, Load, Quiet, Due, Calm', ~hist'.denied,
         Insmod \/ Probed \/ Rmmod \/ Removed \/ Run("core")
  PROVE  Due'
<1>0. Typed /\ Places /\ "core" \in Threads
  BY Core DEF Inv
<1>l. Later
  BY <1>0, CallLater, RunLater
<1>c. Calm /\ ~hist.denied /\ drv \in Files
  BY <1>l, CalmBefore DEF Later
<1>w. drv' = drv /\ AskedOf(drv)' = AskedOf(drv)
  BY <1>l, Widens DEF Later
<1>1. \A p \in Programs : at[p] = "closed" /\ at'[p] = "closed"
  BY CoreAlone
<1>2. busy = 0 /\ \A r \in AskedOf(drv) \ {"map"} : ~ref[r] /\ live[r] = 0
  BY <1>1, <1>c DEF Due, Single, Holds, Owes
<1>3. \A r \in AskedOf(drv) \ {"map"} : r \in Resources /\ r \notin Devm
  BY <1>c, AskedIs DEF Wanted, Resources, Devm
<1>4. busy' = 0 /\ \A r \in AskedOf(drv) \ {"map"} : ~ref'[r] /\ live'[r] = 0
  <2>1. CASE Insmod
    BY <2>1, <1>2, <1>3 DEF Insmod
  <2>2. CASE Probed
    BY <2>2, <1>2, <1>3 DEF Probed, Unbound
  <2>3. CASE Rmmod
    BY <2>3, <1>2 DEF Rmmod
  <2>4. CASE Removed
    BY <2>4, <1>2, <1>3 DEF Removed, Unbound
  <2>5. CASE Run("core")
    BY <2>5, <1>2, <1>3, CoreAway
  <2>6. QED  BY <2>1, <2>2, <2>3, <2>4, <2>5
<1>5. QED  BY <1>1, <1>4, <1>w DEF Due, Single, Ringless

(* An open that begins finds no ring: who has one would be disturbed.      *)
LEMMA CallOpenDue ==
  ASSUME Inv, Quiet, Due, Calm', ~hist'.denied, NEW p \in Programs, CallOpen(p)
  PROVE  Due'
<1>0. Typed /\ Places /\ p \in Threads /\ "opening" \in Spots
  BY Core DEF Inv, Spots
<1>l. Later
  BY <1>0, CallLater
<1>c. Calm /\ ~hist.denied /\ drv \in Files /\ ~hist'.mess
  BY <1>l, CalmBefore DEF Later
<1>w. drv' = drv /\ AskedOf(drv)' = AskedOf(drv)
  BY <1>l, Widens DEF Later
<1> DEFINE others == {q \in Programs \ {p} : Disturbs(q)}
           clash  == \/ others # {} \/ at["core"] \in {"probing", "removing"}
                     \/ \E q \in Programs \ {p} : at[q] # "closed" /\ q \in hist.mixed
           ps     == others \cup (IF clash THEN {p} ELSE {})
<1>1. /\ at[p] = "closed" /\ Enter(p, "opening", OpenOf(drv))
      /\ hist' = [Mix(ps) EXCEPT !.calls = @ + 1]
      /\ live' = live /\ ref' = ref /\ busy' = busy
  BY DEF CallOpen, OpenOf
<1>2. \A q \in Programs \ {p} : Disturbs(q) => q \in ps
  OBVIOUS
<1> HIDE DEF others, clash, ps
<1>3. ps = {}
  <2>1. [Mix(ps) EXCEPT !.calls = @ + 1] = [Mix(ps) EXCEPT !.calls = hist.calls + 1]
    BY <1>0 DEF Mix, Typed, Fields
  <2>2. hist'.mess = (hist.mess \/ ps # {})
    BY <1>0, <1>1, <2>1, MixLater
  <2>3. QED  BY <2>2, <1>c
<1>4. /\ at'[p] = "opening" /\ ~bad'[p]
      /\ \A q \in Programs \ {p} : at'[q] = at[q] /\ todo'[q] = todo[q] /\ bad'[q] = bad[q]
  BY <1>0, <1>1, EnterIs, Core
<1>5. "buffer" \in AskedOf(drv) => ~ref["buffer"]
  <2>1. ASSUME "buffer" \in AskedOf(drv), ref["buffer"]
        PROVE  FALSE
    <3>1. PICK q \in Programs : Owes(q, "buffer")
      BY <2>1, <1>c DEF Due
    <3>2. q # p /\ at[q] \in {"opening", "open", "closing"}
      BY <3>1, <1>1 DEF Owes
    <3>3. ResetsOf(drv)
      <4>1. drv \notin {"mmio", "rpadc"}
        BY <2>1, Asking
      <4>2. QED  BY <4>1, <1>c, Asking DEF Calm, Keepers
    <3>4. Disturbs(q)
      BY <3>2, <3>3, DisturbsIs
    <3>5. QED  BY <3>2, <3>4, <1>2, <1>3
  <2>2. QED  BY <2>1
<1>6. busy' # 0 => \E q \in Programs : Holds(q)'
  <2>1. \A q \in Programs : Holds(q) => q # p /\ Holds(q)'
    BY <1>1, <1>4, <1>w DEF Holds
  <2>2. QED  BY <2>1, <1>1, <1>c DEF Due
<1>7. Single'
  BY <1>1, <1>c, <1>w DEF Due, Single
<1>8. \A r \in AskedOf(drv)' \ {"map"} : ref'[r] => \E q \in Programs : Owes(q, r)'
  BY <1>4 DEF Owes
<1>9. Ringless'
  BY <1>1, <1>5, <1>w DEF Ringless
<1>10. QED  BY <1>6, <1>7, <1>8, <1>9 DEF Due

(* A close that begins owes everything that is taken.                      *)
LEMMA CallCloseDue ==
  ASSUME Inv, Quiet, Due, Calm', ~hist'.denied, NEW p \in Programs, CallClose(p)
  PROVE  Due'
<1>0. Typed /\ Places /\ p \in Threads /\ "closing" \in Spots
  BY Core DEF Inv, Spots
<1>l. Later
  BY <1>0, CallLater
<1>c. Calm /\ ~hist.denied
  BY <1>l, CalmBefore DEF Later
<1>w. drv' = drv /\ AskedOf(drv)' = AskedOf(drv)
  BY <1>l, Widens DEF Later
<1>1. Enter(p, "closing", RelOf(drv)) /\ live' = live /\ ref' = ref /\ busy' = busy
  BY DEF CallClose, RelOf
<1>2. at'[p] = "closing" /\ todo'[p] = RelOf(drv)
  BY <1>0, <1>1, EnterIs
<1>3. \A q \in Programs \ {p} : at'[q] = "closed"
  BY <1>2, CallCloseQuiet DEF Quiet
<1>4. Holds(p)' /\ \A r : Owes(p, r)'
  BY <1>2, <1>w DEF Holds, Owes
<1>5. Single'
  BY <1>1, <1>c, <1>w DEF Due, Single
<1>6. Ringless'
  BY <1>2, <1>3 DEF Ringless
<1>7. QED  BY <1>4, <1>5, <1>6 DEF Due

(* One that returns owes nothing any more, or has the device open.         *)
LEMMA ReturnDue ==
  ASSUME Inv, Quiet, Due, Calm', ~hist'.denied, NEW p \in Programs, Return(p)
  PROVE  Due'
<1>0. Typed /\ Places /\ p \in Threads
  BY Core DEF Inv
<1>l. Later
  BY <1>0, CallLater
<1>c. Calm /\ ~hist.denied /\ drv \in Files
  BY <1>l, CalmBefore DEF Later
<1>w. drv' = drv /\ AskedOf(drv)' = AskedOf(drv)
  BY <1>l, Widens DEF Later
<1> DEFINE to == IF at[p] = "opening" /\ ~bad[p] THEN "open" ELSE "closed"
<1>1. /\ at[p] \in {"opening", "closing"} /\ todo[p] = <<>> /\ at' = [at EXCEPT ![p] = to]
      /\ bad' = [bad EXCEPT ![p] = FALSE] /\ todo' = todo
      /\ live' = live /\ ref' = ref /\ busy' = busy
  BY DEF Return
<1>2. /\ at'[p] = to
      /\ \A q \in Programs \ {p} : at'[q] = at[q] /\ todo'[q] = todo[q] /\ bad'[q] = bad[q]
  BY <1>0, <1>1, Core DEF Typed
<1>3. RelOf(drv) # <<>> /\ Puts(<<>>) = {}
  BY <1>c, ReleaseShape DEF Puts
<1>4. \A q \in Programs : Holds(q) => Holds(q)'
  <2>1. ASSUME NEW q \in Programs, Holds(q)
        PROVE  Holds(q)'
    <3>1. CASE q = p
      BY <2>1, <3>1, <1>1, <1>2, <1>3 DEF Holds
    <3>2. CASE q # p
      BY <2>1, <3>2, <1>2, <1>w DEF Holds
    <3>3. QED  BY <3>1, <3>2
  <2>2. QED  BY <2>1
<1>5. \A r : \A q \in Programs : Owes(q, r) => Owes(q, r)'
  <2>1. ASSUME NEW r, NEW q \in Programs, Owes(q, r)
        PROVE  Owes(q, r)'
    <3>1. CASE q = p
      BY <2>1, <3>1, <1>1, <1>2, <1>3 DEF Owes
    <3>2. CASE q # p
      BY <2>1, <3>2, <1>2, <1>w DEF Owes
    <3>3. QED  BY <3>1, <3>2
  <2>2. QED  BY <2>1
<1>6. Single'
  BY <1>1, <1>c, <1>w DEF Due, Single
<1>7. Ringless'
  BY <1>1, <1>2, <1>c, <1>w DEF Due, Ringless
<1>8. QED  BY <1>1, <1>4, <1>5, <1>6, <1>7, <1>c, <1>w DEF Due

(* The last one leaving gives back one thing after the other.              *)
LEMMA ClosingDue ==
  ASSUME Inv, Load, Quiet, Due, Calm', ~hist'.denied, NEW p \in Programs, Run(p), at[p] = "closing"
  PROVE  Due'
<1>0. Typed /\ Places /\ p \in Threads /\ DOMAIN live = Resources
  BY Core DEF Inv, Load, Kept
<1>l. Later
  BY <1>0, RunLater
<1>c. Calm /\ ~hist.denied /\ drv \in Files
  BY <1>l, CalmBefore DEF Later
<1>w. drv' = drv /\ AskedOf(drv)' = AskedOf(drv)
  BY <1>l, Widens DEF Later
<1> DEFINE x == Head(todo[p])
           A == AskedOf(drv) \ {"map"}
<1>1. at' = at /\ todo[p] # <<>>
  BY <1>0, RunFrame
<1>2. Ends(p) /\ \A q \in Programs \ {p} : at[q] = "closed"
  BY <1>c DEF Quiet
<1>3. \A r \in A : live[r] = IF ref[r] THEN 1 ELSE 0
  BY <1>c DEF Due, Single
<1>4. A \subseteq Resources
  BY <1>c, AskedIs DEF Wanted, Resources
<1>5. Ringless'
  BY <1>1, <1>2 DEF Ringless
<1>6. CASE todo[p] = RelOf(drv) /\ busy = 1 /\ Safe(AskedOf(drv))
  <2>1. x = Drop /\ Puts(Tail(todo[p])) = AskedOf(drv)
    BY <1>6, <1>c, ReleaseShape
  <2>2. x.do = "drop"
    BY <2>1 DEF Drop, Step
  <2>3. Counter(p)
    BY <2>2, <1>0, RunWhich DEF Permitted, Doing
  <2>4. busy' = busy - 1 /\ Advance(p) /\ ref' = ref /\ live' = live
    BY <2>2, <2>3, <1>6 DEF Counter, Doing
  <2>5. todo'[p] = Tail(todo[p])
    BY <2>4, <1>0, LeftAfter
  <2>6. busy' = 0
    BY <2>4, <1>6
  <2>7. \A r \in AskedOf(drv) : Owes(p, r)'
    BY <2>1, <2>5, <1>1 DEF Owes
  <2>8. Single'
    BY <2>4, <1>3, <1>w DEF Single
  <2>9. QED  BY <2>6, <2>7, <2>8, <1>5, <1>w DEF Due
<1>7. CASE Orderly(todo[p]) /\ Safe(Puts(todo[p])) /\ busy = 0
  <2>1. /\ x.do = "put" /\ x.what \in Resources /\ x.what \in Puts(todo[p])
        /\ Orderly(Tail(todo[p])) /\ Puts(Tail(todo[p])) = Puts(todo[p]) \ {x.what}
    BY <1>7, <1>1, PutSteps
  <2>2. Given(p)
    BY <2>1, <1>0, RunWhich
  <2>3. todo'[p] = Tail(todo[p]) /\ busy' = busy
    BY <2>2, <1>0, LeftAfter DEF Given
  <2>4. \A r \in Resources \ {x.what} : ref'[r] = ref[r] /\ live'[r] = live[r]
    BY <1>0, RunEffect
  <2>5. /\ ref' = [ref EXCEPT ![x.what] = FALSE]
        /\ live' = [live EXCEPT ![x.what] = IF ref[x.what] THEN @ - 1 ELSE @]
    BY <2>2 DEF Given
  <2>6. ~ref'[x.what] /\ live'[x.what] = (IF ref[x.what] THEN live[x.what] - 1 ELSE live[x.what])
    BY <2>1, <2>5, <1>0 DEF Typed
  <2>7. x.what \in A => live'[x.what] = 0
    BY <2>6, <1>3
  <2>8. \A r \in A : live'[r] = IF ref'[r] THEN 1 ELSE 0
    BY <2>4, <2>6, <2>7, <1>3, <1>4
  <2>9. Single'
    BY <2>8, <1>w DEF Single
  <2>10. ASSUME NEW r \in A, ref'[r]
         PROVE  Owes(p, r)'
    <3>1. r # x.what /\ ref[r]
      BY <2>10, <2>4, <2>6, <1>4
    <3>2. PICK q \in Programs : Owes(q, r)
      BY <3>1, <1>c DEF Due
    <3>3. q = p
      BY <3>2, <1>2 DEF Owes
    <3>4. todo[p] # RelOf(drv)
      BY <2>1, <1>c, ReleaseShape DEF Drop, Step
    <3>5. r \in Puts(todo'[p])
      BY <2>1, <2>3, <3>1, <3>2, <3>3, <3>4 DEF Owes
    <3>6. QED  BY <3>5, <1>1 DEF Owes
  <2>11. busy' = 0
    BY <2>3, <1>7
  <2>12. QED  BY <2>9, <2>10, <2>11, <1>5, <1>w DEF Due
<1>8. QED  BY <1>2, <1>6, <1>7 DEF Ends

(* An open's request takes one where there was none, or changes nothing.   *)
LEMMA TryOne ==
  ASSUME Inv, Load, Due, Calm, ~hist.denied, NEW p \in Programs, Run(p), at[p] = "opening",
         Head(todo[p]).do = "try", Head(todo[p]).what \in AskedOf(drv) \ {"map"},
         Head(todo[p]).what = "buffer" => ~ref["buffer"]
  PROVE  LET r == Head(todo[p]).what
         IN  live'[r] = IF ref'[r] THEN 1 ELSE 0
<1> DEFINE r == Head(todo[p]).what
<1>0. Typed /\ p \in Threads /\ DOMAIN live = Resources
  BY Core DEF Inv, Load, Kept
<1>1. live[r] = (IF ref[r] THEN 1 ELSE 0) /\ r \in Resources /\ r \in {"irq", "buffer"}
  <2>1. drv \in Files
    BY Asking DEF Calm
  <2>2. r \in Wanted
    BY <2>1, AskedIs
  <2>3. QED  BY <2>2 DEF Due, Single, Wanted, Resources
<1>2. CASE Taken(p)
  <2>1. live[r] = 0
    BY <1>1, <1>2 DEF Taken, Unique
  <2>2. live' = [live EXCEPT ![r] = @ + 1] /\ ref' = [ref EXCEPT ![r] = TRUE]
    BY <1>2 DEF Taken
  <2>3. live'[r] = live[r] + 1 /\ ref'[r]
    BY <2>2, <1>0, <1>1 DEF Typed
  <2>4. QED  BY <2>1, <2>3
<1>3. CASE Missed(p)
  <2>1. live' = live /\ ref' = [ref EXCEPT ![r] = @ /\ ~(r # "irq" \/ ~ref[r])]
    BY <1>3 DEF Missed
  <2>2. ref'[r] = (ref[r] /\ r = "irq")
    BY <2>1, <1>0, <1>1 DEF Typed
  <2>3. ref'[r] <=> ref[r]
    BY <2>2, <1>1
  <2>4. QED  BY <2>1, <2>3, <1>1
<1>4. QED  BY <1>0, <1>2, <1>3, RunWhich

(* While a program opens the device nobody else comes or goes.             *)
LEMMA OpeningAlone ==
  ASSUME Inv, Quiet, Calm, NEW p \in Programs, at[p] = "opening"
  PROVE  \A q \in Programs \ {p} : at[q] \in {"closed", "open"}
<1>1. p \in Programs \ hist.mixed /\ \A q \in Programs : at[q] # "orphan"
  BY DEF Quiet
<1>2. \A q \in Programs \ {p} : Idle(at[q]) \/ at[q] = "open"
  BY <1>1 DEF Inv, Apart
<1>3. QED  BY <1>1, <1>2 DEF Idle

(* Steps of an open that goes on.                                          *)
LEMMA GoesDue ==
  ASSUME Inv, Load, Quiet, Due, Calm', ~hist'.denied, NEW p \in Programs, Run(p), at[p] = "opening",
         NEW k \in 1 .. Len(OpenOf(drv)), todo[p] = RestOf(drv, k), ~bad[p], Goes(p, k)
  PROVE  Due'
<1>0. Typed /\ Places /\ p \in Threads /\ DOMAIN live = Resources
  BY Core DEF Inv, Load, Kept
<1>l. Later
  BY <1>0, RunLater
<1>c. Calm /\ ~hist.denied /\ drv \in Files
  BY <1>l, CalmBefore DEF Later
<1>w. drv' = drv /\ AskedOf(drv)' = AskedOf(drv)
  BY <1>l, Widens DEF Later
<1> DEFINE x == Head(todo[p])
           n == Len(OpenOf(drv))
           T == TestOf(drv)
           A == AskedOf(drv) \ {"map"}
<1>s. Shape(OpenOf(drv), T)
  BY <1>c, OpenShape
<1>n. n \in Nat /\ T \in Nat \ {0} /\ T < n /\ k \in Nat
  BY <1>s DEF Shape
<1>1. at' = at /\ \A q \in Programs \ {p} : todo'[q] = todo[q] /\ bad'[q] = bad[q]
  BY <1>0, RunFrame, Core
<1>2. ~bad'[p] /\ todo'[p] = RestOf(drv, k + 1)
  BY DEF Goes
<1>3. x = OpenOf(drv)[k]
  BY <1>c, <1>n, RestSteps
<1>4. \A q \in Programs \ {p} : at[q] \in {"closed", "open"}
  BY <1>c, OpeningAlone
<1>k. /\ \A j \in 1 .. n + 1 : RestOf(drv, j) = RestOf(drv, k) => j = k
      /\ \A j \in 1 .. n + 1 : RestOf(drv, j) = RestOf(drv, k + 1) => j = k + 1
  <2>1. k \in 1 .. n + 1 /\ k + 1 \in 1 .. n + 1
    BY <1>n
  <2>2. QED  BY <2>1, <1>c, RestSteps
<1>e. /\ \A r \in Resources \ {x.what} : ref'[r] = ref[r] /\ live'[r] = live[r]
      /\ x.do \notin {"get", "try", "chan", "put"} => ref' = ref /\ live' = live
  BY <1>0, RunEffect
<1>a. A \subseteq Resources
  BY <1>c, AskedIs DEF Wanted, Resources
<1> HIDE DEF n, T
<1>5. busy' # 0 => \E q \in Programs : Holds(q)'
  <2>1. ASSUME NEW q \in Programs \ {p}, Holds(q)
        PROVE  Holds(q)'
    BY <2>1, <1>1, <1>4 DEF Holds
  <2>2. CASE busy' = busy /\ k < T + 2
    <3>1. ~Holds(p)
      <4>1. ASSUME NEW j \in T + 2 .. n + 1, todo[p] = RestOf(drv, j)
            PROVE  FALSE
        <5>1. j \in 1 .. n + 1
          BY <4>1, <1>n
        <5>2. j = k
          BY <4>1, <5>1, <1>k
        <5>3. QED  BY <5>2, <4>1, <2>2, <1>n
      <4>2. QED  BY <4>1 DEF Holds, n, T
    <3>2. QED  BY <2>1, <2>2, <3>1, <1>c DEF Due
  <2>3. CASE k >= T + 1
    <3>1. k + 1 \in T + 2 .. n + 1
      BY <2>3, <1>n DEF n
    <3>2. Holds(p)'
      BY <3>1, <1>1, <1>2, <1>w DEF Holds, n, T
    <3>3. QED  BY <3>2
  <2>4. CASE k < T /\ OpenOf(drv)[k].do = "zero"
    <3>1. Counter(p)
      BY <2>4, <1>0, <1>3, RunWhich DEF Permitted, Doing
    <3>2. busy' = 0
      BY <2>4, <3>1, <1>3 DEF Counter, Doing
    <3>3. QED  BY <3>2
  <2>5. QED  BY <2>2, <2>3, <2>4, <1>n DEF Goes, T
<1>6. \A r \in A : ref'[r] => \E q \in Programs : Owes(q, r)'
  BY <1>1, <1>2 DEF Owes
<1>b. "buffer" \in AskedOf(drv) /\ k < T => ~ref["buffer"]
  BY <1>c, <1>n DEF Due, Ringless, T
<1>7. CASE x.do = "try"
  <2>1. /\ x.what \in AskedOf(drv) /\ (x.what = "buffer" => k = T - 1)
    BY <1>7, <1>3, <1>c, Asking DEF Calm, T
  <2>2. k < T
    <3>1. k >= T => OpenOf(drv)[k].do # "try"
      BY <1>s, <1>n DEF Shape
    <3>2. QED  BY <3>1, <1>3, <1>7, <1>n
  <2>3. x.what # "map" => live'[x.what] = IF ref'[x.what] THEN 1 ELSE 0
    <3>1. x.what = "buffer" => ~ref["buffer"]
      BY <2>1, <2>2, <1>b
    <3>2. QED  BY <3>1, <2>1, <1>7, <1>c, TryOne
  <2>4. ASSUME NEW r \in A
        PROVE  live'[r] = IF ref'[r] THEN 1 ELSE 0
    <3>1. CASE r = x.what
      BY <3>1, <2>3
    <3>2. CASE r # x.what
      <4>1. live'[r] = live[r] /\ ref'[r] = ref[r]
        BY <3>2, <1>a, <1>e
      <4>2. QED  BY <4>1, <1>c DEF Due, Single
    <3>3. QED  BY <3>1, <3>2
  <2>5. Single'
    BY <2>4, <1>w DEF Single
  <2>6. Ringless'
    <3>1. ASSUME "buffer" \in AskedOf(drv), NEW j \in 1 .. T - 1, todo'[p] = RestOf(drv, j)
          PROVE  ~ref'["buffer"]
      <4>1. j \in 1 .. n + 1
        BY <1>n
      <4>2. j = k + 1
        BY <3>1, <4>1, <1>2, <1>k
      <4>3. x.what # "buffer"
        BY <2>1, <4>2, <1>n
      <4>4. QED  BY <4>3, <3>1, <2>2, <1>a, <1>b, <1>e
    <3>2. QED  BY <3>1, <1>1, <1>4, <1>w DEF Ringless, T
  <2>7. QED  BY <2>5, <2>6, <1>5, <1>6, <1>w DEF Due
<1>8. CASE x.do # "try"
  <2>1. ref' = ref /\ live' = live
    <3>1. x.do \notin {"get", "chan", "put"}
      BY <1>3 DEF Goes
    <3>2. QED  BY <3>1, <1>8, <1>e
  <2>2. Single'
    BY <2>1, <1>c, <1>w DEF Due, Single
  <2>3. Ringless'
    <3>1. ASSUME "buffer" \in AskedOf(drv), NEW j \in 1 .. T - 1, todo'[p] = RestOf(drv, j)
          PROVE  ~ref'["buffer"]
      <4>1. j \in 1 .. n + 1
        BY <1>n
      <4>2. j = k + 1
        BY <3>1, <4>1, <1>2, <1>k
      <4>3. QED  BY <4>2, <3>1, <2>1, <1>n, <1>b
    <3>2. QED  BY <3>1, <1>1, <1>4, <1>w DEF Ringless, T
  <2>4. QED  BY <2>2, <2>3, <1>5, <1>6, <1>w DEF Due
<1>9. QED  BY <1>7, <1>8

(* An open that fails leaves everything to the one that has the device.    *)
LEMMA FailsDue ==
  ASSUME Inv, Load, Quiet, Due, Calm', ~hist'.denied, NEW p \in Programs, Run(p), at[p] = "opening",
         NEW k \in 1 .. Len(OpenOf(drv)), todo[p] = RestOf(drv, k), ~bad[p], Fails(p, k)
  PROVE  Due'
<1>0. Typed /\ Places /\ p \in Threads /\ DOMAIN live = Resources
  BY Core DEF Inv, Load, Kept
<1>l. Later
  BY <1>0, RunLater
<1>c. Calm /\ ~hist.denied /\ drv \in Files
  BY <1>l, CalmBefore DEF Later
<1>w. drv' = drv /\ AskedOf(drv)' = AskedOf(drv)
  BY <1>l, Widens DEF Later
<1> DEFINE x == Head(todo[p])
           n == Len(OpenOf(drv))
           T == TestOf(drv)
<1>n. n \in Nat /\ T \in Nat \ {0} /\ T < n /\ k \in Nat
  BY <1>c, OpenShape DEF Shape
<1>1. at' = at /\ \A q \in Programs \ {p} : todo'[q] = todo[q] /\ bad'[q] = bad[q]
  BY <1>0, RunFrame, Core
<1>2. x = OpenOf(drv)[k]
  BY <1>c, <1>n, RestSteps
<1>3. \A q \in Programs \ {p} : at[q] \in {"closed", "open"}
  BY <1>c, OpeningAlone
<1>k. \A j \in 1 .. n + 1 : RestOf(drv, j) = RestOf(drv, k) => j = k
  <2>1. k \in 1 .. n + 1
    BY <1>n
  <2>2. QED  BY <2>1, <1>c, RestSteps
<1> HIDE DEF n, T
<1>4. x.do # "perm"
  <2>1. ASSUME x.do = "perm"
        PROVE  FALSE
    <3>1. Permitted(p)
      BY <2>1, <1>0, RunWhich DEF Counter, Doing
    <3>2. hist' = [hist EXCEPT !.denied = TRUE] \/ bad' = bad
      BY <3>1 DEF Permitted
    <3>3. bad'[p]
      BY DEF Fails
    <3>4. hist' = [hist EXCEPT !.denied = TRUE]
      BY <3>2, <3>3
    <3>5. hist'.denied
      BY <3>4, <1>0 DEF Typed, Fields
    <3>6. QED  BY <3>5
  <2>2. QED  BY <2>1
<1>5. k = T /\ x.do = "test"
  BY <1>2, <1>4 DEF Fails, T
<1>6. ref' = ref /\ live' = live /\ busy' = busy /\ bad'[p]
  <2>1. ref' = ref /\ live' = live
    BY <1>0, <1>5, RunEffect
  <2>2. QED  BY <2>1 DEF Fails
<1>7. busy # 0
  <2>1. Counter(p)
    BY <1>0, <1>5, RunWhich DEF Permitted, Doing
  <2>2. busy # 0 \/ bad' = bad
    BY <2>1, <1>5 DEF Counter, Doing
  <2>3. QED  BY <2>2, <1>6
<1>8. PICK q \in Programs : Holds(q)
  BY <1>7, <1>c DEF Due
<1>9. q # p
  <2>1. ASSUME NEW j \in T + 2 .. n + 1, todo[p] = RestOf(drv, j)
        PROVE  FALSE
    <3>1. j \in 1 .. n + 1
      BY <2>1, <1>n
    <3>2. j = k
      BY <2>1, <3>1, <1>k
    <3>3. QED  BY <3>2, <2>1, <1>5, <1>n
  <2>2. QED  BY <1>8, <2>1 DEF Holds, n, T
<1>10. at[q] = "open"
  BY <1>3, <1>8, <1>9 DEF Holds
<1>11. Holds(q)' /\ \A r : Owes(q, r)'
  BY <1>1, <1>10 DEF Holds, Owes
<1>12. Single'
  BY <1>6, <1>c, <1>w DEF Due, Single
<1>13. Ringless'
  BY <1>1, <1>3, <1>6 DEF Ringless
<1>14. QED  BY <1>11, <1>12, <1>13 DEF Due

(* It is so at first.                                                      *)
LEMMA InitDue == Init => Due
<1> SUFFICES ASSUME Init, Calm PROVE Due
  BY DEF Due
<1>1. drv \in Files
  BY Asking DEF Calm
<1>2. busy = 0 /\ \A p \in Programs : at[p] = "closed"
  BY Core DEF Init
<1>3. \A r \in AskedOf(drv) : r \in Resources
  BY <1>1, AskedIs DEF Wanted, Resources
<1>4. \A r \in AskedOf(drv) : ~ref[r] /\ live[r] = 0
  BY <1>3 DEF Init
<1>5. QED  BY <1>2, <1>4 DEF Due, Single, Ringless

(* Every step keeps it.                                                    *)
LEMMA NextDue ==
  ASSUME Inv, Load, Quiet, Due, [Next]_vars
  PROVE  Due'
<1>1. CASE ~(Calm' /\ ~hist'.denied)
  BY <1>1 DEF Due
<1>2. CASE Calm' /\ ~hist'.denied
  <2>1. CASE UNCHANGED vars
    BY <2>1 DEF vars, Due, Calm, Holds, Owes, Single, Ringless
  <2>2. ASSUME NEW p \in Programs, Run(p)
        PROVE  Due'
    <3>1. Typed /\ Places /\ p \in Threads
      BY Core DEF Inv
    <3>2. at[p] \in {"opening", "closing"}
      BY <2>2, <3>1, RunFrame DEF Places
    <3>3. CASE at[p] = "opening"
      <4>1. ~bad[p] /\ \E k \in 1 .. Len(OpenOf(drv)) : todo[p] = RestOf(drv, k) /\ (Goes(p, k) \/ Fails(p, k))
        BY <2>2, <3>1, <3>3, OpenStep
      <4>2. QED  BY <4>1, <2>2, <3>3, <1>2, GoesDue, FailsDue
    <3>4. CASE at[p] = "closing"
      BY <2>2, <3>4, <1>2, ClosingDue
    <3>5. QED  BY <3>2, <3>3, <3>4
  <2>3. ASSUME NEW t \in Threads, Run(t)
        PROVE  Due'
    BY <2>2, <2>3, <1>2, CoreDue DEF Threads
  <2>4. QED  BY <2>1, <2>3, <1>2, CoreDue, CallOpenDue, CallCloseDue, ReturnDue DEF Next
<1>3. QED  BY <1>1, <1>2

-----------------------------------------------------------------------------
(* Nothing is given back that is not held; the theorem                     *)

(* Only what is held is given back.                                        *)
Tidy == hist.stray \subseteq Excused

(* Nothing is given back at first.                                         *)
LEMMA InitTidy == Init => Tidy
  BY DEF Init, Tidy

(* A step that gives something back finds it held, or it is excused.       *)
LEMMA NextTidy ==
  ASSUME Inv, Load, Quiet, Tidy, [Next]_vars
  PROVE  Tidy'
<1>0. Typed /\ Places /\ Stages /\ Kept /\ Closings
  BY DEF Inv, Load
<1>1. ASSUME Later, hist'.stray = hist.stray
      PROVE  Tidy'
  BY <1>1, Widens DEF Tidy
<1>2. CASE UNCHANGED vars
  BY <1>1, <1>2 DEF vars, Later
<1>3. ASSUME \/ Insmod \/ Probed \/ Rmmod \/ Removed
             \/ \E p \in Programs : CallOpen(p) \/ CallClose(p) \/ Return(p)
      PROVE  Tidy'
  BY <1>0, <1>1, <1>3, CallLater
<1>4. ASSUME NEW t \in Threads, Run(t)
      PROVE  Tidy'
  <2> DEFINE x == Head(todo[t])
  <2>l. Later /\ (~Given(t) => hist'.stray = hist.stray)
    BY <1>0, <1>4, RunLater
  <2>1. CASE ~Given(t)
    BY <2>1, <2>l, <1>1
  <2>2. CASE Given(t)
    <3>1. ref[x.what] \/ x.what \in Excused
      <4>1. CASE t = "core"
        <5>1. at["core"] \in {"probing", "removing"}
          BY <4>1, <1>0, <1>4, CoreStep
        <5>2. CASE \E k \in 1 .. Len(ProbeOf(drv)) + 1 : at["core"] = "probing" /\ Going(k)
          BY <5>2, <4>1, <2>2, <1>0, <1>4, CoreProbes
        <5>3. CASE Undoing \/ Removing
          BY <5>1, <5>3, <4>1, <1>0, <1>4, CoreGives DEF Undoing, Removing
        <5>4. QED  BY <5>1, <5>2, <5>3, <1>0 DEF Stages
      <4>2. CASE t \in Programs
        <5>1. todo[t] # <<>> /\ x.do = "put"
          BY <2>2 DEF Given, Doing
        <5>2. at[t] \in {"opening", "closing"}
          BY <4>2, <5>1, <1>0 DEF Places
        <5>3. at[t] = "closing" /\ drv \in Files
          BY <4>2, <5>1, <5>2, <1>0, <1>4, ProgramRun DEF Kept
        <5>4. todo[t] # RelOf(drv)
          BY <5>1, <5>3, ReleaseShape DEF Drop, Step
        <5>5. x.what \in Resources /\ x.what \in Puts(todo[t]) /\ x.what \in AskedOf(drv)
          BY <4>2, <5>1, <5>3, <5>4, <1>0, PutSteps DEF Closings
        <5>6. CASE hist.mess
          BY <5>5, <5>6 DEF Excused
        <5>7. CASE ~hist.mess
          <6>1. Calm
            BY <5>3, <5>5, <5>7, Asking DEF Calm
          <6>2. Ends(t)
            BY <6>1, <4>2, <5>3 DEF Quiet
          <6>3. Safe(Puts(todo[t]))
            BY <6>2, <5>4 DEF Ends
          <6>4. QED  BY <6>3, <5>5 DEF Safe
        <5>8. QED  BY <5>6, <5>7
      <4>3. QED  BY <4>1, <4>2 DEF Threads
    <3>2. hist' = [hist EXCEPT !.stray = IF ref[x.what] THEN @ ELSE @ \cup {x.what}]
      BY <2>2 DEF Given
    <3>3. hist'.stray = IF ref[x.what] THEN hist.stray ELSE hist.stray \cup {x.what}
      BY <3>2, <1>0 DEF Typed, Fields
    <3>4. hist'.stray \subseteq Excused
      BY <3>1, <3>3 DEF Tidy
    <3>5. QED  BY <3>4, <2>l, Widens DEF Tidy
  <2>3. QED  BY <2>1, <2>2
<1>5. QED  BY <1>2, <1>3, <1>4 DEF Next

(* The whole of it, and what it says once everything is over.              *)
Whole == Inv /\ Load /\ Quiet /\ Due /\ Tidy

(* It holds at first.                                                      *)
LEMMA InitWhole == Init => Whole
  BY InitInv, InitLoad, InitQuiet, InitDue, InitTidy DEF Whole

(* Every step keeps it.                                                    *)
LEMMA NextWhole == Whole /\ [Next]_vars => Whole'
  BY NextInv, NextLoad, NextQuiet, NextDue, NextTidy DEF Whole

(* Once the loader is done, what is not held is not taken.                 *)
LEMMA WholeGiven == Whole => GivenBack
<1> SUFFICES ASSUME Whole, ~Gone,
                    at["core"] = "out" \/ (drv = "xadc" /\ at["core"] = "failed"),
                    NEW r \in Resources \ Leaked
             PROVE  live[r] = 0
  BY DEF Whole, Tidy, GivenBack, Gone
<1>0. Typed /\ Kept /\ Stages /\ Quiet /\ Due
  BY DEF Whole, Inv, Load
<1>1. CASE at["core"] = "out"
  <2>1. CASE r \in Mine
    BY <1>0, <1>1, <2>1 DEF Kept
  <2>2. CASE r = "map"
    BY <1>0, <1>1, <2>2 DEF Kept
  <2>3. CASE r \in AskedOf(drv) \ {"map"}
    <3>1. drv \in Keepers
      BY <2>3, <1>0, Asking DEF Typed
    <3>2. r \in {"irq", "buffer"}
      BY <2>3, <3>1, Asking, AskedIs DEF Wanted
    <3>3. Calm /\ ~hist.denied
      BY <3>1, <3>2 DEF Leaked, Calm
    <3>4. \A p \in Programs : at[p] = "closed"
      BY <3>3, <1>0, <1>1 DEF Quiet
    <3>5. ~ref[r]
      BY <3>3, <3>4, <2>3, <1>0 DEF Due, Owes
    <3>6. QED  BY <3>3, <3>5, <2>3, <1>0 DEF Due, Single
  <2>4. QED  BY <2>1, <2>2, <2>3 DEF Mine
<1>2. CASE drv = "xadc" /\ at["core"] = "failed"
  <2>1. r \in Mine
    BY <1>2, AskedIs DEF Mine
  <2>2. ~ref[r]
    BY <2>1, <1>0, <1>2 DEF Stages, Covered
  <2>3. QED  BY <2>1, <2>2, <1>0, <1>2 DEF Kept
<1>3. QED  BY <1>1, <1>2

(* Once a module is removed, whatever its functions, the programs' calls   *)
(* and the kernel's refusals did meanwhile, all it has taken is given      *)
(* back, but for what Leaked names and for drivers of which a probe failed *)
(* half-way (the XADC's undoes what it did); and nothing was given back    *)
(* that it did not hold, but for what Excused names.                       *)
THEOREM AllIsGivenBack == Spec => []GivenBack
<1>1. QED  BY InitWhole, NextWhole, WholeGiven, PTL DEF Spec
===============================================================================
