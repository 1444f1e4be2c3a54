----------------------------- MODULE MCParsers -----------------------------
(***************************************************************************)
(* Model checking of the two parsers, ConfigParser and HidReport, over all *)
(* short configurations and over report maps made of the usual parts, byte *)
(* by byte.  A behaviour is about one of them; the other has next to       *)
(* nothing to do.                                                          *)
(***************************************************************************)
EXTENDS ConfigParser, Integers, SequencesExt, FiniteSetsExt

CONSTANTS
    MaxDescriptors,     \* bound: descriptors after the configuration's own
    MaxParts,           \* bound: Input items of a map
    Maps                \* the report maps

VARIABLES map, i, usage_page_item, report_size, report_count, set_x, set_wheel, report_bits, mouse

mapVars == <<map, i, usage_page_item, report_size, report_count, set_x, set_wheel, report_bits, mouse>>

H == INSTANCE HidReport WITH Maps <- Seq(0 .. 255)

ASSUME MapsAssumption == Maps \subseteq Seq(0 .. 255)

-----------------------------------------------------------------------------
(* Configurations *)

Descriptor(type) == [type |-> type, class |-> "none", dir |-> 0, empty |-> FALSE]

Descriptors ==
    {Descriptor(t) : t \in {"DEVICE", "STRING", "HID", "CS_INTERFACE", "OTHER"}}
    \union {[Descriptor("OTHER") EXCEPT !.empty = TRUE]}
    \union {[Descriptor("INTERFACE") EXCEPT !.class = c] : c \in {"data", "comm"}}
    \union {[Descriptor("ENDPOINT") EXCEPT !.dir = d] : d \in {0, 1}}

Configs ==
    {<< Descriptor("CONFIG") >> \o s : s \in UNION {[1 .. n -> Descriptors] : n \in 0 .. MaxDescriptors}}

\* A device that sends its IN endpoint, and an interface of its own, first.
InFirst ==
    {<< Descriptor("CONFIG"), [Descriptor("INTERFACE") EXCEPT !.class = "data"] >> \o s :
        s \in [1 .. MaxDescriptors -> {[Descriptor("ENDPOINT") EXCEPT !.dir = d] : d \in {0, 1}}]}

Data == "data"

-----------------------------------------------------------------------------
(* Report maps *)

\* Items that the parser has no use for.
REPORT_ID == 132

LOGICAL_MAXIMUM == 36

POP == 180

Consumer == 12

\* An item as the standard writes it.
Written(type, value) == << type + (IF Len(value) = 4 THEN 3 ELSE Len(value)) >> \o value

Fields(size, count) ==
    Written(H!REPORT_SIZE, << size >>) \o Written(H!REPORT_COUNT, << count >>) \o Written(H!HIDINPUT, << 2 >>)

Part(page, usages, size, count) ==
    Written(H!USAGE_PAGE, << page >>)
        \o FlattenSeq([k \in DOMAIN usages |-> Written(H!USAGE, << usages[k] >>)]) \o Fields(size, count)

Buttons(n) == Part(H!Button, << >>, 1, n)

Y == 49

Axes(size) == Part(H!Pointer, << H!X, Y >>, size, 2)

\* Values that read like items: 32767 behind the logical maximum.
Range16 == Written(LOGICAL_MAXIMUM, << 255, 127 >>)

Wheel == Range16 \o Part(H!Pointer, << H!WHEEL >>, 8, 1)

Vendor == Part(Consumer, << >>, 8, 0)

Parts == {Buttons(3), Buttons(5), Axes(8), Axes(16), Wheel, Vendor}

\* Every part once at most, and one kind of axes.
UsualMaps ==
    {FlattenSeq(s) : s \in {t \in UNION {[1 .. n -> Parts] : n \in 1 .. MaxParts} :
                               IsInjective(t) /\ ~({Axes(8), Axes(16)} \subseteq ToSet(t))}}

\* Buttons, and one Input item for X, Y and the wheel: "3 * 8 = 24".
ThreeAxes == {Buttons(8) \o Part(H!Pointer, << H!X, Y, H!WHEEL >>, 8, 3)}

TwoAxes == {Buttons(8) \o Axes(8)}

\* A value of four bytes before the fields.
LongValue == {Written(LOGICAL_MAXIMUM, << 255, 255, 255, 127 >>) \o Buttons(8) \o Axes(8)}

-----------------------------------------------------------------------------
(* One parser or the other *)

ParsersInit ==
    /\ AtStart /\ H!NothingRead
    /\ \/ cfg \in Config /\ map = << >>
       \/ cfg = << Descriptor("CONFIG") >> /\ map \in Maps

ConfigStep == Next /\ UNCHANGED mapVars

MapStep == H!Next /\ UNCHANGED vars

\* The map of a second mouse, with what the first one's has left in the variables.
SecondMap ==
    /\ i > Len(map) /\ i' = 1 /\ map' \in Maps
    /\ UNCHANGED <<usage_page_item, report_size, report_count, set_x, set_wheel, report_bits, mouse>>
    /\ UNCHANGED vars

TwoMaps == ParsersInit /\ [][MapStep \/ SecondMap]_<<vars, mapVars>>

\* begin runs to its end.
Parsers == ParsersInit /\ [][ConfigStep \/ MapStep]_<<vars, mapVars>> /\ WF_vars(ConfigStep)

-----------------------------------------------------------------------------
(* The reference: what the searches are meant to find *)

FirstOf(S) == IF S = {} THEN 0 ELSE CHOOSE k \in S : \A l \in S : k <= l

After(k) == {l \in DOMAIN cfg : l > k}

Interface == FirstOf({k \in DOMAIN cfg : cfg[k].type = "INTERFACE" /\ cfg[k].class = Class})

\* The endpoints of an interface are those before the next interface.
EndpointsOf(itf, dir) ==
    {k \in After(itf) :
        /\ cfg[k].type = "ENDPOINT" /\ cfg[k].dir = dir
        /\ \A l \in After(itf) : cfg[l].type = "INTERFACE" => l > k}

\* The walk finds the first interface of the class, and the first IN endpoint of
\* that interface if it has one; descriptors that the parser does not know are
\* stepped over.
FindsFirst ==
    stage = "done" =>
        /\ found.itf = Interface
        /\ found.itf # 0 /\ EndpointsOf(found.itf, 1) # {}
               => found.in = FirstOf(EndpointsOf(found.itf, 1))

\* A descriptor that the loops neither take nor step over.
StopsAt(k) == k \in DOMAIN cfg /\ ~Wanted(k) /\ (cfg[k].type = "DEVICE" \/ cfg[k].empty)

\* The walk comes to an end, or for good to a device descriptor or to one that says it
\* has no length (parse_cfg_descriptor): it stays at no other.
WalkEnds == <>(stage = "done" \/ StopsAt(next))

-----------------------------------------------------------------------------
(* The reference: the items of a map, by the standard of HID *)

Tag(m, k) == m[k] - (m[k] % 4)

\* The bytes of the value of an item; of an item of the long kind, which has no use yet,
\* nothing is said.
Width(m, k) == IF m[k] % 4 = 3 THEN 4 ELSE m[k] % 4

LongItem == 254

\* For each byte, how many follow it in the value that it is in.
Left(m) ==
    LET left[k \in 1 .. Len(m) + 1] ==
            IF k = 1 THEN 0
            ELSE LET before == left[k - 1] IN IF before = 0 THEN Width(m, k - 1) ELSE before - 1
    IN  left

\* Where the items begin.
Starts(m) == LET left == Left(m) IN {k \in DOMAIN m : left[k] = 0}

ValueOf(m, k) ==
    LET byte(n) == IF n <= Width(m, k) /\ k + n \in DOMAIN m THEN m[k + n] * 2^(8 * (n - 1)) ELSE 0
    IN  byte(1) + byte(2) + byte(3) + byte(4)

-----------------------------------------------------------------------------
(* The reference: the layout that a map describes *)

LastItem(m, tag, k) == Max({l \in Starts(m) : l <= k /\ Tag(m, l) = tag} \union {0})

\* What is said of the fields of the item at k, if it is said at all.
Global(m, tag, k) == ValueOf(m, LastItem(m, tag, k))

BitsOf(m, k) == Global(m, H!REPORT_SIZE, k) * Global(m, H!REPORT_COUNT, k)

Inputs(m) == {k \in Starts(m) : Tag(m, k) = H!HIDINPUT}

\* The bits of the fields that each item makes.
Length(m) == LET inputs == Inputs(m) IN [k \in 1 .. Len(m) |-> IF k \in inputs THEN BitsOf(m, k) ELSE 0]

\* The bits at which the fields of the items begin, and those behind the last one.
Layout(m) ==
    LET bits == Length(m)
        begins[k \in 1 .. Len(m) + 1] == IF k = 1 THEN 0 ELSE begins[k - 1] + bits[k - 1]
    IN  begins

BeginsAt(m, k) == Layout(m)[k]

\* The usages of the page of the pointer.
Says(m, l, usage) ==
    /\ Tag(m, l) = H!USAGE /\ ValueOf(m, l) = usage /\ l \in Starts(m)
    /\ LastItem(m, H!USAGE_PAGE, l) # 0 /\ Global(m, H!USAGE_PAGE, l) = H!Pointer

Uses(m, usage) == \E l \in DOMAIN m : Says(m, l, usage)

\* The Input item that a usage belongs to.
InputOf(m, usage) ==
    LET u == CHOOSE l \in DOMAIN m : Says(m, l, usage)
    IN  Min({k \in Inputs(m) : k > u})

Movements == {H!X, H!WHEEL}

\* The movements that the fields of the Input item at k are for.
MovementsAt(m, k) == {usage \in Movements : Uses(m, usage) /\ InputOf(m, usage) = k}

\* The Input items that the parser is made for: buttons, axes, one wheel, and what has
\* no bits.
Expected(m, k) ==
    LET page == Global(m, H!USAGE_PAGE, k) IN
    \/ page = H!Button /\ MovementsAt(m, k) = {}
    \/ page = H!Pointer /\ MovementsAt(m, k) = {H!X}
    \/ page = H!Pointer /\ MovementsAt(m, k) = {H!WHEEL} /\ Global(m, H!REPORT_COUNT, k) = 1
    \/ page \notin {H!Button, H!Pointer} /\ MovementsAt(m, k) = {} /\ BitsOf(m, k) = 0

\* A map of whole items that says X and the wheel once, and all there is to say of its
\* Input items, of a report that is not too long.
Described(m) ==
    /\ Left(m)[Len(m) + 1] = 0
    /\ \A usage \in Movements : \A l \in DOMAIN m : Says(m, l, usage) =>
          /\ \A n \in DOMAIN m : Says(m, n, usage) => n = l
          /\ \E k \in Inputs(m) : k > l
    /\ \A k \in Inputs(m) :
          /\ \A tag \in {H!USAGE_PAGE, H!REPORT_SIZE, H!REPORT_COUNT} : LastItem(m, tag, k) # 0
          /\ Global(m, H!REPORT_SIZE, k) < 2^8 /\ Global(m, H!REPORT_COUNT, k) < 2^8
          /\ Expected(m, k)
    /\ LET begins == Layout(m) IN \A k \in DOMAIN begins : begins[k] < 2^16

\* What the parser cannot read, and takes for something else: values of four bytes, pages
\* of two, the usages of other pages that are X or the wheel in their lowest byte, the
\* restoring of what was said before, and fields of a second report.
Readable(m) ==
    LET starts == Starts(m) IN
    \A k \in starts :
        /\ m[k] % 4 # 3 /\ m[k] # LongItem /\ Tag(m, k) # POP
        /\ Tag(m, k) = H!USAGE_PAGE => ValueOf(m, k) < 2^8
        /\ Tag(m, k) = H!USAGE => \A usage \in Movements :
              ValueOf(m, k) % 2^8 = usage => Says(m, k, usage)
        /\ Tag(m, k) = REPORT_ID => \A l \in Inputs(m) : k < l

Parsed == i > Len(map)

\* The bits are counted, and the fields found, as the map says.
FieldsInPlace ==
    /\ report_bits = BeginsAt(map, Len(map) + 1)
    /\ Uses(map, H!X) => mouse.axes.bits_start = BeginsAt(map, InputOf(map, H!X))
    /\ Uses(map, H!WHEEL) => mouse.wheel.bits_start = BeginsAt(map, InputOf(map, H!WHEEL))

\* The parser's running count of bits, kept by four different pieces of code,
\* agrees with the layout, so every field is where the mouse structure says; of maps
\* without the items that it cannot read.
LayoutAgrees == Parsed /\ Described(map) /\ Readable(map) => FieldsInPlace

Bytes == 0 .. 255

SampleBytes == {0, 1, 127, 128, 255}

Report(byte, k, b) == [byte EXCEPT ![k] = b]

\* A wheel of one byte is read as the signed byte that the mouse sent, whatever is
\* in the bytes around it.
WheelIsRead ==
    LET wheel == InputOf(map, H!WHEEL)
        at == 1 + BeginsAt(map, wheel) \div 8
    IN  /\ Parsed /\ Described(map) /\ Readable(map) /\ Uses(map, H!WHEEL)
        /\ Global(map, H!REPORT_SIZE, wheel) = 8 /\ BeginsAt(map, wheel) % 8 = 0
        => \A b \in Bytes, rest \in {0, 255} :
               H!get_wheel(Report([k \in 0 .. at + 1 |-> rest], at, b)) = H!Signed(b, 8)

-----------------------------------------------------------------------------
(* What the comments say, and the code does not do *)

\* "Enqueue send data requests on OUT endpoint pipe" (cdchost.h): the endpoint that
\* begin makes the OUT pipe of is an OUT endpoint.
OutIsOut == stage = "done" /\ found.out # 0 => cfg[found.out].dir = 0

\* "3 * 8 = 24" (get_wheel): with three values in one field, the wheel is the third.
WheelIsThird ==
    Parsed /\ Uses(map, H!WHEEL) => mouse.wheel.bits_start = BeginsAt(map, InputOf(map, H!WHEEL)) + 2 * mouse.wheel.size

\* "return NULL" (getInterfaceByClass): a search that finds nothing ends.
EveryWalkEnds == <>(stage = "done")

\* "uint32_t value" (parse_global_item): the fields are found behind values of four bytes.
LongValuesAgree == Parsed /\ Described(map) => FieldsInPlace

\* "X axis(raw bytes)" (examples/mouse, which reads the byte and leaves the call of
\* get_x_axis out): X is the signed byte at its place, whatever Y is.
XIsRead ==
    Parsed /\ Uses(map, H!X) =>
        \A x, y \in SampleBytes : H!get_x_axis([k \in 0 .. 3 |-> << 1, 0, x, y >>[k + 1]]) = H!Signed(x, 8)

=============================================================================
