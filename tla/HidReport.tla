----------------------------- MODULE HidReport -----------------------------
(***************************************************************************)
(* The parser of a mouse's report map, and the readers of its reports      *)
(* (parse_hid.cpp).                                                        *)
(*                                                                         *)
(* A map is a sequence of bytes.  The parser cuts it into items, each a    *)
(* byte with its type and the length of its value, and then the value;     *)
(* those that it looks at are the usage page, the usages of a pointer, the *)
(* size and the number of the fields, and the Input item, which makes      *)
(* fields of what came before it.  It keeps everything in static           *)
(* variables.                                                              *)
(***************************************************************************)
EXTENDS Integers, Sequences

CONSTANT Maps   \* the report maps, sequences of bytes

VARIABLES
    map,            \* the report map
    i,              \* the byte at which the next item begins
    usage_page_item, report_size, report_count,
    set_x, set_wheel,
    report_bits,    \* the bits of the fields so far
    mouse           \* what is known of the report

vars == <<map, i, usage_page_item, report_size, report_count, set_x, set_wheel, report_bits, mouse>>

(* The types of items, the pages and the usages that the parser knows *)

USAGE_PAGE == 4

USAGE == 8

REPORT_SIZE == 116

HIDINPUT == 128

REPORT_COUNT == 148

Pointer == 1

Button == 9

X == 48

WHEEL == 56

NoField == [bits_start |-> 0, count |-> 0, size |-> 0]

NothingRead ==
    /\ i = 1
    /\ usage_page_item = 0
    /\ report_size = 0 /\ report_count = 0
    /\ set_x = FALSE /\ set_wheel = FALSE
    /\ report_bits = 0
    /\ mouse = [buttons |-> NoField, axes |-> NoField, wheel |-> NoField]

Init == map \in Maps /\ NothingRead

Word(n) == n % 2^16

Byte(n) == n % 2^8

-----------------------------------------------------------------------------
(* The items *)

Type(k) == map[k] - (map[k] % 4)

\* The length of the value.  (By the standard of HID 3 stands for four bytes.)
Length(k) == map[k] % 4

\* Behind the map its buffer is as it was allocated.
ByteAt(k) == IF k \in DOMAIN map THEN map[k] ELSE 0

\* The value, of three bytes at most, the lowest first.
Value(k) ==
    LET val(n) == IF n < Length(k) THEN ByteAt(k + 1 + n) * 2^(8 * n) ELSE 0
    IN  val(0) + val(1) + val(2)

Item(type) == i <= Len(map) /\ Type(i) = type /\ i' = i + 1 + Length(i)

-----------------------------------------------------------------------------
(* parse_global_item and parse_local_item, whose registers have eight bits *)

UsagePage ==
    /\ Item(USAGE_PAGE)
    /\ usage_page_item' = Byte(Value(i))
    /\ UNCHANGED <<map, report_size, report_count, set_x, set_wheel, report_bits, mouse>>

ReportSize ==
    /\ Item(REPORT_SIZE)
    /\ report_size' = Byte(Value(i))
    /\ UNCHANGED <<map, usage_page_item, report_count, set_x, set_wheel, report_bits, mouse>>

ReportCount ==
    /\ Item(REPORT_COUNT)
    /\ report_count' = Byte(Value(i))
    /\ UNCHANGED <<map, usage_page_item, report_size, set_x, set_wheel, report_bits, mouse>>

\* A usage is one of the pointer's on whatever page it is.  Y is noted by the parser as
\* well, and never looked at.
Usage ==
    /\ Item(USAGE)
    /\ set_x' = (set_x \/ Byte(Value(i)) = X)
    /\ set_wheel' = (set_wheel \/ Byte(Value(i)) = WHEEL)
    /\ UNCHANGED <<map, usage_page_item, report_size, report_count, report_bits, mouse>>

Other ==
    /\ \E type \in 0 .. 255 \ {USAGE_PAGE, REPORT_SIZE, REPORT_COUNT, USAGE, HIDINPUT} : Item(type)
    /\ UNCHANGED <<map, usage_page_item, report_size, report_count, set_x, set_wheel, report_bits, mouse>>

-----------------------------------------------------------------------------
(* parse_feature_item: an Input item *)

FieldAt(bits) == [bits_start |-> bits, count |-> report_count, size |-> report_size]

\* setup_buttons: padding on the page of the buttons counts among them.
InputButtons ==
    /\ Item(HIDINPUT) /\ usage_page_item = Button
    /\ mouse' = [mouse EXCEPT !.buttons =
                    [bits_start |-> report_bits,
                     count |-> Byte(@.count + report_count * report_size),
                     size |-> report_size]]
    /\ report_bits' = Word(report_bits + report_count * report_size)
    /\ UNCHANGED <<map, usage_page_item, report_size, report_count, set_x, set_wheel>>

\* As AxisBits, for one axis.
AxisBitsOne == report_size

\* What setup_x_axis and setup_wheel add to the bits.
AxisBits == report_count * report_size

WheelBits == report_size

\* setup_x_axis, and then setup_wheel: a wheel in the same fields as the axes is put
\* behind all of them.  (setup_buttons clears set_buttons before anything reads it,
\* so the buttons are not set up here.)
InputPointer ==
    /\ Item(HIDINPUT) /\ usage_page_item = Pointer
    /\ LET behind_axes == IF set_x THEN Word(report_bits + AxisBits) ELSE report_bits IN
          /\ mouse' = [mouse EXCEPT !.axes = IF set_x THEN FieldAt(report_bits) ELSE @,
                                    !.wheel = IF set_wheel THEN FieldAt(behind_axes) ELSE @]
          /\ report_bits' = IF set_wheel THEN Word(behind_axes + WheelBits) ELSE behind_axes
    /\ set_x' = FALSE /\ set_wheel' = FALSE
    /\ UNCHANGED <<map, usage_page_item, report_size, report_count>>

InputNothing ==
    /\ Item(HIDINPUT) /\ usage_page_item \notin {Button, Pointer}
    /\ UNCHANGED <<map, usage_page_item, report_size, report_count, set_x, set_wheel, report_bits, mouse>>

Next ==
    \/ UsagePage \/ ReportSize \/ ReportCount \/ Usage \/ Other
    \/ InputButtons \/ InputPointer \/ InputNothing

Spec == Init /\ [][Next]_vars

-----------------------------------------------------------------------------
(* Readers of a report, whose first byte is its ID: data[0] *)

Bit(v, k) == (v \div 2^k) % 2

OrBit(v, k, b) == IF Bit(v, k) = 0 THEN v + b * 2^k ELSE v

Signed(v, w) == IF v >= 2^(w - 1) THEN v - 2^w ELSE v

\* As Start, with the report's ID forgotten.
StartWithoutId(field) == field.bits_start \div 8

Start(field) == 1 + field.bits_start \div 8

Bits(field) == Byte(field.count * field.size)

\* The bytes of a field, the first of them the highest, in 16 bits.
FieldValue(field, data) ==
    LET n == Bits(field) \div 8
        Sum[k \in 0 .. n] ==
            IF k = 0 THEN 0 ELSE Word(Sum[k - 1] + data[Start(field) + k - 1] * 2^(8 * (n - k)))
    IN  Sum[n]

\* The first of the values of a field, with the sign of the last one.
TopField(field, v) ==
    OrBit(v \div 2^(Bits(field) - field.size), field.size - 1, Bit(v, field.size - 1))

get_buttons(data) == data[Start(mouse.buttons)]

get_x_axis(data) == Signed(Word(TopField(mouse.axes, FieldValue(mouse.axes, data))), 16)

get_y_axis(data) ==
    LET size == mouse.axes.size
        v == FieldValue(mouse.axes, data)
        above == (Bit(v, size) * 2^size) \div 2^(Bits(mouse.axes) - size * 2)
    IN  Signed(OrBit(above, size - 1, Bit(v, size - 1)), 16)

get_wheel(data) == Signed(Byte(TopField(mouse.wheel, FieldValue(mouse.wheel, data))), 8)

=============================================================================
