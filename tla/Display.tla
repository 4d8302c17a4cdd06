-------------------------------- MODULE Display --------------------------------
(***************************************************************************)
(* drivers/display: bringing a panel up over its three interfaces, and      *)
(* writing rectangles into the frame buffer of display.c.  A pixel is one   *)
(* byte; a cache line is CacheLine bytes.                                   *)
(***************************************************************************)
EXTENDS Naturals

CONSTANTS Strides, Rows, CacheLine,  \* bytes of a row, rows, bytes of a cache line
          PanelClocks                \* frequencies of PLL and panel

VARIABLES
  panel,      \* interface, stride, PLL and pixel clock (never changes)
  lcd,        \* pc of the bring-up, divider, backlight
  fb,         \* data->aligned_buf: not allocated, allocated, freed
  drawn       \* the last write: its rectangle and pitch, bytes copied and written back

displayVars == <<panel, lcd, fb, drawn>>

Interfaces == {"rgb", "mipi", "lvds", "dual"}
NoRect == [x |-> 0, y |-> 0, w |-> 0, h |-> 0]

TypeOK ==
    /\ panel \in [itf : Interfaces, stride : Strides, pll : PanelClocks, pixel : PanelClocks]
    /\ lcd \in [pc : {"off", "clocked", "locked", "ready"}, div : Nat, light : BOOLEAN]
    /\ fb \in {"none", "ok", "freed"}
    /\ drawn \in [rect : [x : Nat, y : Nat, w : Nat, h : Nat], pitch : Nat,
                  copied : SUBSET Nat, flushed : SUBSET Nat]

Init ==
    /\ panel \in [itf : Interfaces, stride : Strides, pll : PanelClocks, pixel : PanelClocks]
    /\ lcd = [pc |-> "off", div |-> 0, light |-> FALSE] /\ fb = "none"
    /\ drawn = [rect |-> NoRect, pitch |-> 0, copied |-> {}, flushed |-> {}]
-------------------------------------------------------------------------------
(* hpm_display_lcdc_clk_init: the nearest divider; two pixels at a time     *)
(* with both LVDS transmitters.                                             *)
Divider(f, p)    == (f + p \div 2) \div p
DualDivider(f, p) == (f + p) \div (2 * p)
Clock ==
    /\ lcd.pc = "off"
    /\ lcd' = [lcd EXCEPT !.pc = "clocked",
                 !.div = IF panel.itf = "dual" THEN DualDivider(panel.pll, panel.pixel)
                         ELSE Divider(panel.pll, panel.pixel)]
    /\ UNCHANGED <<panel, fb, drawn>>

RgbPanel ==             \* pads, reset
    /\ lcd.pc = "clocked" /\ panel.itf = "rgb"
    /\ lcd' = [lcd EXCEPT !.pc = "locked"] /\ UNCHANGED <<panel, fb, drawn>>
MipiPanel ==            \* router, host, phy; a command that fails is logged
    /\ lcd.pc = "clocked" /\ panel.itf = "mipi"
    /\ lcd' = [lcd EXCEPT !.pc = "locked"] /\ UNCHANGED <<panel, fb, drawn>>
LvdsPanel ==            \* once the PLL of the phy locks: there is no timeout
    /\ lcd.pc = "clocked" /\ panel.itf \in {"lvds", "dual"}
    /\ lcd' = [lcd EXCEPT !.pc = "locked"] /\ UNCHANGED <<panel, fb, drawn>>

(* hpm_display_lcdc_init, whose answer nobody looks at, and the backlight:  *)
(* the pixel format or the allocation is refused, or the layer is.          *)
Lcdc ==
    /\ lcd.pc = "locked"
    /\ lcd' = [lcd EXCEPT !.pc = "ready", !.light = TRUE]
    /\ fb' \in {"none", "freed", "ok"}
    /\ UNCHANGED <<panel, drawn>>

Blanking(on) ==
    /\ lcd.pc = "ready" /\ lcd' = [lcd EXCEPT !.light = ~on]
    /\ UNCHANGED <<panel, fb, drawn>>

Stride    == IF fb = "none" THEN 0 ELSE panel.stride
Lesser(a, b) == IF a < b THEN a ELSE b
RoundUp(n)   == ((n + CacheLine - 1) \div CacheLine) * CacheLine
RoundDown(n) == (n \div CacheLine) * CacheLine

BugCopied(x, y, h, pitch) ==    \* the whole pitch
    {y * Stride + x + i * Stride + k : i \in 0..(h - 1), k \in 0..(pitch - 1)}
Copied(x, y, h, pitch) ==
    {y * Stride + x + i * Stride + k : i \in 0..(h - 1), k \in 0..(Lesser(pitch, Stride) - 1)}
Flushed(x, y, h) == LET from == RoundDown(y * Stride + x) IN from..(from + RoundUp(h * Stride) - 1)

(* The width of the rectangle is not looked at: rows are as long as the     *)
(* pitch of the source, up to the row of the panel.                         *)
Write ==                \* bound: one write
    /\ lcd.pc = "ready" /\ drawn.rect = NoRect
    /\ \E x \in 0..(panel.stride - 1), y \in 0..(Rows - 1) :
       \E w \in 1..(panel.stride - x), h \in 1..(Rows - y) : \E pitch \in w..(panel.stride + 1) :
         drawn' = [rect |-> [x |-> x, y |-> y, w |-> w, h |-> h], pitch |-> pitch,
                   copied |-> Copied(x, y, h, pitch), flushed |-> Flushed(x, y, h)]
    /\ UNCHANGED <<panel, lcd, fb>>

Next == Clock \/ RgbPanel \/ MipiPanel \/ LvdsPanel \/ Lcdc \/ (\E on \in BOOLEAN : Blanking(on)) \/ Write
Spec == Init /\ [][Next]_displayVars
-------------------------------------------------------------------------------
(* A write of a buffer without padding changes the pixels of its rectangle  *)
(* and no other, and when rows are whole cache lines all of them reach the  *)
(* memory the controller reads; nothing is written without a frame buffer.  *)
DisplayWriteIsExact ==
    LET r == drawn.rect IN
    /\ drawn.pitch = r.w /\ fb # "none" =>
         /\ drawn.copied = {(r.y + i) * panel.stride + r.x + k : i \in 0..(r.h - 1), k \in 0..(r.w - 1)}
         /\ panel.stride % CacheLine = 0 => drawn.copied \subseteq drawn.flushed
    /\ fb = "none" => drawn.copied = {}

(* The divider is the nearest to the panel's clock; a panel faster than     *)
(* twice the PLL gets a divider of zero.                                    *)
DisplayClockIsNearest ==
    LET p == IF panel.itf = "dual" THEN 2 * panel.pixel ELSE panel.pixel
        off(d) == IF d * p > panel.pll THEN d * p - panel.pll ELSE panel.pll - d * p
    IN lcd.pc # "off" =>
         /\ \A d \in 0..(lcd.div + 1) : off(lcd.div) <= off(d)
         /\ lcd.div = 0 => p > panel.pll
===============================================================================
