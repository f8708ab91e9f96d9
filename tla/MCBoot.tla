------------------------------- MODULE MCBoot -------------------------------
(* Ten pages of four bytes under directories of two entries, with the four *)
(* ranges of the kernel, eight memory maps, nine boot loaders with a mode  *)
(* each, and seven buses.                                                  *)
EXTENDS Boot

R(a, n) == [start |-> a, size |-> n]
MCRanges == <<R(0, 4), R(4, 3), R(12, 8), R(16, 8)>>

E(a, n, t) == [addr |-> a, len |-> n, type |-> t]

(* Page-aligned maps: all RAM; a hole for devices; a region that ends      *)
(* inside a page; two pieces, with a non-RAM entry listed between them,    *)
(* one beyond the cap; RAM that runs past the cap; no map.                 *)
AlignedMaps ==
  { << >>,
    <<E(0, 40, 1)>>,
    <<E(0, 24, 1), E(24, 8, 2), E(32, 7, 1)>>,
    <<E(24, 8, 1), E(16, 8, 2), E(4, 10, 1), E(48, 8, 1)>>,
    <<E(28, 40, 1), E(0, 3, 1)>> }

(* Maps in which some entry starts inside a page.                          *)
UnalignedMaps == { <<E(0, 24, 1), E(26, 8, 1)>> }

(* Maps that list some pages twice.                                        *)
OverlappingMaps == { <<E(0, 28, 1), E(20, 16, 1)>>, <<E(24, 8, 1), E(24, 8, 1)>> }

MCMaps == AlignedMaps \cup UnalignedMaps \cup OverlappingMaps

(* The back buffer has room for two pixels.  Modes: the default, rows with *)
(* padding, one too large, three bytes a pixel, text.                      *)
MCDefaultMode == [w |-> 2, h |-> 1, pitch |-> 8]
M(b, w, h, p, d) == [on |-> TRUE, base |-> b, w |-> w, h |-> h, pitch |-> p, bpp |-> d]
Off  == [on |-> FALSE, base |-> 0, w |-> 0, h |-> 0, pitch |-> 0, bpp |-> 0]
Text == M(9, 5, 5, 10, 16)

Said(m, t) == [present |-> TRUE, base |-> m.base, w |-> m.w, h |-> m.h, pitch |-> m.pitch,
                    bpp |-> m.bpp, type |-> t]
Silent == [present |-> FALSE, base |-> 0, w |-> 0, h |-> 0, pitch |-> 0, bpp |-> 0, type |-> 0]

L(m, f) == [magic |-> TRUE, info |-> TRUE, mode |-> m, fb |-> f]
MCLoaders ==
  { L(m, Said(m, 1)) : m \in {M(56, 1, 1, 8, 32), M(56, 1, 3, 8, 32), M(56, 2, 1, 6, 24)} }
  \cup { L(Text, Said(Text, 2)), L(M(56, 1, 1, 4, 32), Said(M(56, 1, 1, 4, 32), 0)),
         L(Text, Silent), L(Off, Silent),
         [L(Text, Silent) EXCEPT !.info = FALSE], [L(Text, Silent) EXCEPT !.magic = FALSE] }

(* Functions: the adapter, one of another class by a known vendor, others. *)
F(d, k, m, b) == [display |-> d, known |-> k, memory |-> m, bar |-> b]
Adapter == F(TRUE, TRUE, TRUE, 52)
Bridge  == F(FALSE, TRUE, TRUE, 0)
Disk    == F(FALSE, FALSE, TRUE, 44)
Ports   == F(FALSE, TRUE, FALSE, 48)
HighUp  == F(TRUE, FALSE, TRUE, 80)
Network == F(FALSE, TRUE, TRUE, 40)

At0(f) == [s \in {<<0, 0>>} |-> f]
Bus(multi, at, aperture) == [multi |-> multi, at |-> at, aperture |-> aperture]
Two(f, s, g) == [p \in {<<0, 0>>, s} |-> IF p = s THEN g ELSE f]
MCBuses ==
  { Bus({}, At0(Adapter), 52), Bus({}, At0(Disk), 60), Bus({}, At0(HighUp), 60),
    Bus({}, Two(Bridge, <<1, 0>>, Adapter), 52), Bus({0}, Two(Ports, <<0, 2>>, Adapter), 52),
    Bus({}, Two(Disk, <<1, 1>>, Adapter), 52), Bus({}, Two(Network, <<1, 0>>, Adapter), 52) }
=============================================================================
