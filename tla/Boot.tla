-------------------------------- MODULE Boot --------------------------------
(***************************************************************************)
(* From the boot loader to the first client of the allocator: boot.asm     *)
(* (page tables, long mode), then kernel_main with phys_init, its check of *)
(* the loader's frame buffer and vbe_init (kernel/kernel.c,                *)
(* kernel/drivers/vbe.c).  Interrupts are off and nothing runs beside it;  *)
(* what is in question is whether its steps fit each other, the adapter    *)
(* and the allocator.                                                      *)
(***************************************************************************)
EXTENDS Phys

CONSTANTS
  WORD,                  \* a 32-bit register holds 0 .. WORD - 1
  HUGE,                  \* bytes an entry of a page directory maps (2 MB)
  ENTRIES,               \* entries of a table (512)
  Loaders,               \* what a boot loader may leave behind
  Buses,                 \* what the PCI bus may hold, and where the adapter is
  QOS_BACKBUFFER_BASE, QOS_BACKBUFFER_BYTES,
  QOS_DEFAULT_LFB_PHYS,
  DefaultMode            \* QOS_DEFAULT_FB_WIDTH, _HEIGHT, _PITCH (pitches are in bytes)

Directories == 4                              \* page directories pd_tables has room for
Mapped == 0 .. Directories * ENTRIES * HUGE - 1

ASSUME BootAssumption ==
  /\ HUGE \in Nat \ {0} /\ ENTRIES \in Nat \ {0}
  /\ WORD \in Nat \ {0} /\ WORD % HUGE = 0
  /\ PhysMem <= Directories * ENTRIES * HUGE
  /\ \A m \in {DefaultMode} \cup {l.fb : l \in Loaders} : m.h \in Nat /\ m.pitch \in Nat
  /\ QOS_BACKBUFFER_BASE \in Nat /\ QOS_BACKBUFFER_BYTES \in Nat
  /\ \E i \in DOMAIN Ranges : Ranges[i] = [start |-> QOS_BACKBUFFER_BASE, size |-> QOS_BACKBUFFER_BYTES]

(* Outside the kernel: the mode it asks for has rows without padding; a    *)
(* loader that offers direct RGB of 32 bits has set that mode, in rows of  *)
(* whole pixels; a device with functions beside function 0 says so.        *)
Mode == [on : BOOLEAN, base : Nat, w : Nat, h : Nat, pitch : Nat, bpp : Nat]
Describes(f, m) ==
  /\ m = [on |-> TRUE, base |-> f.base, w |-> f.w, h |-> f.h, pitch |-> f.pitch, bpp |-> f.bpp]
  /\ f.w > 0 /\ f.h > 0 /\ f.pitch > 0 /\ f.pitch % 4 = 0
ASSUME BoardAssumption ==
  /\ DefaultMode.w \in Nat \ {0} /\ DefaultMode.h \in Nat \ {0}
  /\ DefaultMode.pitch = 4 * DefaultMode.w
  /\ \A l \in Loaders :
       /\ l.mode \in Mode
       /\ l.fb.present /\ l.fb.type = 1 /\ l.fb.bpp = 32 => Describes(l.fb, l.mode)
  /\ \A b \in Buses :
       /\ b.aperture \in Nat /\ DOMAIN b.at \subseteq Nat \X Nat
       /\ \A s \in DOMAIN b.at : s[2] # 0 /\ <<s[1], 0>> \in DOMAIN b.at => s[1] \in b.multi

VARIABLES
  loader,    \* magic, info: what is in eax, ebx; fb: the mode it describes; mode: the one it has set
  bus,       \* at: <<device, function>> -> function; multi: devices with more than one;
             \* aperture: where the adapter's memory appears
  pc,        \* how far the boot is
  pdpt,      \* entry -> index in pd of the first entry of its directory
  pd,        \* the directories, one behind the other: entry -> address
  cpu,       \* PAE, CR3, LME, PG
  fb,        \* lfb, fb_w, fb_h, fb_pitch_pixels, externally_configured
  adapter    \* what the adapter shows: on, base, w, h, pitch, bpp

bootVars == <<loader, bus, pc, pdpt, pd, cpu, fb, adapter>>

(* The statics of vbe.c and the registers after reset.                     *)
BootInit ==
  /\ Init
  /\ loader \in Loaders /\ bus \in Buses
  /\ ~loader.info => mmap = << >>
  /\ pc = "start"
  /\ pdpt = << >> /\ pd = << >>
  /\ cpu = [pae |-> FALSE, cr3 |-> FALSE, lme |-> FALSE, pg |-> FALSE]
  /\ fb = [lfb |-> QOS_DEFAULT_LFB_PHYS, w |-> DefaultMode.w, h |-> DefaultMode.h,
           pitch |-> DefaultMode.pitch \div 4, external |-> FALSE]
  /\ adapter = loader.mode

At(from, to) == pc = from /\ pc' = to /\ UNCHANGED <<vars, loader, bus>>

-----------------------------------------------------------------------------
(* boot.asm.                                                               *)

CheckMagic ==
  /\ At("start", IF loader.magic THEN "setup_paging" ELSE "no_multiboot")
  /\ UNCHANGED <<pdpt, pd, cpu, fb, adapter>>

(* The two loops.  An address is put together from a low word, which the   *)
(* shift truncates, and a high word, what the shift lost.                  *)
MutHugePage(i) == (i * HUGE) % (WORD \div 2)      \* one bit is lost
HugePage(i) == ((i * HUGE) % WORD) + WORD * (i \div (WORD \div HUGE))
setup_paging ==
  /\ At("setup_paging", "pae")
  /\ pdpt' = [k \in 0 .. Directories - 1 |-> k * ENTRIES]
  /\ pd' = [i \in 0 .. Directories * ENTRIES - 1 |-> HugePage(i)]
  /\ UNCHANGED <<cpu, fb, adapter>>

(* One control register after the other, paging last.                      *)
Control(from, field, to) ==
  /\ At(from, to)
  /\ cpu' = [cpu EXCEPT ![field] = TRUE]
  /\ UNCHANGED <<pdpt, pd, fb, adapter>>
EnterLongMode ==
  \/ Control("pae", "pae", "cr3")
  \/ Control("cr3", "cr3", "lme")
  \/ Control("lme", "lme", "pg")
  \/ Control("pg", "pg", "phys_init")

-----------------------------------------------------------------------------
(* kernel_main.                                                            *)

PhysInit ==
  /\ pc = "phys_init"
  /\ ParseEntry \/ ParseDone \/ Fallback \/ ReserveRange \/ InitDone
  /\ pc' = IF Ready' THEN "vbe_init" ELSE pc
  /\ UNCHANGED <<loader, bus, pdpt, pd, cpu, fb, adapter>>

(* A frame buffer is taken over only if it is direct RGB of 32 bits.       *)
MutAccepted == loader.info /\ loader.fb.present /\ loader.fb.base # 0 /\ loader.fb.type = 1
Accepted ==
  /\ loader.info /\ loader.fb.present
  /\ loader.fb.base # 0
  /\ loader.fb.type = 1 /\ loader.fb.bpp = 32

(* pci_find_vga_lfb: the first function, in the order of the scan, that is *)
(* a display or of a known vendor and has a memory BAR below 4 GB.  Behind *)
(* function 0 only multi-function devices are looked at, and empty slots,  *)
(* which read as all ones.                                                 *)
MutLooked(s) == s[2] = 0
Looked(s) == s[2] = 0 \/ s[1] \in bus.multi \/ <<s[1], 0>> \notin DOMAIN bus.at
Suits(f) == (f.display \/ f.known) /\ f.memory /\ f.bar # 0 /\ f.bar < WORD
Suitable == {s \in DOMAIN bus.at : Looked(s) /\ Suits(bus.at[s])}
Earlier(s, t) == s[1] < t[1] \/ (s[1] = t[1] /\ s[2] <= t[2])
pci_find_vga_lfb ==
  IF Suitable = {} THEN QOS_DEFAULT_LFB_PHYS
  ELSE bus.at[CHOOSE s \in Suitable : \A t \in Suitable : Earlier(s, t)].bar

Given(value, old) == IF value > 0 THEN value ELSE old

vbe_init(addr, w, h, pitch) ==
  /\ At("vbe_init", IF addr # 0 THEN "online" ELSE "disable")
  /\ fb' = [lfb |-> IF addr # 0 THEN addr ELSE pci_find_vga_lfb,
            w |-> Given(w, fb.w), h |-> Given(h, fb.h),
            pitch |-> IF pitch > 0 THEN pitch \div 4 ELSE fb.pitch,
            external |-> addr # 0]
  /\ UNCHANGED <<pdpt, pd, cpu, adapter>>
VbeInit ==
  IF Accepted THEN vbe_init(loader.fb.base, loader.fb.w, loader.fb.h, loader.fb.pitch)
  ELSE vbe_init(0, DefaultMode.w, DefaultMode.h, DefaultMode.pitch)

(* bochs_vbe_set_mode, a register at a time, with the default mode, whose  *)
(* numbers fit 16 bits.  The adapter keeps its mode while it is on, and    *)
(* shows rows without padding when it is switched on.                      *)
Dispi(from, to, mode) ==
  /\ At(from, to)
  /\ adapter' = mode
  /\ UNCHANGED <<pdpt, pd, cpu, fb>>
Write(field, value) == IF adapter.on THEN adapter ELSE [adapter EXCEPT ![field] = value]
MutDisable == adapter                             \* left on
Disable == [adapter EXCEPT !.on = FALSE]
SetMode ==
  \/ Dispi("disable", "xres", Disable)
  \/ Dispi("xres", "yres", Write("w", fb.w))
  \/ Dispi("yres", "bpp", Write("h", fb.h))
  \/ Dispi("bpp", "enable", Write("bpp", 32))
  \/ Dispi("enable", "online", [adapter EXCEPT !.on = TRUE, !.base = bus.aperture, !.pitch = 4 * adapter.w])

Clients ==
  /\ pc = "online"
  /\ phys_alloc_page \/ ClientFree
  /\ UNCHANGED bootVars

(* hlt for ever.                                                           *)
Hang == pc = "no_multiboot" /\ UNCHANGED <<vars, bootVars>>

BootNext ==
  \/ CheckMagic \/ setup_paging \/ EnterLongMode
  \/ PhysInit \/ VbeInit \/ SetMode
  \/ Clients
  \/ Hang

BootSpec == BootInit /\ [][BootNext]_<<vars, bootVars>>

-----------------------------------------------------------------------------
(* Properties.                                                             *)

(* What the processor finds at an address.                                 *)
Translate(v) == pd[pdpt[v \div (ENTRIES * HUGE)] + ((v \div HUGE) % ENTRIES)] + (v % HUGE)

(* From the instruction that switches paging on, every address below 4 GB, *)
(* so every page of the allocator, the back buffer and a probed screen, is *)
(* mapped to itself; and by then PAE, the root and long mode are set       *)
(* (boot.asm:66-84, 96-129; memory_map.h:12).                             *)
PagingIsIdentity ==
  cpu.pg => /\ cpu.pae /\ cpu.cr3 /\ cpu.lme
            /\ \A v \in Mapped : Translate(v) = v

(* When the kernel is up the adapter shows what is drawn: the buffer       *)
(* vbe_swap_buffers copies to, in the size, the pitch and the depth it is  *)
(* written in.  A mode the loader describes truthfully is taken over and   *)
(* left alone ("retains Multiboot-provided framebuffer resolution",        *)
(* PHASE_1_PLAN.md:81), any other replaced; if the probe accepts nothing   *)
(* but the adapter (kernel.c:53-68, vbe.c:40-120).                         *)
OnlyAdapter ==
  /\ \A s \in DOMAIN bus.at : Suits(bus.at[s]) => bus.at[s].bar = bus.aperture
  /\ bus.aperture # QOS_DEFAULT_LFB_PHYS => \E s \in DOMAIN bus.at : Suits(bus.at[s])
ShownAsDrawn ==
  pc = "online" /\ (Accepted \/ OnlyAdapter) =>
    /\ adapter.on /\ adapter.bpp = 32
    /\ adapter.base = fb.lfb
    /\ adapter.w = fb.w /\ adapter.h = fb.h /\ adapter.pitch = 4 * fb.pitch

(* A frame that fits the 32 MB set aside for it lies in memory no client   *)
(* of the allocator ever holds, whatever the mode (vbe.c:25, 38;           *)
(* phys.c:94); a larger one does not.                                      *)
Frame == [start |-> QOS_BACKBUFFER_BASE, size |-> 4 * fb.h * fb.pitch]
BackbufferReserved ==
  Frame.size <= QOS_BACKBUFFER_BYTES /\ ~misused => \A p \in owned : ~Touches(p, Frame)
=============================================================================
