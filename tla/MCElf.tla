------------------------------- MODULE MCElf -------------------------------
(***************************************************************************)
(* Elf with small relocatable files and sets of program headers.           *)
(***************************************************************************)
EXTENDS Elf

MCHalf == 8

Header(type, alloc, size, entsize, place, link, info) ==
  [sh_type |-> type, alloc |-> alloc, sh_size |-> size, sh_entsize |-> entsize,
   sh_offset |-> place, sh_link |-> link, sh_info |-> info]

Null == Header("SHT_NULL", FALSE, 0, 0, 0, 0, 0)

(* Sections without data in the file: malloc is called for the last only.  *)
Empty == Header("SHT_NOBITS", TRUE, 0, 0, 0, 0, 0)
Unused == Header("SHT_NOBITS", FALSE, 1, 0, 0, 0, 0)
Bss == Header("SHT_NOBITS", TRUE, 1, 0, 0, 0, 0)

(* Two data sections, one behind the other, and two relocations of one and *)
(* one of the other.                                                       *)
Sections(nobits, entsizes) ==
  {<<Null,
     Header("SHT_PROGBITS", TRUE, 3, entsize, 4, 0, 0),
     Header("SHT_PROGBITS", TRUE, 3, 1, 7, 0, 0),
     Header("SHT_REL", FALSE, 2, 1, 0, link, target),
     last,
     Header("SHT_REL", FALSE, 1, 1, 0, link, 3 - target)>> :
   entsize \in entsizes, link \in {0, 1}, target \in {1, 2}, last \in nobits}

Rels ==
  [r_offset : {1, 2}, symbol : {0, 1, 2}, type : {"R_X86_64_32", "R_X86_64_PC32"}]
  \union [r_offset : {0}, symbol : {0, 2}, type : {"R_X86_64_NONE", "R_X86_64_64"}]

Symbols ==
  {<<a, b>> : a \in [st_shndx : {SHN_ABS}, st_value : {9, 15}],
              b \in [st_shndx : {SHN_UNDEF}, st_value : {0}] \union
                    [st_shndx : {1, 2}, st_value : {1}]}

(* The file's words hold 5.                                                *)
FileMemory ==
  [a \in 0 .. MCHalf * MCHalf - 1 |-> IF a \in Hdr .. Hdr + 10 THEN 5 ELSE 1]

Good     == [p_type |-> "PT_LOAD", p_memsz |-> 1, p_filesz |-> 1]
Overflow == [p_type |-> "PT_LOAD", p_memsz |-> 0, p_filesz |-> 1]
Other    == [p_type |-> "PT_NOTE", p_memsz |-> 0, p_filesz |-> 1]

(* Two program headers at 64, and what lies 64 times as far.               *)
Phdrs == [{64, 120, 4096, 7680} -> {Good, Overflow, Other}]

File(magic, secs, rels, syms, phdrs) ==
  [magic |-> magic, sections |-> secs, relocs |-> rels,
   symbols |-> syms, memory |-> FileMemory,
   phdrs |-> phdrs, e_phoff |-> 64, e_phnum |-> 2, e_entry |-> 2]

RelFiles(nobits, entsizes, rels, symbols) ==
  {File(ELFMAG, secs, [n \in {3, 5} |-> IF n = 3 THEN <<r1, r2>> ELSE <<r1>>], syms,
        [n \in {64, 120, 4096, 7680} |-> Good]) :
     secs \in Sections(nobits, entsizes), r1 \in rels, r2 \in rels, syms \in symbols}

(* With every relocation, and a few with each kind of empty section.       *)
MCRelFiles ==
  RelFiles({Unused}, {0, 1, 3}, Rels, Symbols) \union
  RelFiles({Empty, Unused, Bss}, {1}, [r_offset : {0, 2}, symbol : {0}, type : Supported],
           {<<[st_shndx |-> SHN_ABS, st_value |-> 9]>>})

MCProgramFiles ==
  {File(magic, <<>>, <<>>, <<>>, phdrs) :
     magic \in {ELFMAG, <<"0x7f", "E", "L", "f">>}, phdrs \in Phdrs}

---------------------------------------------------------------------------
MCAllFiles == MCRelFiles \union MCProgramFiles

(* elf.c says "Elf tried to overflow, denying to load program": no process *)
(* is started from a file whose program headers overflow.                  *)
OverflowIsDenied ==
  started # {} => \A n \in 0 .. file.e_phnum - 1 : ~Overflows(Declared(file, n))
============================================================================
