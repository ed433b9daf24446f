-------------------------------- MODULE Elf --------------------------------
(***************************************************************************)
(* The ELF loader of elf.c and the part of _kernel_start that calls it.    *)
(* Addresses count words of 32 bits; a size_t is two of them.  Tables are  *)
(* what the loader finds where its pointer arithmetic leads: hdr + n is    *)
(* n file headers further, not n bytes.                                    *)
(***************************************************************************)
EXTENDS Integers, Sequences, FiniteSets

CONSTANTS
  Half,       (* values of 32 bits                                            *)
  Hdr,        (* address of the file                                          *)
  Files,      (* the files tried                                              *)
  Stages      (* whether elf_load_rel calls the stages it has commented out   *)

Word      == Half * Half
Addresses == 0 .. Word - 1

ASSUME ElfAssumption ==
  Half \in Nat \ {0, 1} /\ Hdr \in Addresses /\ Stages \in BOOLEAN

SectionHeader ==
  [sh_type : STRING, alloc : BOOLEAN, sh_size : Nat, sh_entsize : Nat,
   sh_offset : Addresses, sh_link : Nat, sh_info : Nat]

SHN_UNDEF == 0
SHN_ABS   == 65521    (* 0xfff1 *)

(* The sizes are divided by sh_entsize, which may be zero.                 *)
Entries(section) == section.sh_size \div section.sh_entsize

(* A relocation of the section reltab is for a place in a section of the   *)
(* program, and its symbol, where the loader takes one, is there.          *)
Relocatable(f, reltab, rel, target) ==
  /\ rel.r_offset \in 0 .. target.sh_size - 1
  /\ rel.type \in STRING
  /\ rel.symbol \in 0 .. Len(f.sections) - 1
  /\ LET table == f.sections[rel.symbol + 1]
         symbol == f.symbols[rel.symbol]
         used   == /\ reltab.sh_link # SHN_UNDEF /\ rel.symbol # SHN_UNDEF
                   /\ table.sh_entsize # 0 /\ rel.symbol < Entries(table)
     IN  used => /\ symbol.st_value \in Addresses
                 /\ symbol.st_shndx \in 0 .. Len(f.sections) - 1 \union {SHN_ABS}

(* What the loader looks up it finds: it checks no index and no offset, and*)
(* a file in which one leads elsewhere is outside this model.              *)
ASSUME FilesAssumption ==
  \A f \in Files :
    /\ f.sections \in Seq(SectionHeader)
    /\ f.memory \in [Addresses -> 0 .. Half - 1]
    /\ f.e_phnum \in Nat /\ f.e_entry \in Nat
    /\ \A n \in 1 .. Len(f.sections) :
         LET section == f.sections[n]
         IN  section.sh_type = "SHT_REL" /\ section.sh_entsize # 0 =>
               \A k \in 1 .. Entries(section) :
                 /\ section.sh_info \in 0 .. Len(f.sections) - 1
                 /\ Relocatable(f, section, f.relocs[n - 1][k],
                                f.sections[section.sh_info + 1])

VARIABLES
  file,      (* what build_usr_test_proc holds                                *)
  memory,
  pc,
  i, idx,    (* counters of the loops                                         *)
  result,    (* "ok", or "error" for ELF_RELOC_ERR                            *)
  offset,    (* what elf_load_rel returned                                    *)
  started    (* first instructions of the processes created                   *)

vars == <<file, memory, pc, i, idx, result, offset, started>>

Init ==
  /\ file \in Files /\ memory = file.memory
  /\ pc = "check" /\ i = 0 /\ idx = 0
  /\ result = "ok" /\ offset = 0 /\ started = {}

At(stage) == pc = stage

---------------------------------------------------------------------------
(* elf_check_file                                                          *)
ELFMAG == <<"0x7f", "E", "L", "F">>

CheckFile ==
  /\ At("check")
  /\ pc' = IF file.magic # ELFMAG THEN "panic" ELSE IF Stages THEN "stage1" ELSE "load"
  /\ UNCHANGED <<file, memory, i, idx, result, offset, started>>

(* elf_section: the sections count from 0.                                 *)
Section(n) == file.sections[n + 1]

Add(m, n) == (m + n) % Word

(* Mutant of SectionAddress: the offset counts file headers, as in other   *)
(* places.                                                                 *)
SectionAddressScaled(section) == Add(Hdr, 64 * section.sh_offset)

(* (size_t)hdr + sh_offset                                                 *)
SectionAddress(section) == Add(Hdr, section.sh_offset)

(* Mutant of Zeroed: sections with data in the file need memory as well.   *)
ZeroedAnyType(section) == section.alloc /\ section.sh_size # 0

Zeroed(section) ==
  section.sh_type = "SHT_NOBITS" /\ section.sh_size # 0 /\ section.alloc

(* malloc of vmem.c: it is not implemented, and panics.                    *)
Malloc == pc' = "panic"

(* The loop of elf_load_stage1: what follows malloc is never reached.      *)
Stage1 ==
  /\ At("stage1")
  /\ \/ i = Len(file.sections) /\ pc' = "stage2" /\ i' = 0
     \/ i < Len(file.sections) /\ Zeroed(Section(i)) /\ Malloc /\ UNCHANGED i
     \/ i < Len(file.sections) /\ ~Zeroed(Section(i)) /\ i' = i + 1 /\ UNCHANGED pc
  /\ UNCHANGED <<file, memory, idx, result, offset, started>>

---------------------------------------------------------------------------
ELF_RELOC_ERR == Word - 1

(* The value of external symbols: elf_lookup_symbol finds nothing, and     *)
(* that is not taken for an error, weak or not.                            *)
External == 0

(* elf_get_symval.  The index of the symbol is also that of its table; the *)
(* symbol is whatever lies at the scaled offset.                           *)
Divides(table, number) ==
  table = SHN_UNDEF \/ number = SHN_UNDEF \/ Section(number).sh_entsize # 0

Symval(table, number) ==
  LET symbol == file.symbols[number]
  IN  IF table = SHN_UNDEF \/ number = SHN_UNDEF THEN 0
      ELSE IF number >= Entries(Section(number)) THEN ELF_RELOC_ERR
      ELSE IF symbol.st_shndx = SHN_UNDEF THEN External
      ELSE IF symbol.st_shndx = SHN_ABS THEN symbol.st_value
      ELSE Add(SectionAddress(Section(symbol.st_shndx)), symbol.st_value)

Load(words, a)     == words[a] + Half * words[Add(a, 1)]
Store(words, a, v) == [words EXCEPT ![a] = v % Half, ![Add(a, 1)] = v \div Half]

(* The switch of elf_do_reloc: *ref is a size_t for every type.            *)
Reloc(words, type, ref, symval) ==
  CASE type = "R_X86_64_NONE" -> words
    [] type = "R_X86_64_32"   -> Store(words, ref, Add(symval, Load(words, ref)))
    [] OTHER -> Store(words, ref, (symval + Load(words, ref) - ref) % Word)

Supported == {"R_X86_64_NONE", "R_X86_64_32", "R_X86_64_PC32", "R_X86_64_PC64"}

(* The relocation is not done; or it is, and its result, which is the      *)
(* symbol's value, is taken for an error when its low half is all ones.    *)
Refused(rel, symval) == symval = ELF_RELOC_ERR \/ rel.type \notin Supported
Truncated(symval)    == symval % Half = Half - 1

(* Mutant of Fail: the loop goes on.                                       *)
FailOn ==
  /\ idx' = idx + 1
  /\ UNCHANGED <<result, pc, i>>

Fail ==
  /\ result' = "error" /\ pc' = "start"
  /\ UNCHANGED <<i, idx>>

DoReloc ==
  LET section == Section(i)
      rel     == file.relocs[i][idx + 1]
      ref     == Add(SectionAddress(Section(section.sh_info)), rel.r_offset)
      symval  == Symval(section.sh_link, rel.symbol)
  IN  IF ~Divides(section.sh_link, rel.symbol)
        THEN pc' = "fault" /\ UNCHANGED <<memory, result, i, idx>>
      ELSE IF Refused(rel, symval)
        THEN Fail /\ UNCHANGED memory
      ELSE /\ memory' = Reloc(memory, rel.type, ref, symval)
           /\ IF Truncated(symval) THEN Fail
              ELSE idx' = idx + 1 /\ UNCHANGED <<result, pc, i>>

(* Mutant of NextSection: the inner counter is not reset.                  *)
NextSectionIdxKept == i' = i + 1 /\ UNCHANGED <<idx, memory, result, pc>>

NextSection == i' = i + 1 /\ idx' = 0 /\ UNCHANGED <<memory, result, pc>>

(* The loops of elf_load_stage2.                                           *)
Stage2 ==
  /\ At("stage2")
  /\ IF i = Len(file.sections)
       THEN pc' = "load" /\ i' = 0 /\ UNCHANGED <<idx, memory, result>>
     ELSE IF Section(i).sh_type # "SHT_REL" THEN NextSection
     ELSE IF Section(i).sh_entsize = 0
       THEN pc' = "fault" /\ UNCHANGED <<memory, result, i, idx>>
     ELSE IF idx = Entries(Section(i)) THEN NextSection ELSE DoReloc
  /\ UNCHANGED <<file, offset, started>>

---------------------------------------------------------------------------
SizeofEhdr == 64
SizeofPhdr == 56

(* Where the i-th program header is, and where hdr + off points.           *)
Declared(f, n) == f.phdrs[f.e_phoff + n * SizeofPhdr]
Found(f, n)    == f.phdrs[SizeofEhdr * (f.e_phoff + n * SizeofPhdr)]

Overflows(phdr) == phdr.p_type = "PT_LOAD" /\ phdr.p_memsz < phdr.p_filesz

(* The loop of elf_load_rel.                                               *)
LoadRel ==
  /\ At("load")
  /\ IF i = file.e_phnum
       THEN offset' = file.e_entry /\ pc' = "start" /\ UNCHANGED i
     ELSE IF Overflows(Found(file, i))
       THEN pc' = "start" /\ UNCHANGED <<offset, i>>
     ELSE i' = i + 1 /\ UNCHANGED <<offset, pc>>
  /\ UNCHANGED <<file, memory, idx, result, started>>

(* _kernel_start creates a process whatever it returned.                   *)
Start ==
  /\ At("start")
  /\ started' = started \union {Hdr + SizeofEhdr * offset}
  /\ pc' = "done"
  /\ UNCHANGED <<file, memory, i, idx, result, offset>>

Next == CheckFile \/ Stage1 \/ Stage2 \/ LoadRel \/ Start

Spec == Init /\ [][Next]_vars

---------------------------------------------------------------------------
Stage == {"check", "stage1", "stage2", "load", "start", "done", "panic", "fault"}

(* How many relocations section n holds.                                   *)
Count(n) ==
  IF Section(n).sh_type = "SHT_REL" /\ Section(n).sh_entsize # 0
    THEN Entries(Section(n)) ELSE 0

(* Variables keep their types, and counters stay within their tables.      *)
TypeOK ==
  /\ memory \in [Addresses -> 0 .. Half - 1]
  /\ pc \in Stage /\ result \in {"ok", "error"} /\ offset \in Nat
  /\ pc \in {"stage1", "stage2"} => i \in 0 .. Len(file.sections)
  /\ pc = "stage2" => idx \in 0 .. IF i < Len(file.sections) THEN Count(i) ELSE 0
  /\ pc = "load" => i \in 0 .. file.e_phnum

HasBss ==
  \E n \in 1 .. Len(file.sections) :
    LET section == file.sections[n]
    IN  section.sh_type = "SHT_NOBITS" /\ section.alloc /\ section.sh_size > 0

(* elf_load_stage1 tells files apart: one with .bss panics before any of it*)
(* is relocated and no process is started from it; any other file, if it is*)
(* an ELF file at all, does not panic, whatever else its sections are.     *)
BssPanics ==
  Stages =>
    /\ HasBss => pc \in {"check", "stage1", "panic"} /\ started = {}
    /\ At("panic") => HasBss \/ file.magic # ELFMAG

Area(base, size) == {Add(base, n) : n \in 0 .. size - 1}

(* A relocation writes to the section it is for, and nowhere else; but as  *)
(* it writes a size_t of two words whatever its type, one for the last word*)
(* of the section may also change the word behind it.                      *)
WritesStayInTarget ==
  [][At("stage2") =>
       \A a \in Addresses : memory'[a] # memory[a] =>
         LET target == Section(Section(i).sh_info)
             base   == Add(Hdr, target.sh_offset)
         IN  \/ a \in Area(base, target.sh_size)
             \/ /\ file.relocs[i][idx + 1].r_offset = target.sh_size - 1
                /\ a = Add(base, target.sh_size)]_vars

---------------------------------------------------------------------------
(* What relocating should do, said without the loader's definitions.  The  *)
(* relocation takes a symbol; the table has it; and its value.             *)
Names(section, rel) == section.sh_link # SHN_UNDEF /\ rel.symbol # SHN_UNDEF

Listed(number) ==
  Section(number).sh_entsize # 0 /\ number < Entries(Section(number))

Value(symbol) ==
  IF symbol.st_shndx = SHN_ABS THEN symbol.st_value
  ELSE Add(Add(Hdr, Section(symbol.st_shndx).sh_offset), symbol.st_value)

(* The k-th relocation of section n: how, where, whether its symbol is     *)
(* found, and with which value.                                            *)
Job(n, k) ==
  LET rel == file.relocs[n][k]
      reltab == Section(n)
  IN  [type  |-> rel.type,
       place |-> Add(Add(Hdr, Section(reltab.sh_info).sh_offset), rel.r_offset),
       found |-> Names(reltab, rel) => Listed(rel.symbol),
       value |-> IF Names(reltab, rel) /\ Listed(rel.symbol)
                   THEN Value(file.symbols[rel.symbol]) ELSE 0]

Jobs ==
  [n \in 1 .. Len(file.sections) |-> [k \in 1 .. Count(n - 1) |-> Job(n - 1, k)]]

(* S + A, and S + A - P where the type is relative to the place.           *)
Patched(words, job) ==
  IF job.type = "R_X86_64_NONE" THEN words
  ELSE LET addend   == words[job.place] + Half * words[Add(job.place, 1)]
           relative == IF job.type = "R_X86_64_32" THEN 0 ELSE job.place
           sum      == (job.value + addend - relative) % Word
       IN  [words EXCEPT ![job.place] = sum % Half, ![Add(job.place, 1)] = sum \div Half]

(* One relocation, unless one before it failed.                            *)
Apply(done, job) ==
  IF done.result = "error" THEN done
  ELSE IF job.found /\ job.type \in {"R_X86_64_NONE", "R_X86_64_32",
                                     "R_X86_64_PC32", "R_X86_64_PC64"}
    THEN [words |-> Patched(done.words, job), result |-> "ok"]
  ELSE [words |-> done.words, result |-> "error"]

(* From where they start, what the first k of a list of relocations do.    *)
Row(jobs, start) ==
  LET row[k \in 0 .. Len(jobs)] ==
        IF k = 0 THEN start ELSE Apply(row[k - 1], jobs[k])
  IN  row

(* ... and the relocations of the first n sections.                        *)
Through(lists, start) ==
  LET through[n \in 0 .. Len(lists)] ==
        IF n = 0 THEN start
        ELSE Row(lists[n], through[n - 1])[Len(lists[n])]
  IN  through

Before == [words |-> file.memory, result |-> "ok"]

(* Not ordinary are an undefined symbol, whose value the loader takes to be*)
(* 0, and a value that, cut to an int, is ELF_RELOC_ERR.                   *)
Usual(section, rel) ==
  LET symbol == file.symbols[rel.symbol]
  IN  Names(section, rel) /\ Listed(rel.symbol) =>
        symbol.st_shndx # SHN_UNDEF /\ Value(symbol) % Half # Half - 1

Ordinary ==
  \A n \in 0 .. Len(file.sections) - 1 :
    \A k \in 1 .. Count(n) : Usual(Section(n), file.relocs[n][k])

(* When stage 2 is over for an ordinary file, every relocation has been    *)
(* applied once and in order, each on what the ones before it left; or it  *)
(* stopped at the first whose symbol is not found or whose type is not     *)
(* supported, with those before it applied and none after it.              *)
RelocatedInOrder ==
  Stages /\ Ordinary /\ pc \in {"load", "start", "done"} =>
    [words |-> memory, result |-> result] = Through(Jobs, Before)[Len(Jobs)]
============================================================================
