------------------------------ MODULE ImportTable ------------------------------
(***************************************************************************)
(* parse_pe_imports: which modules a Windows executable imports, read from *)
(* the bytes of the file.  Everything in the file may be wrong: addresses  *)
(* are 32-bit numbers that must be mapped through the section table to     *)
(* offsets inside the file, and the import table must end by itself.       *)
(*                                                                         *)
(* An image is [sections, cells, importRva, importSize, delayRva,          *)
(* delaySize].  The unit is a descriptor: a cell holds a descriptor (0 for *)
(* the zero one, or the address of the module's name) or, read as a name,  *)
(* that name (0 for one that is empty or never ends).                      *)
(***************************************************************************)
EXTENDS Naturals, Sequences, FiniteSets, FiniteSetsExt

CONSTANT W  \* addresses are numbers below W

ASSUME ImportTableAssumption == W \in Nat \ {0}

Section == [va : 0..(W - 1), vsize : 0..(W - 1), raw : 0..(W - 1), rsize : 0..(W - 1)]

Image ==
  [sections : Seq(Section), cells : Seq(Nat), importRva : 0..(W - 1), importSize : 0..(W - 1),
   delayRva : 0..(W - 1), delaySize : 0..(W - 1)]

SaturatingAdd(a, b) == Min({a + b, W - 1})
ParsedPe == [imports : SUBSET Nat, delay : Nat]
Rejected == [imports |-> {}, delay |-> 0]
NoOffset == W * W

Covers(s, rva) ==
  rva >= s.va /\ rva < SaturatingAdd(s.va, Max({s.vsize, s.rsize}))

(* Mutant: the whole virtual size is taken to be in the file.              *)
InFile_Virtual(s, delta, length) == s.raw + delta < W /\ s.raw + delta < length
(* The raw bytes of the section and the file itself must reach that far.   *)
InFile(s, delta, length) ==
  delta < s.rsize /\ s.raw + delta < W /\ s.raw + delta < length

(* The first section that covers the address decides.                      *)
RvaToOffset(rva, sections, length) ==
  LET covering == {i \in DOMAIN sections : Covers(sections[i], rva)} IN
  IF covering = {} THEN NoOffset
  ELSE LET s == sections[Min(covering)]
           delta == rva - s.va
       IN IF InFile(s, delta, length) THEN s.raw + delta ELSE NoOffset

Cell(image, offset) == image.cells[offset + 1]
Length(image) == Len(image.cells)

(* The first zero descriptor among the first size ones, or NoOffset; what  *)
(* is read beyond the end of the file is an error.                         *)
Terminator(image, offset, size) ==
  Min({i \in 0..(size - 1) : offset + i < Length(image) /\ Cell(image, offset + i) = 0}
      \cup {NoOffset})

NameAt(image, rva) ==
  LET offset == RvaToOffset(rva, image.sections, Length(image))
  IN IF offset = NoOffset THEN 0 ELSE Cell(image, offset)

ParsePeImports(image) ==
  LET length == Length(image)
      offset == RvaToOffset(image.importRva, image.sections, length)
      end == Terminator(image, offset, image.importSize)
      names == {NameAt(image, Cell(image, offset + i)) : i \in 0..(end - 1)}
      delayOffset == RvaToOffset(image.delayRva, image.sections, length)
      delayEnd == Terminator(image, delayOffset, image.delaySize)
  IN IF image.importRva = 0 \/ image.importSize = 0 \/ offset = NoOffset
        \/ end = NoOffset \/ end = 0 THEN Rejected
     ELSE IF 0 \in names THEN Rejected
     ELSE IF image.delayRva = 0 /\ image.delaySize = 0
            THEN [imports |-> names, delay |-> 0]
     ELSE IF image.delayRva = 0 \/ image.delaySize = 0 \/ delayOffset = NoOffset
             \/ delayEnd = NoOffset THEN Rejected
     ELSE [imports |-> names, delay |-> delayEnd]

-----------------------------------------------------------------------------
(* What a loader would map, without widths or bounds: the cell at an       *)
(* address, and the descriptors up to the first zero one.                  *)
LoadedFrom(image, rva, offset) ==
  \E i \in DOMAIN image.sections :
    LET s == image.sections[i] IN
    /\ s.va <= rva /\ rva < s.va + s.rsize
    /\ offset = s.raw + (rva - s.va)
    /\ offset < Length(image)
=============================================================================
