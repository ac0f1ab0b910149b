--------------------------------- MODULE Demos ---------------------------------
(*****************************************************************************)
(* The sequential demos: demo/csv.c and demo/stringlist.c.  They share       *)
(* nothing: `part` says which of them runs, if it is one of them, and the    *)
(* other keeps one of its initial states.                                    *)
(*****************************************************************************)
EXTENDS Integers

CONSTANTS
  Lens, Base,                   \* of csv.c
  Sizes, Garbage, Letter        \* of stringlist.c

VARIABLES
  part,               \* "csv", "stringlist", or something else
  csvLen, csvInput, csvLine, csvPc, csvS, csvN, csvVals, csvV,
  strHeap, strPc, strSize, strCaller, strN, strI, strStr0, strJ, strS, strSl, strResult

csv        == <<csvLen, csvInput, csvLine, csvPc, csvS, csvN, csvVals, csvV>>
stringlist == <<strHeap, strPc, strSize, strCaller, strN, strI, strStr0, strJ, strS, strSl,
                strResult>>

C == INSTANCE Csv WITH
       len <- csvLen, input <- csvInput, line <- csvLine, pc <- csvPc, s <- csvS, n <- csvN,
       vals <- csvVals, v <- csvV

T == INSTANCE StringList WITH
       heap <- strHeap, pc <- strPc, size <- strSize, caller <- strCaller, n <- strN, i <- strI,
       str0 <- strStr0, j <- strJ, s <- strS, sl <- strSl, result <- strResult

ASSUME DemosAssumption == C!CsvAssumption /\ T!StringListAssumption

-----------------------------------------------------------------------------
DemosInit == C!Init /\ T!Init

CsvStep == part = "csv" /\ C!Next /\ UNCHANGED <<part, stringlist>>

StringStep == part = "stringlist" /\ T!Next /\ UNCHANGED <<part, csv>>

DemosSpec == DemosInit /\ [][CsvStep \/ StringStep]_<<part, csv, stringlist>>

-----------------------------------------------------------------------------
\* csv.c, stringlist.c: every access is within the line, wherever its commas
\* are, and within the chars of a string.
InBounds == C!InBounds /\ T!InBounds

\* csv.c: the fields partition the line, and lowercasing reaches every char of
\* a field and nothing else.
FieldsAreTheLine == C!FieldsPartition /\ C!FieldsLowered

\* stringlist.c: linked data keep their shape.  The field len of a string tells
\* the length of its field str, and string_succ goes on to the next string.
StructuresKept == T!LengthsAgree /\ T!SuccIsNext
===============================================================================
