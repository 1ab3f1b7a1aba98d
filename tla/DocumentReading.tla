--------------------------- MODULE DocumentReading ---------------------------
(***************************************************************************)
(* One upload of POST /v1/documents/extract, from its bytes to the fields   *)
(* and the checksum report: document_classifier.py, ocr.py, mrz.py and      *)
(* validators.py.  The machine-readable zone is kept character by character *)
(* because its check digits are about characters; the image is only what    *)
(* the code tells apart in it (a format, whether it can be decoded).         *)
(* The adapter runs in a thread and keeps the scan in a temporary file;     *)
(* the process may be killed at any point of it.                             *)
(***************************************************************************)
EXTENDS Integers, Sequences, FiniteSets, FiniteSetsExt, SequencesExt

CONSTANTS
    Holders,       \* what the passports are printed for: HolderAssumption,
                   \* WordAssumption, DateAssumption
    Confusions,    \* <<printed, read>>: the glyphs the OCR mistakes
    MaxMisreads,   \* how many glyphs one reading gets wrong, at most
    CurrentYear    \* datetime.now(tz=UTC).year

ASSUME BoundsAssumption == MaxMisreads \in Nat /\ CurrentYear \in 2000..2098

(***************************************************************************)
(* validators.py: the characters of the zone and the ICAO 9303 digit.       *)
(***************************************************************************)
Digits  == <<"0", "1", "2", "3", "4", "5", "6", "7", "8", "9">>
Letters == <<"A", "B", "C", "D", "E", "F", "G", "H", "I", "J", "K", "L", "M",
             "N", "O", "P", "Q", "R", "S", "T", "U", "V", "W", "X", "Y", "Z">>
Filler  == "<"

DigitSet == ToSet(Digits)
MrzChars == DigitSet \union ToSet(Letters) \union {Filler}

(***************************************************************************)
(* build_td3_mrz computes check digits, which char_value refuses for other  *)
(* characters; fillers at the end pad a value and are not part of it; a      *)
(* nationality has three columns, of letters and fillers (ICAO 9303).        *)
(***************************************************************************)
ASSUME HolderAssumption ==
    \A h \in Holders :
        /\ DOMAIN h = {"number", "nationality", "personal", "sex", "surname",
                       "given", "birth", "expiry"}
        /\ Len(h.number) <= 9 /\ Len(h.personal) <= 14
        /\ \A value \in {h.number, h.personal} :
              value \in Seq(MrzChars) /\ (value # <<>> => Last(value) # Filler)
        /\ h.nationality \in [1..3 -> ToSet(Letters) \union {Filler}]

\* char_value; applied to MrzChars only: the code raises for every other one
CharValue == [c \in MrzChars |->
    IF c = Filler THEN 0
    ELSE (CHOOSE i \in 1..36 : (Digits \o Letters)[i] = c) - 1]

Weights == <<7, 3, 1>>

CheckDigit(field) ==
    MapThenSumSet(LAMBDA i : CharValue[field[i]] * Weights[((i - 1) % 3) + 1],
                  DOMAIN field) % 10

\* parse_check_digit raises where this is not defined
CheckChars == DigitSet \union {Filler}

Verify(field, check) == CheckDigit(field) = CharValue[check]

(***************************************************************************)
(* The columns of a TD3 zone, counted from 1 (validators.py, mrz.py).       *)
(***************************************************************************)
Width == 44

Checked == {"doc_number", "dob", "expiry", "personal"}

FirstColumn == [doc_number |-> 1,  dob |-> 14, expiry |-> 22, personal |-> 29]
LastColumn  == [doc_number |-> 9,  dob |-> 19, expiry |-> 27, personal |-> 42]

Field(line2, f)      == SubSeq(line2, FirstColumn[f], LastColumn[f])
CheckColumn(f)       == LastColumn[f] + 1
FieldColumns(f)      == FirstColumn[f]..CheckColumn(f)
CompositeColumn      == Width
SexColumn            == 21

\* mutant of CompositeField: the optional data left out
CompositeFieldNoPersonal(line2) ==
    SubSeq(line2, 1, 10) \o SubSeq(line2, 14, 20) \o SubSeq(line2, 22, 28)

\* what the composite digit is computed over: every field with its digit
CompositeField(line2) ==
    FlattenSeq([k \in 1..4 |->
        LET f == <<"doc_number", "dob", "expiry", "personal">>[k]
        IN  SubSeq(line2, FirstColumn[f], CheckColumn(f))])

(***************************************************************************)
(* generate_passport_image.py: the zone of a valid passport.                *)
(***************************************************************************)
Pad(value, length) ==
    [i \in 1..length |-> IF i <= Len(value) THEN value[i] ELSE Filler]

DigitChar(n) == Digits[n + 1]
TwoDigits(n) == <<DigitChar((n \div 10) % 10), DigitChar(n % 10)>>
YYMMDD(d)    == TwoDigits(d.year % 100) \o TwoDigits(d.month) \o TwoDigits(d.day)

\* words of a name, one filler between them
Fillers(words) == FlattenSeq([k \in 1..Len(words) |->
                      IF k = 1 THEN words[k] ELSE <<Filler>> \o words[k]])

NameBody(h) == Fillers(h.surname) \o <<Filler, Filler>> \o Fillers(h.given)

\* A name is a sequence of words; _pad refuses what is too long for its field.
Words == Seq(MrzChars \ {Filler}) \ {<<>>}
ASSUME WordAssumption ==
    \A h \in Holders :
        {h.surname, h.given} \subseteq Seq(Words) /\ Len(NameBody(h)) <= 39

Line1(h) == <<"P", Filler, "A", "R", "E">> \o Pad(NameBody(h), 39)

WithDigit(field) == field \o <<DigitChar(CheckDigit(field))>>

Line2(h) ==
    LET front == WithDigit(Pad(h.number, 9)) \o h.nationality
                 \o WithDigit(YYMMDD(h.birth)) \o <<h.sex>>
                 \o WithDigit(YYMMDD(h.expiry)) \o WithDigit(Pad(h.personal, 14))
    IN  front \o <<DigitChar(CheckDigit(CompositeField(front)))>>

Printed == [h \in Holders |-> <<Line1(h), Line2(h)>>]

(***************************************************************************)
(* mrz.py: repair_mrz_chars and the columns whose class it knows.           *)
(***************************************************************************)
DigitToAlpha == [c \in {"0", "1", "2", "5", "8"} |->
    CASE c = "0" -> "O" [] c = "1" -> "I" [] c = "2" -> "Z"
      [] c = "5" -> "S" [] c = "8" -> "B"]

AlphaToDigit == [c \in {"O", "Q", "I", "L", "Z", "S", "B"} |->
    CASE c \in {"O", "Q"} -> "0" [] c \in {"I", "L"} -> "1" [] c = "Z" -> "2"
      [] c = "S" -> "5" [] c = "B" -> "8"]

Translate(table, c) == IF c \in DOMAIN table THEN table[c] ELSE c

\* the columns of each line whose characters must be letters, or digits
AlphaColumns == <<3..5, 11..13>>
\* mutant of DigitColumns: a slice that ends before the expiry's check digit
DigitColumnsShort == <<{}, {10} \union 14..20 \union 22..27 \union {43, 44}>>
DigitColumns == <<{}, {10} \union 14..20 \union 22..28 \union {43, 44}>>

RepairLine(l, line) ==
    [i \in 1..Width |->
        IF i \in AlphaColumns[l] THEN Translate(DigitToAlpha, line[i])
        ELSE IF i \in DigitColumns[l] THEN Translate(AlphaToDigit, line[i])
        ELSE line[i]]

\* the adapter pads or cuts both lines to their width before it repairs them
Repair(text) == [l \in 1..2 |-> RepairLine(l, Pad(text[l], Width))]

(***************************************************************************)
(* mrz.py: parse_td3 and its helpers.                                       *)
(***************************************************************************)
NoDate == [year |-> 0, month |-> 0, day |-> 0]   \* None

IsLeap(y) == y % 4 = 0 /\ (y % 100 # 0 \/ y % 400 = 0)
\* mutant of DaysIn: every month has 31 days
DaysInAnyMonth(y, m) == 31
DaysIn(y, m) == CASE m \in {4, 6, 9, 11} -> 30
                  [] m = 2 /\ IsLeap(y) -> 29
                  [] m = 2 /\ ~IsLeap(y) -> 28
                  [] OTHER -> 31

\* A passport has days of the calendar.
ASSUME DateAssumption ==
    \A h \in Holders : \A d \in {h.birth, h.expiry} :
        /\ d = [year |-> d.year, month |-> d.month, day |-> d.day]
        /\ d.year \in Nat /\ d.month \in 1..12 /\ d.day \in 1..DaysIn(d.year, d.month)

DobSlack == 1
\* mutant of BirthCentury: this year's children are a hundred years old
BirthCenturyStrict(yy) == IF yy >= CurrentYear % 100 THEN 1900 ELSE 2000
BirthCentury(yy)  == IF yy > (CurrentYear % 100) + DobSlack THEN 1900 ELSE 2000
ExpiryCentury(yy) == IF yy < 50 THEN 2000 ELSE 1900
Century(kind, yy) == IF kind = "birth" THEN BirthCentury(yy) ELSE ExpiryCentury(yy)

\* date(century + yy, mm, dd), or None when the calendar has no such day
DateOf(raw, kind) ==
    IF \E i \in 1..6 : raw[i] \notin DigitSet THEN NoDate
    ELSE LET pair(i) == 10 * CharValue[raw[i]] + CharValue[raw[i + 1]]
             year    == Century(kind, pair(1)) + pair(1)
         IN  IF pair(3) \in 1..12 /\ pair(5) \in 1..DaysIn(year, pair(3))
             THEN [year |-> year, month |-> pair(3), day |-> pair(5)]
             ELSE NoDate

ParseDob(raw)    == DateOf(raw, "birth")
ParseExpiry(raw) == DateOf(raw, "expiry")

Sex(c) == IF c \in {"M", "F"} THEN c
          ELSE IF c \in {"X", Filler} THEN "X" ELSE "none"

\* str.rstrip("<")
RightStrip(s) ==
    LET kept == {i \in DOMAIN s : s[i] # Filler}
    IN  IF kept = {} THEN <<>> ELSE SubSeq(s, 1, Max(kept))

\* replace("<", " ").strip(): a space is still written as a filler here
Strip(s) ==
    LET kept == {i \in DOMAIN s : s[i] # Filler}
    IN  IF kept = {} THEN <<>> ELSE SubSeq(s, Min(kept), Max(kept))

DoubleFillers(s) == {i \in 1..(Len(s) - 1) : s[i] = Filler /\ s[i + 1] = Filler}

\* _parse_name splits at the first double filler
ParseName(field) ==
    LET at == DoubleFillers(field)
    IN  IF at = {} THEN [surname |-> Strip(field), given |-> <<>>]
        ELSE [surname |-> Strip(SubSeq(field, 1, Min(at) - 1)),
              given   |-> Strip(SubSeq(field, Min(at) + 2, Len(field)))]

\* mutant of StripOcrJunk: names as they were split
StripOcrJunkNever(name) == name

\* extraction_service._strip_ocr_junk: nothing after a run of two spaces
StripOcrJunk(name) ==
    IF DoubleFillers(name) = {} THEN name
    ELSE SubSeq(name, 1, Min(DoubleFillers(name)) - 1)

Report(line2) ==
    [f \in Checked \union {"composite"} |->
        IF f = "composite"
        THEN /\ line2[CompositeColumn] \in DigitSet
             /\ Verify(CompositeField(line2), line2[CompositeColumn])
        ELSE Verify(Field(line2, f), line2[CheckColumn(f)])]

\* ValueError: char_value or parse_check_digit meets a character it refuses
Raises(line2) ==
    \E f \in Checked : \/ \E i \in FirstColumn[f]..LastColumn[f] : line2[i] \notin MrzChars
                       \/ line2[CheckColumn(f)] \notin CheckChars

\* parse_td3 followed by _fields_from_parsed
Parse(lines) ==
    LET names == ParseName(SubSeq(lines[1], 6, Width))
    IN  [surname     |-> StripOcrJunk(names.surname),
         given       |-> StripOcrJunk(names.given),
         number      |-> RightStrip(Field(lines[2], "doc_number")),
         nationality |-> SubSeq(lines[2], 11, 13),
         birth       |-> ParseDob(Field(lines[2], "dob")),
         sex         |-> Sex(lines[2][SexColumn]),
         expiry      |-> ParseExpiry(Field(lines[2], "expiry")),
         personal    |-> RightStrip(Field(lines[2], "personal")),
         checksums   |-> Report(lines[2])]

\* ChecksumReport.status
Status(report) ==
    IF \A f \in DOMAIN report : report[f] THEN "all_pass"
    ELSE IF \A f \in DOMAIN report : ~report[f] THEN "all_fail"
    ELSE "partial"

-----------------------------------------------------------------------------
(***************************************************************************)
(* The reading itself.                                                      *)
(***************************************************************************)
VARIABLES
    holder,    \* whose passport was scanned
    format,    \* what the bytes are
    stage,     \* where the thread stands
    text,      \* the two lines the OCR has read
    misread,   \* <<line, column>> of every glyph it got wrong
    temp,      \* the temporary file with the scan
    outcome,   \* what the caller is told, "pending" until it is known
    fields     \* the parsed zone, Nothing without one

readVars == <<holder, format, stage, text, misread, temp, outcome, fields>>

\* "image" is a JPEG, a PNG or a TIFF: the code treats the three alike
Accepted == {"image", "pdf"}
Formats  == Accepted \union {"heic", "unknown", "empty"}
Nothing  == [none |-> TRUE]

\* "kept" is a file that the operating system refused to remove
TempFiles == {"none", "present", "kept"}
Stages   == {"received", "adapter", "rasterise", "decode", "open", "write",
             "ocr", "unlink", "lines", "done"}
Outcomes == {"pending", "unsupported", "unavailable", "unreadable", "error",
             "read", "killed"}

ReadInit ==
    /\ holder \in Holders
    /\ format \in Formats
    /\ stage = "received"
    /\ text = Printed[holder]
    /\ misread = {}
    /\ temp = "none"
    /\ outcome = "pending"
    /\ fields = Nothing

At(s) == stage = s /\ outcome = "pending"

Go(s) == /\ stage' = s
         /\ UNCHANGED <<holder, format, text, misread, temp, outcome, fields>>

Answer(o) == /\ stage' = "done"
             /\ outcome' = o
             /\ UNCHANGED <<holder, format, text, misread, temp, fields>>

\* classify
Classify ==
    /\ At("received")
    /\ IF format \in Accepted THEN Go("adapter") ELSE Answer("unsupported")

\* PassportEye and Pillow are optional extras
Import ==
    /\ At("adapter")
    /\ \/ Go(IF format = "pdf" THEN "rasterise" ELSE "decode")
       \/ Answer("unavailable")

\* _rasterise_pdf: the first page as a JPEG; PyMuPDF missing, or no page
Rasterise ==
    /\ At("rasterise")
    /\ \/ /\ stage' = "decode"
          /\ format' = "image"
          /\ UNCHANGED <<holder, text, misread, temp, outcome, fields>>
       \/ Answer("unavailable")
       \/ Answer("unreadable")

\* Image.open: an error that is neither of the two the handler names escapes
Decode ==
    /\ At("decode")
    /\ \/ Go("open")
       \/ Answer("unreadable")
       \/ Answer("error")

\* NamedTemporaryFile(delete=False), outside the try
OpenTemp ==
    /\ At("open")
    /\ \/ /\ stage' = "write"
          /\ temp' = "present"
          /\ UNCHANGED <<holder, format, text, misread, outcome, fields>>
       \/ Answer("error")

\* leave the try with this outcome already known: finally comes next
Leave(o) == /\ stage' = "unlink"
            /\ outcome' = o
            /\ UNCHANGED <<holder, format, text, misread, temp, fields>>

\* mutant of WriteTemp: the write stands outside the try
WriteTempUnguarded ==
    /\ At("write")
    /\ \/ Go("ocr")
       \/ Answer("error")

WriteTemp ==
    /\ At("write")
    /\ \/ Go("ocr")
       \/ Leave("error")

\* the OCR takes one glyph for another
Misread(l, i, c) ==
    /\ At("ocr")
    /\ Cardinality(misread) < MaxMisreads
    /\ i \in DOMAIN text[l]
    /\ <<l, i>> \notin misread
    /\ <<text[l][i], c>> \in Confusions
    /\ text' = [text EXCEPT ![l][i] = c]
    /\ misread' = misread \union {<<l, i>>}
    /\ UNCHANGED <<holder, format, stage, temp, outcome, fields>>

\* the OCR loses the last glyph of a line; the adapter pads it again
Clip(l) ==
    /\ At("ocr")
    /\ Cardinality(misread) < MaxMisreads
    /\ Len(text[l]) = Width
    /\ <<l, Width>> \notin misread
    /\ text' = [text EXCEPT ![l] = Front(@)]
    /\ misread' = misread \union {<<l, Width>>}
    /\ UNCHANGED <<holder, format, stage, temp, outcome, fields>>

\* read_mrz raises, or returns
Recognise ==
    /\ At("ocr")
    /\ \/ Leave("unavailable")
       \/ Leave("pending")

\* the finally: an OSError of os.unlink is suppressed, and the reading goes on
Unlink ==
    /\ stage = "unlink"
    /\ temp' \in {"none", "kept"}
    /\ stage' = IF outcome = "pending" THEN "lines" ELSE "done"
    /\ UNCHANGED <<holder, format, text, misread, outcome, fields>>

\* no region, no text, or fewer than two lines
NoZone == At("lines") /\ Answer("unreadable")

\* repair_mrz_chars, parse_td3, _fields_from_parsed
ReadZone ==
    LET lines == Repair(text)
    IN  /\ At("lines")
        /\ stage' = "done"
        /\ IF Raises(lines[2])
           THEN outcome' = "error" /\ UNCHANGED fields
           ELSE outcome' = "read" /\ fields' = Parse(lines)
        /\ UNCHANGED <<holder, format, text, misread, temp>>

\* the container is stopped: nothing runs after it, the file included
Kill ==
    /\ stage # "done"
    /\ stage' = "done"
    /\ outcome' = "killed"
    /\ UNCHANGED <<holder, format, text, misread, temp, fields>>

ReadNext ==
    \/ Classify \/ Import \/ Rasterise \/ Decode \/ OpenTemp \/ WriteTemp
    \/ \E l \in 1..2, i \in 1..Width, pair \in Confusions : Misread(l, i, pair[2])
    \/ \E l \in 1..2 : Clip(l)
    \/ Recognise \/ Unlink \/ NoZone \/ ReadZone
    \/ Kill

ReadSpec == ReadInit /\ [][ReadNext]_readVars
-----------------------------------------------------------------------------
(***************************************************************************)
(* Properties                                                               *)
(***************************************************************************)
Dates == [year : 1900..2099, month : 1..12, day : 1..31]
IsDate(d) ==
    /\ d \in Dates
    /\ d.month \in {4, 6, 9, 11} => d.day <= 30
    /\ d.month = 2 => d.day <= 28 \/ (d.day = 29 /\ d.year % 4 = 0 /\ d.year # 1900)

\* Types: a parsed date is a day of the calendar or none at all, and only a
\* reading that ended has fields.
ReadTypeOK ==
    /\ holder \in Holders /\ format \in Formats
    /\ stage \in Stages /\ outcome \in Outcomes /\ temp \in TempFiles
    /\ misread \subseteq (1..2) \X (1..Width)
    /\ DOMAIN text = 1..2 /\ \A l \in 1..2 : Len(text[l]) \in {Width - 1, Width}
    /\ (fields # Nothing) <=> (outcome = "read")
    /\ fields # Nothing =>
          /\ fields.birth = NoDate \/ IsDate(fields.birth)
          /\ fields.expiry = NoDate \/ IsDate(fields.expiry)

\* No way out of the adapter forgets the scan of a passport (ocr.py: the
\* finally): when the reading is over its file is gone, unless the process was
\* killed under it or the operating system refused to remove it, of which
\* nobody is told.
NoScanLeft == stage = "done" => temp \in {"none", "kept"} \/ outcome = "killed"

\* The columns of line 2 that differ from the print after the repair, and the
\* ones among them no check digit can tell from the print.
Altered ==
    LET line2 == Repair(text)[2]
    IN  {i \in 1..Width : line2[i] # Printed[holder][2][i]}
SameValue(i) ==
    CharValue[Repair(text)[2][i]] % 10 = CharValue[Printed[holder][2][i]] % 10

\* One glyph of line 2 read wrong under a check digit fails the field's own
\* digit and the composite one, unless the two glyphs weigh the same modulo
\* ten, as the filler and K do.  A wrong composite digit fails by itself.
MisreadIsSeen ==
    outcome = "read" /\ Cardinality(misread) = 1 =>
        \A i \in Altered :
            /\ \A f \in Checked :
                  i \in FieldColumns(f) /\ ~SameValue(i) =>
                      ~fields.checksums[f] /\ ~fields.checksums.composite
            /\ i = CompositeColumn => ~fields.checksums.composite

\* A misreading the substitution tables are there for: a letter for a digit
\* where the standard has digits, a digit for a letter where it has letters.
Undoable(l, i) ==
    LET printed  == Printed[holder][l][i]
        read     == Pad(text[l], Width)[i]
        digits   == FieldColumns("dob") \union FieldColumns("expiry")
                    \union {CheckColumn(f) : f \in Checked} \union {CompositeColumn}
    IN  \/ /\ l = 2 /\ i \in digits
           /\ read \in DOMAIN AlphaToDigit /\ AlphaToDigit[read] = printed
        \/ /\ <<l, i>> \in ({1} \X (3..5)) \union ({2} \X (11..13))
           /\ read \in DOMAIN DigitToAlpha /\ DigitToAlpha[read] = printed

\* A valid passport read with nothing but such misreadings (none included)
\* passes all five checks and gives what was printed.
RepairUndoes ==
    At("lines") /\ (\A m \in misread : Undoable(m[1], m[2])) =>
        LET lines == Repair(text)
            parsed == Parse(lines)
        IN  /\ lines = Printed[holder]
            /\ ~Raises(lines[2])
            /\ Status(parsed.checksums) = "all_pass"
            /\ parsed.number = holder.number /\ parsed.personal = holder.personal
            /\ parsed.nationality = holder.nationality /\ parsed.sex = Sex(holder.sex)

\* Two digits of a year are read into the right century for a holder of at
\* most 98 years and for a passport that expires before 2050.
DatesAreRight ==
    outcome = "read" =>
        /\ CurrentYear - holder.birth.year \in 0..98 /\ Altered \intersect 14..19 = {}
              => fields.birth = holder.birth
        /\ holder.expiry.year \in 1950..2049 /\ Altered \intersect 22..27 = {}
              => fields.expiry = holder.expiry

\* Nobody is read as born in a year to come (the docstring of _parse_dob, and
\* the comment of the test of its century).
NoFutureBirth == outcome = "read" => fields.birth.year <= CurrentYear

\* Only fillers behind the name, from the third on, were misread (as the K and
\* X of a phone camera) ...
OnlyFillersMisread ==
    \A m \in misread : m[1] = 1 => m[2] < 6 \/ m[2] > 5 + Len(NameBody(holder)) + 2

\* ... and do not reach the names.
NamesWhole ==
    fields.surname = Fillers(holder.surname) /\ fields.given = Fillers(holder.given)

\* The holder of a given name keeps both names whole.  (Behind a surname alone a
\* misread filler is taken for a given name: _strip_ocr_junk strips first.)
NamesReadWhole == outcome = "read" /\ holder.given # <<>> /\ OnlyFillersMisread => NamesWhole

\* A wrong field is reported in the checksums; it does not raise
\* (the docstring of parse_td3).
FieldIssuesDoNotRaise == At("lines") => ~Raises(Repair(text)[2])
=============================================================================
