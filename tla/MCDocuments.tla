---------------------------- MODULE MCDocuments ----------------------------
(***************************************************************************)
(* One instance for the two parts whose difficulty is in their data: a      *)
(* behaviour either reads a document or respells a name.                    *)
(***************************************************************************)
EXTENDS DocumentReading, ArabicNames

Day(y, m, d) == [year |-> y, month |-> m, day |-> d]

\* A leap day in 2000 and fields with room; a 98-year-old with full fields;
\* a newborn without a given name; a holder of 99, whom no window covers.
MCHolders == {
    [number |-> <<"P", "1", "2", "3", "4", "5", "6", "7">>,
     nationality |-> <<"I", "O", "S">>, personal |-> <<>>, sex |-> "F",
     surname |-> <<<<"A", "L", "I">>>>, given |-> <<<<"S", "A">>, <<"B">>>>,
     birth |-> Day(2000, 2, 29), expiry |-> Day(2030, 2, 28)],
    [number |-> <<"Z", "S", "0", "5", "8", "1", "2", "6", "4">>,
     nationality |-> <<"B", "A", "Z">>, personal |-> <<"7", "8", "4", "K">>,
     sex |-> "M", surname |-> <<<<"A", "L">>, <<"B", "A", "Z">>>>,
     given |-> <<<<"O">>>>,
     birth |-> Day(1928, 12, 5), expiry |-> Day(2049, 12, 31)],
    [number |-> <<"L", "8">>,
     nationality |-> <<"A", "R", "E">>, personal |-> <<>>, sex |-> "<",
     surname |-> <<<<"N", "O", "R">>>>, given |-> <<>>,
     birth |-> Day(2026, 1, 1), expiry |-> Day(2031, 6, 1)],
    [number |-> <<"Q", "0", "1">>,
     nationality |-> <<"A", "R", "E">>, personal |-> <<>>, sex |-> "M",
     surname |-> <<<<"S", "A", "D">>>>, given |-> <<<<"I">>>>,
     birth |-> Day(1927, 3, 3), expiry |-> Day(2050, 1, 1)]}

\* The confusions the substitution tables name, the ones the adapter's
\* docstring knows of, and some within a class.
MCConfusions ==
    {<<"0", "O">>, <<"0", "Q">>, <<"1", "I">>, <<"1", "L">>, <<"2", "Z">>,
     <<"5", "S">>, <<"8", "B">>, <<"O", "0">>, <<"I", "1">>, <<"Z", "2">>,
     <<"S", "5">>, <<"B", "8">>, <<"<", "K">>, <<"<", ">">>,
     <<"1", "7">>, <<"8", "9">>, <<"6", "G">>}

MCNames == {
    <<"alef_hamza", "hah", "meem", "dal">>,
    <<"feh", "alef", "tah", "meem", "taa_marbuta", Space, "ain", "lam", "alef_maksura">>,
    <<"alef", "lam", "meem", "noon", "sad", "waw", "reh", "yeh">>,
    <<"alef", "lam", "alef", "lam", "meem", "alef", "noon", "yeh">>,
    <<"reh", "waw_hamza", Space, "peh">>,
    <<"J", "o", "h", "n", Space, "O", "'", "K", "e", "y">>,
    <<"A", "b", "d", Space, Space, "a", "l", Hyphen, "F", "a", "y", "z">>,
    <<"B", "i", "n", "t", Hyphen, "N", "o", "o", "r", "a">>,
    <<"B", "o", "n", Space, "A", "l", "i">>}

vars == <<readVars, nameVars>>

NoReading ==
    /\ holder \in {CHOOSE h \in Holders : TRUE} /\ format = "empty"
    /\ stage = "done" /\ text = Printed[holder] /\ misread = {}
    /\ temp = "none" /\ outcome = "unsupported" /\ fields = Nothing
NoName == original = <<>> /\ spelling = <<>> /\ changes = MaxChanges

MCInit == (ReadInit /\ NoName) \/ (NoReading /\ NameInit)
MCNext == \/ ReadNext /\ UNCHANGED nameVars
          \/ NameNext /\ UNCHANGED readVars
          \/ stage = "done" /\ changes = MaxChanges /\ UNCHANGED vars
MCSpec == MCInit /\ [][MCNext]_vars
=============================================================================
