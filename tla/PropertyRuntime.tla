-------------------------- MODULE PropertyRuntime --------------------------
(***************************************************************************)
(* PropertyRuntime (app/module/property_runtime.go): opening app.properties *)
(* of an environment, the line scanner of PropertyStore.Load, and the      *)
(* validator that remembers which keys were asked for.                     *)
(*                                                                         *)
(* A line is a record: its kind ("assign" when it holds a '=' and is no    *)
(* comment, "skip", or "huge" when the scanner cannot buffer it), the key  *)
(* and the text after the '=', and whether it ends with a backslash.  A    *)
(* text is a sequence of pieces; the empty text is << >>.  A key is a pair *)
(* of prefix and suffix.                                                   *)
(***************************************************************************)
EXTENDS Integers, Sequences, SequencesExt, FiniteSetsExt

CONSTANT NoFile     \* an environment without the file

VARIABLES
    envFS,          \* envFS[e]: the file embedded for environment e
    env,            \* the environment asked for
    file,           \* the lines of the opened file
    pos,            \* the next line to scan
    key, value, isMultiLine,   \* Load's local variables
    values,         \* PropertyStore.values
    usedKeys        \* PropertyUsageValidator.usedKeys

inputVars == <<envFS, env>>
scanVars  == <<file, pos, key, value, isMultiLine>>
storeVars == <<values, usedKeys>>

EmptyKey == <<"", "">>

LineRecords ==
    [kind : {"assign", "skip", "huge"}, key : STRING \X STRING, text : Seq(STRING),
     cont : BOOLEAN]

\* LoadPropertiesByFS: the default is for a file the environment does not have.
LoadPropertiesByFS(properties, default) ==
    IF properties # NoFile THEN properties ELSE default

\* LoadProperties: the file it opens, or NoFile when it returns an error.
opened ==
    IF {env, "default"} \subseteq DOMAIN envFS
    THEN LoadPropertiesByFS(envFS[env], envFS["default"])
    ELSE NoFile

----------------------------------------------------------------------------
(* PropertyStore.                                                           *)

Set(k, text) ==
    values' = [x \in DOMAIN values \cup {k} |-> IF x = k THEN text ELSE values[x]]

Get(k) == IF k \in DOMAIN values THEN values[k] ELSE << >>

\* addProperty, with k and text as the values of key and value.
addProperty(k, text) ==
    /\ IF k = EmptyKey THEN UNCHANGED values /\ value' = text
       ELSE Set(k, text) /\ value' = << >>
    /\ key' = EmptyKey

Keys == DOMAIN values

\* The characters of a whole line, key and '=' included.
whole(line) ==
    IF line.kind = "assign" THEN line.key \o <<"=">> \o line.text ELSE line.text

\* Mutant: comments are skipped before a continuation is looked at.
continuesUnlessComment(line) == isMultiLine /\ line.kind = "assign"

\* A line after a backslash belongs to the value, whatever it looks like.
continues(line) == isMultiLine

\* One round of Load's loop.
scanLine(line) ==
    IF continues(line)
    THEN /\ isMultiLine' = line.cont
         /\ IF line.cont
            THEN value' = value \o whole(line) /\ UNCHANGED <<key, values>>
            ELSE addProperty(key, value \o whole(line))
    ELSE IF line.kind = "skip"
    THEN UNCHANGED <<key, value, isMultiLine, values>>
    ELSE /\ isMultiLine' = line.cont
         /\ IF line.cont
            THEN key' = line.key /\ value' = line.text /\ UNCHANGED values
            ELSE addProperty(line.key, line.text)

\* Scan returns false: at the end, or at a line that is too long.
scanned == pos <= Len(file) => file[pos].kind = "huge"

----------------------------------------------------------------------------
(* PropertyUsageValidator.                                                  *)

\* Mutant: only a key that has a value is noted.
PropertyIfSet(ks) == usedKeys' = usedKeys \cup {k \in ks : Get(k) # << >>}

\* Property, for every key of ks: the key is noted before it is looked up.
Property(ks) == usedKeys' = usedKeys \cup ks

\* Validate: the keys of the store nobody asked for.
ValidateUnused == Keys \ usedKeys

----------------------------------------------------------------------------
(* What a file says, without a scanner.                                     *)

\* Line i belongs to an assignment above it: every line from there ends with a
\* backslash.
joined(f, i) ==
    \E j \in 1 .. i - 1 : f[j].kind = "assign" /\ \A k \in j .. i - 1 : f[k].cont

\* The text of the assignment that starts in line i.
textAt(f, i) ==
    LET after == {k \in i + 1 .. Len(f) : \A j \in i .. k - 1 : f[j].cont}
    IN  f[i].text \o FlattenSeq([n \in 1 .. Cardinality(after) |-> whole(f[i + n])])

\* The key-value pairs of file f: the last assignment of a key counts.
written(f) ==
    LET starts == {i \in 1 .. Len(f) : f[i].kind = "assign" /\ f[i].key # EmptyKey
                                       /\ ~joined(f, i)}
    IN  [k \in {f[i].key : i \in starts} |->
            textAt(f, Max({i \in starts : f[i].key = k}))]

\* The lines before one the scanner cannot buffer.
readable(f) ==
    LET huge == {i \in 1 .. Len(f) : f[i].kind = "huge"}
    IN  IF huge = {} THEN f ELSE SubSeq(f, 1, Min(huge) - 1)
=============================================================================
