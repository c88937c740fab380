------------------------------- MODULE Lexer -------------------------------
(***************************************************************************)
(* The lexer: Lexer::lex, which reads the tokens of a text into the syntax *)
(* tree, and Lexer::yylex_core, which reads one of them.                   *)
(*                                                                         *)
(* The two alternate.  While `lexing', yylex_core consumes the text: blanks,*)
(* backslashes and dropped comments one by one, then a token.  The token   *)
(* then goes to the place of lex() that asked for it, `pc'.  Directives,   *)
(* and the marks Qt Creator's preprocessor leaves around an expanded macro,*)
(* are consumed there and leave no token.                                  *)
(*                                                                         *)
(* Left out: rawSyntaxK_splitTk, which is only set at the end of the text, *)
(* where every path that reads it returns the end of the file; and the     *)
(* 16-bit width of the sizes of a token, which no text here exceeds.       *)
(***************************************************************************)
EXTENDS Lexemes

VARIABLES
    at,          \* the place of yychar_: 0 before the text, End after it
    within,      \* withinLogicalLine_: a backslash was read, and only blanks since
    lexing,      \* whether yylex_core runs
    tk,          \* the token it fills
    pc,          \* where lex() waits for the token
    hash,        \* the offset of the hash of the directive being read
    lineno,      \* the number read in a line directive or in a mark
    skip,        \* tokens of a mark still to be passed over
    expansions,  \* what the current mark says of the tokens to come
    expansionIdx,\* how many of them were used
    braces,      \* the open braces, by index of token
    tokens,      \* the tokens of the tree, from index 1
    matching,    \* matchingBracket_, where it was set
    comments,    \* the comments of the tree
    directives,  \* the line directives of the tree
    marks,       \* the expansions of the tree: offset and real position
    diagnostics  \* what was diagnosed, and at which token

reading == <<at, within, lexing, tk>>
tree == <<tokens, matching, comments, directives, marks>>
marking == <<skip, expansions, expansionIdx>>
vars == <<text, options, reading, pc, hash, lineno, marking, braces, tree, diagnostics>>

NoKind == <<>>
Fresh == [kind |-> NoKind, from |-> 0, to |-> 0, low |-> 0, high |-> 0,
          bol |-> FALSE, ws |-> FALSE, joined |-> FALSE,
          expanded |-> FALSE, generated |-> FALSE]

\* The generated token of an expansion has no position of its own.
Generated == <<0, 0>>

Start ==
    /\ at = 0 /\ within = FALSE /\ lexing = TRUE /\ tk = Fresh
    /\ pc = "token" /\ hash = 0 /\ lineno = 0 /\ skip = 0
    /\ expansions = <<>> /\ expansionIdx = 0
    /\ braces = <<>> /\ tokens = <<>> /\ matching = <<>> /\ comments = <<>>
    /\ directives = <<[offset |-> 0, lineno |-> 1]>> /\ marks = <<>>
    /\ diagnostics = <<>>

-----------------------------------------------------------------------------
(* Lexer::yylex_core.                                                      *)

Blank ==
    /\ lexing /\ Char(at) \in Blanks
    /\ tk' = IF Char(at) = "\n" THEN [tk EXCEPT !.bol = ~within, !.joined = within]
             ELSE [tk EXCEPT !.ws = TRUE]
    /\ within' = IF Char(at) = "\n" THEN FALSE ELSE within
    /\ at' = at + 1
    /\ UNCHANGED <<text, options, lexing, pc, hash, lineno, marking, braces, tree, diagnostics>>

(* Mutant: the place where the token begins is taken behind it.            *)
Return_LateStart(read) ==
    /\ tk' = [tk EXCEPT !.kind = read.kind, !.from = read.end, !.to = read.end,
                        !.low = read.low, !.high = read.high]
    /\ at' = read.end
    /\ lexing' = FALSE

\* yylex_core returns with what was read.
Return(read) ==
    /\ tk' = [tk EXCEPT !.kind = read.kind, !.from = at, !.to = read.end,
                        !.low = read.low, !.high = read.high]
    /\ at' = read.end
    /\ lexing' = FALSE

ReadEndOfText ==
    /\ lexing /\ Char(at) = NUL
    /\ Return(Read(EndOfFile, at, at, at))
    /\ UNCHANGED <<text, options, within, pc, hash, lineno, marking, braces, tree, diagnostics>>

\* A backslash joins the line with the next one, when only blanks follow it.
ReadBackslash ==
    /\ lexing /\ Char(at) = "\\"
    /\ within' = TRUE /\ at' = at + 1
    /\ UNCHANGED <<text, options, lexing, tk, pc, hash, lineno, marking, braces, tree,
                   diagnostics>>

AtComment == Char(at) = "/" /\ Char(at + 1) \in {"/", "*"}

\* A comment is a token when the options keep it, whatever its kind.
ReadComment ==
    /\ lexing /\ AtComment
    /\ LET read == IF Char(at + 1) = "/" THEN LineCommentAt(at + 2) ELSE BlockCommentAt(at + 2)
       IN  IF "KeepComments" \in options THEN Return(read)
           ELSE at' = read.end /\ UNCHANGED <<lexing, tk>>
    /\ within' = FALSE
    /\ UNCHANGED <<text, options, pc, hash, lineno, marking, braces, tree, diagnostics>>

\* The constants, the literals, the words and the punctuators.  What a number
\* lacks is diagnosed at the free slot, the index of the last token added.
ReadToken ==
    /\ lexing /\ Char(at) \notin Blanks \cup {"\\", NUL} /\ ~AtComment
    /\ LET read == TokenAt(at)
       IN  /\ Return(read)
           /\ diagnostics' =
                IF "imaginary" \in DOMAIN read
                THEN diagnostics \o [i \in 1..Cardinality(Incompatibilities(read)) |->
                                        Len(tokens)]
                ELSE diagnostics
    /\ within' = FALSE
    /\ UNCHANGED <<text, options, pc, hash, lineno, marking, braces, tree>>

-----------------------------------------------------------------------------
(* Lexer::lex, one action for each place that waits for a token.           *)

Ready(place) == ~lexing /\ pc = place

\* Calls yylex again, and waits for the token at a place.
Await(place) ==
    /\ pc' = place /\ lexing' = TRUE /\ tk' = Fresh
    /\ UNCHANGED <<text, options, at, within>>

\* The token that was read is looked at by another place.
Reconsider(place) == pc' = place /\ UNCHANGED <<text, options, reading>>

OnLine(kind) == ~tk.bol /\ tk.kind = kind
IsWord(word) == OnLine(Identifier) /\ tk.low = tk.high /\ text[tk.low] = word

Numerals == <<"0", "1", "2", "3", "4", "5", "6", "7", "8", "9">>

\* strtoul of the text of the token: its first digits, 0 for what is no number.
\* (No text here has a hexadecimal number in a directive.)
Value ==
    LET base == IF Char(tk.low) = "0" THEN 8 ELSE 10
        last == Skip(IF base = 8 THEN Octals ELSE Digits, tk.low) - 1
        digit(c) == CHOOSE n \in 0..9 : Numerals[n + 1] = c
        read[j \in (tk.low - 1)..last] ==
            IF j < tk.low THEN 0 ELSE base * read[j - 1] + digit(text[j])
    IN  IF tk.kind = IntegerConstant THEN read[last] ELSE 0

OfDirective == tk.bol /\ tk.kind = <<"#">>

Directive ==
    /\ Ready("token") /\ OfDirective
    /\ hash' = Offset(tk.from)
    /\ Await("hash")
    /\ UNCHANGED <<lineno, marking, braces, tree, diagnostics>>

\* After the hash: a mark, the word "line", or what may be a line number.
DirectiveName ==
    /\ Ready("hash")
    /\ CASE IsWord("expansion") -> Await("mark")
         [] IsWord("line") -> Await("number")
         [] OTHER -> Reconsider("number")
    /\ UNCHANGED <<hash, lineno, marking, braces, tree, diagnostics>>

DirectiveNumber ==
    /\ Ready("number")
    /\ IF OnLine(IntegerConstant) THEN lineno' = Value /\ Await("file")
       ELSE Reconsider("rest") /\ UNCHANGED lineno
    /\ UNCHANGED <<hash, marking, braces, tree, diagnostics>>

\* A number and the name of a file are a line directive.
DirectiveFile ==
    /\ Ready("file")
    /\ IF OnLine(StringLiteral)
       THEN /\ directives' = Append(directives, [offset |-> hash, lineno |-> lineno])
            /\ Await("rest")
       ELSE Reconsider("rest") /\ UNCHANGED directives
    /\ UNCHANGED <<hash, lineno, marking, braces, tokens, matching, comments, marks, diagnostics>>

(* Mutant: the token of the next line ends the directive and is dropped.   *)
DirectiveRest_DropsNext ==
    /\ Ready("rest")
    /\ IF tk.kind = EndOfFile THEN Reconsider("token")
       ELSE Await(IF tk.bol THEN "token" ELSE "rest")
    /\ UNCHANGED <<hash, lineno, marking, braces, tree, diagnostics>>

\* The rest of the line is skipped.
DirectiveRest ==
    /\ Ready("rest")
    /\ IF tk.bol \/ tk.kind = EndOfFile THEN Reconsider("token") ELSE Await("rest")
    /\ UNCHANGED <<hash, lineno, marking, braces, tree, diagnostics>>

(* Mutant: what was expanded last is not forgotten.                        *)
Mark_KeepsExpansions ==
    /\ Ready("mark")
    /\ CASE IsWord("begin") -> Await("skip") /\ skip' = 3
         [] IsWord("end") -> Await("token") /\ UNCHANGED skip
         [] OTHER -> Reconsider("token") /\ UNCHANGED skip
    /\ UNCHANGED <<hash, lineno, expansions, expansionIdx, braces, tree, diagnostics>>

\* A mark begins an expansion, whose offset and length are passed over; or
\* ends it; or is no mark, and the token is an ordinary one.
Mark ==
    /\ Ready("mark")
    /\ CASE IsWord("begin") ->
                /\ Await("skip") /\ skip' = 3
                /\ UNCHANGED <<expansions, expansionIdx>>
         [] IsWord("end") ->
                /\ Await("token") /\ expansions' = <<>> /\ expansionIdx' = 0
                /\ UNCHANGED skip
         [] OTHER -> Reconsider("token") /\ UNCHANGED marking
    /\ UNCHANGED <<hash, lineno, braces, tree, diagnostics>>

SkipToken ==
    /\ Ready("skip")
    /\ skip' = skip - 1
    /\ Await(IF skip = 1 THEN "data" ELSE "skip")
    /\ UNCHANGED <<hash, lineno, expansions, expansionIdx, braces, tree, diagnostics>>

\* The data of a mark: "~ n" for n generated tokens, "line : column" for a
\* token with a position of its own.  The loop does not read past any other
\* token: it then runs for ever.
AtUnknownData ==
    /\ Ready("data") /\ ~tk.bol
    /\ tk.kind \notin {EndOfFile, <<"~">>, IntegerConstant}

(* Mutant: the loop does not stop at the end of the text.                  *)
MarkData_PastEnd ==
    /\ Ready("data") /\ ~AtUnknownData
    /\ CASE tk.bol -> Reconsider("token") /\ UNCHANGED lineno
         [] ~tk.bol /\ tk.kind = EndOfFile -> Await("data") /\ UNCHANGED lineno
         [] OnLine(<<"~">>) -> Await("generated") /\ UNCHANGED lineno
         [] OTHER -> Await("colon") /\ lineno' = Value
    /\ UNCHANGED <<hash, marking, braces, tree, diagnostics>>

MarkData ==
    /\ Ready("data") /\ ~AtUnknownData
    /\ CASE tk.bol \/ tk.kind = EndOfFile -> Reconsider("token") /\ UNCHANGED lineno
         [] OnLine(<<"~">>) -> Await("generated") /\ UNCHANGED lineno
         [] OTHER -> Await("colon") /\ lineno' = Value
    /\ UNCHANGED <<hash, marking, braces, tree, diagnostics>>

GeneratedTokens ==
    /\ Ready("generated")
    /\ expansions' = expansions \o [i \in 1..Value |-> Generated]
    /\ Await("data")
    /\ UNCHANGED <<hash, lineno, skip, expansionIdx, braces, tree, diagnostics>>

Colon ==
    /\ Ready("colon")
    /\ Await("column")
    /\ UNCHANGED <<hash, lineno, marking, braces, tree, diagnostics>>

Column ==
    /\ Ready("column")
    /\ expansions' = Append(expansions, <<lineno, Value>>)
    /\ Await("data")
    /\ UNCHANGED <<hash, lineno, skip, expansionIdx, braces, tree, diagnostics>>

CommentKinds == {Comment, DocComment, BlockComment, BlockDocComment, Omission}

KeepComment ==
    /\ Ready("token") /\ tk.kind \in CommentKinds \ {Omission}
    /\ comments' = Append(comments, tk)
    /\ Await("token")
    /\ UNCHANGED <<hash, lineno, marking, braces, tokens, matching, directives, marks,
                   diagnostics>>

\* The matches, with that of some opening braces.
Closed(openings, match) ==
    [i \in openings \cup DOMAIN matching |-> IF i \in openings THEN match ELSE matching[i]]

(* Mutant: a closing brace without an opening one is pushed as well.       *)
MatchBraces_Unbalanced(count) ==
    CASE tk.kind \in {<<"{">>, <<"}">>} /\ braces = <<>> ->
            braces' = Append(braces, count) /\ UNCHANGED matching
      [] tk.kind = <<"{">> /\ braces # <<>> ->
            braces' = Append(braces, count) /\ UNCHANGED matching
      [] tk.kind = <<"}">> /\ braces # <<>> ->
            /\ matching' = Closed({braces[Len(braces)]}, count)
            /\ braces' = SubSeq(braces, 1, Len(braces) - 1)
      [] tk.kind = EndOfFile /\ braces # <<>> ->
            /\ matching' = Closed({braces[k] : k \in DOMAIN braces}, count + 1)
            /\ braces' = <<>>
      [] OTHER -> UNCHANGED <<braces, matching>>

(* Mutant: a brace is pushed with the index of the token before it.        *)
MatchBraces_OneBefore(count) ==
    CASE tk.kind = <<"{">> -> braces' = Append(braces, count - 1) /\ UNCHANGED matching
      [] tk.kind = <<"}">> /\ braces # <<>> ->
            /\ matching' = Closed({braces[Len(braces)]}, count)
            /\ braces' = SubSeq(braces, 1, Len(braces) - 1)
      [] tk.kind = EndOfFile /\ braces # <<>> ->
            /\ matching' = Closed({braces[k] : k \in DOMAIN braces}, count + 1)
            /\ braces' = <<>>
      [] OTHER -> UNCHANGED <<braces, matching>>

\* A brace is pushed with the index its token will have; a closing brace is
\* the match of the last one.  At the end the open braces match the index past
\* the last token.
MatchBraces(count) ==
    CASE tk.kind = <<"{">> -> braces' = Append(braces, count) /\ UNCHANGED matching
      [] tk.kind = <<"}">> /\ braces # <<>> ->
            /\ matching' = Closed({braces[Len(braces)]}, count)
            /\ braces' = SubSeq(braces, 1, Len(braces) - 1)
      [] tk.kind = EndOfFile /\ braces # <<>> ->
            /\ matching' = Closed({braces[k] : k \in DOMAIN braces}, count + 1)
            /\ braces' = <<>>
      [] OTHER -> UNCHANGED <<braces, matching>>

WithMark(token, isExpanded, isGenerated) ==
    [token EXCEPT !.expanded = isExpanded, !.generated = isGenerated]

\* An ordinary token takes the next mark, if there is one, and is added.
AddToken ==
    /\ Ready("token") /\ ~OfDirective /\ tk.kind \notin CommentKinds \ {Omission}
    /\ LET expanded == expansionIdx < Len(expansions)
           mark == IF expanded THEN expansions[expansionIdx + 1] ELSE Generated
       IN  /\ tokens' = Append(tokens, WithMark(tk, expanded, expanded /\ mark[1] = 0))
           /\ expansionIdx' = IF expanded THEN expansionIdx + 1 ELSE expansionIdx
           /\ marks' = IF mark[1] = 0 THEN marks ELSE (Offset(tk.from) :> mark) @@ marks
    /\ MatchBraces(Len(tokens) + 1)
    /\ comments' = IF tk.kind = Omission THEN Append(comments, tk) ELSE comments
    /\ IF tk.kind = EndOfFile THEN Reconsider("done") ELSE Await("token")
    /\ UNCHANGED <<hash, lineno, skip, expansions, directives, diagnostics>>

-----------------------------------------------------------------------------

Lex ==
    \/ Blank \/ ReadEndOfText \/ ReadBackslash \/ ReadComment \/ ReadToken
    \/ Directive \/ DirectiveName \/ DirectiveNumber \/ DirectiveFile \/ DirectiveRest
    \/ Mark \/ SkipToken \/ MarkData \/ GeneratedTokens \/ Colon \/ Column
    \/ KeepComment \/ AddToken
=============================================================================
