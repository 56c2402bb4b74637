------------------------------- MODULE FastCli -------------------------------
(* Fast_cli (fastcli.hpp).  A line is split into tokens (_split_cmd); the    *)
(* function of the command that the first one names then asks for its        *)
(* options one at a time (stencil_t::next).  The two halves are modelled one *)
(* beside the other, the splitting on characters and the options on the      *)
(* tokens that may come out of it, so that each can be checked on longer     *)
(* input.                                                                    *)
(*                                                                           *)
(* The characters are those the splitting tells apart: "a" for text, "n",    *)
(* which an escape makes a newline, " " for a delimiter, "q" for a quote,    *)
(* "\\" for the escape and "?" for any other.  A token after the command is  *)
(* its number of dashes (one before a number counts), the name behind them,  *)
(* and whether it converts to a number.  The command that the first token    *)
(* names is looked up in the map of Commands, which no step here changes.    *)
EXTENDS Commands

CONSTANTS Tokens,   \* the tokens a line may have
          Opts,     \* the options of the command, a sequence of records
          MaxLine,  \* bound on the characters of a line
          MaxToks   \* bound on the tokens after the command

\* An option without a letter would end the loop over the options; a flag has
\* no turn among the tokens without dashes.
ASSUME FastCliAssumption ==
  /\ {MaxLine, MaxToks} \subseteq Nat
  /\ \A tok \in Tokens : tok.dashes \in 0 .. 2
  /\ Opts \in Seq(Range(Opts))
  /\ \A i \in DOMAIN Opts : /\ Opts[i].sh0rt \notin {"", "0x1"}
                            /\ Opts[i].arg = "flag" => Opts[i].fast_id = -1

VARIABLES stage,   \* where execute is, or how it ended
          text,    \* what has been read of the line
          crtTok,
          inQte,
          pieces,  \* toks, while the line is split
          toks,    \* toks after the command, for its options
          id0,     \* how many of them are used
          fid,     \* _fid of the stencil
          told     \* what next has returned: each option with its arguments

splitting == <<text, crtTok, inQte, pieces>>
options   == <<toks, id0, fid, told>>
cvars     == <<stage, splitting, options>>

CInit == /\ stage = "idle"
         /\ text = <<>> /\ crtTok = <<>> /\ inQte = FALSE /\ pieces = <<>>
         /\ toks = <<>> /\ id0 = 0 /\ fid = 0 /\ told = <<>>

-----------------------------------------------------------------------------
(* _split_cmd *)

Execute == /\ stage = "idle"
           /\ stage' = "split"
           /\ UNCHANGED <<splitting, options>>

Reads(c) == /\ stage = "split"
            /\ Len(text) < MaxLine
            /\ text' = Append(text, c)

PushCrtTok == /\ pieces' = IF crtTok = <<>> THEN pieces ELSE Append(pieces, crtTok)
              /\ crtTok' = <<>>

TextChar(c) == /\ Reads(c)
               /\ crtTok' = Append(crtTok, c)
               /\ UNCHANGED <<stage, inQte, pieces, options>>

\* Mutant: quotes do not protect a delimiter.
DelimiterAlways == /\ Reads(" ")
                   /\ PushCrtTok
                   /\ UNCHANGED <<stage, inQte, options>>

Delimiter == /\ Reads(" ")
             /\ IF inQte THEN crtTok' = Append(crtTok, " ") /\ UNCHANGED pieces
                         ELSE PushCrtTok
             /\ UNCHANGED <<stage, inQte, options>>

Quote == /\ Reads("q")
         /\ inQte' = ~inQte
         /\ UNCHANGED <<stage, crtTok, pieces, options>>

Chars == {"a", "n", " ", "q", "\\", "?"}
Morph(c) == IF c = "n" THEN "newline" ELSE c

Escape(c) == /\ stage = "split"
             /\ Len(text) + 1 < MaxLine
             /\ text' = text \o <<"\\", c>>
             /\ crtTok' = Append(crtTok, Morph(c))
             /\ UNCHANGED <<stage, inQte, pieces, options>>

\* A character of no kind, or an escape with nothing behind it.
BadChar == /\ \E c \in {"?", "\\"} : Reads(c)
           /\ stage' = "badsplit"
           /\ UNCHANGED <<crtTok, inQte, pieces, options>>

SplitEnd == /\ stage = "split"
            /\ IF inQte THEN stage' = "badsplit" /\ UNCHANGED <<crtTok, pieces>>
                        ELSE stage' = "tokens" /\ PushCrtTok
            /\ UNCHANGED <<text, inQte, options>>

-----------------------------------------------------------------------------
(* stencil_t::next *)

\* The first token is found in the command map.
Command == /\ stage = "idle"
           /\ stage' = "options"
           /\ toks' \in BoundedSeq(Tokens, MaxToks)
           /\ UNCHANGED <<splitting, id0, fid, told>>

Found(tok) ==
  CASE tok.dashes = 2 -> {i \in DOMAIN Opts : Opts[i].l0ng = tok.name}
    [] tok.dashes = 1 -> {i \in DOMAIN Opts : Opts[i].sh0rt = tok.name}
    [] tok.dashes = 0 -> {i \in DOMAIN Opts : Opts[i].fast_id = fid}

Fits(opt, tok) == opt.arg = "text" \/ tok.number

\* The arguments an option takes from the tokens after the first `from`.
Taken(opt, from) ==
  LET run == {n \in 0..Len(toks) - from :
                \A k \in 1..n : Fits(opt, toks[from + k])}
  IN CASE opt.arg = "flag" -> <<>>
       [] opt.arg # "flag" /\ opt.argc = "multi" ->
            SubSeq(toks, from + 1, from + Max(run))
       [] OTHER -> SubSeq(toks, from + 1, from + Min({1, Max(run)}))

Used(opt, from) == from + Len(Taken(opt, from))

NextError == /\ stage' = "badarg"
             /\ id0' = Len(toks)
             /\ UNCHANGED told

\* A token with dashes is the name of an option; one without is itself the
\* first argument of the option whose turn it is.
NextOption ==
  /\ stage = "options"
  /\ id0 < Len(toks)
  /\ LET tok   == toks[id0 + 1]
         named == tok.dashes > 0
         from  == IF named THEN id0 + 1 ELSE id0
     IN /\ fid' = IF named THEN fid ELSE fid + 1
        /\ IF Found(tok) = {} THEN NextError
           ELSE LET opt  == Opts[Min(Found(tok))]
                    args == Taken(opt, from)
                IN IF opt.arg # "flag" /\ args = <<>> THEN NextError
                   ELSE /\ told' = Append(told, [opt |-> opt, args |-> args,
                                   name |-> IF named THEN <<tok>> ELSE <<>>])
                        /\ id0' = Used(opt, from)
                        /\ UNCHANGED stage
  /\ UNCHANGED <<toks, splitting>>

NextDone == /\ stage = "options"
            /\ id0 >= Len(toks)
            /\ stage' = "done"
            /\ UNCHANGED <<splitting, options>>

\* The next line; a context is made for each.
Again == /\ stage \in {"badsplit", "tokens", "badarg", "done"}
         /\ stage' = "idle"
         /\ text' = <<>> /\ crtTok' = <<>> /\ inQte' = FALSE /\ pieces' = <<>>
         /\ toks' = <<>> /\ id0' = 0 /\ fid' = 0 /\ told' = <<>>

CNext == \/ Execute \/ Delimiter \/ Quote \/ BadChar \/ SplitEnd
         \/ \E c \in {"a", "n"} : TextChar(c)
         \/ \E c \in Chars : Escape(c)
         \/ Command \/ NextOption \/ NextDone \/ Again

-----------------------------------------------------------------------------
(* What a line s says, by the position of its characters.                    *)

Escaped(s, i) == Cardinality({j \in 1..i - 1 :
                                \A k \in j..i - 1 : s[k] = "\\"}) % 2 = 1

Is(s, c, i) == s[i] = c /\ ~Escaped(s, i)
Quoted(s, i) == Cardinality({j \in 1..i - 1 : Is(s, "q", j)}) % 2 = 1

Says(s, i) == IF Is(s, "q", i) \/ Is(s, "\\", i) THEN <<>>
              ELSE IF Escaped(s, i) THEN <<Morph(s[i])>> ELSE <<s[i]>>

Delimits(s, i) == Is(s, " ", i) /\ ~Quoted(s, i)

\* A piece begins behind a place of Cuts and ends before the next delimiter.
Cuts(s) == {0} \union {i \in 1..Len(s) : Delimits(s, i)}
End(s, cut) == Min({i \in cut + 1..Len(s) + 1 :
                      i = Len(s) + 1 \/ Delimits(s, i)})
Piece(s, cut) == FlattenSeq([k \in 1..End(s, cut) - cut - 1 |-> Says(s, cut + k)])

\* Those with something in them, in order.
FilledCuts(s) == {cut \in Cuts(s) : Piece(s, cut) # <<>>}
Written(s) == [n \in 1..Cardinality(FilledCuts(s)) |->
                 Piece(s, CHOOSE cut \in FilledCuts(s) :
                            Cardinality({c \in FilledCuts(s) : c <= cut}) = n)]

\* A line is cut at the delimiters that are neither escaped nor quoted, and
\* nowhere else; quotes and escapes go, what they protect stays, pieces with
\* nothing in them are left out.  A line is refused only for a character of
\* no kind, an escape with nothing behind it, or a quote that is not closed
\* (fastcli.hpp:336-395).
SplitAsWritten ==
  /\ stage = "tokens" => pieces = Written(text)
  /\ stage = "badsplit" => \/ Quoted(text, Len(text) + 1)
                           \/ \E c \in {"?", "\\"} : Is(text, c, Len(text))

TokensOf(entry) == entry.name \o entry.args

\* The options a command hears of are the tokens of the line, each once and
\* in order, also around a list of arguments that a token of another kind
\* ends; all of them if the loop ends well; and each option has arguments of
\* its kind, one unless it takes a list (fastcli.hpp:435-496).
EveryTokenOnce ==
  /\ stage = "options" =>
       FlattenSeq([n \in DOMAIN told |-> TokensOf(told[n])])
         = SubSeq(toks, 1, id0)
  /\ stage = "done" => id0 = Len(toks)
  /\ \A n \in DOMAIN told :
       LET e == told[n] IN
         /\ \A k \in DOMAIN e.args : Fits(e.opt, e.args[k])
         /\ e.opt.arg = "flag" => e.args = <<>>
         /\ e.opt.arg # "flag" => e.args # <<>>
         /\ e.opt.argc = "single" => Len(e.args) <= 1

\* What Fast_cli makes of a line: it is split as it was written, the command
\* it names is found, and each of its tokens is used once by the options
\* (fastcli.hpp:268-316, 319-411, 437-496).
LinesAreUnderstood == SplitAsWritten /\ CommandsAreFound /\ EveryTokenOnce
=============================================================================
