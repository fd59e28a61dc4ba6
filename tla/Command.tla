------------------------------ MODULE Command ------------------------------
(***************************************************************************)
(* How the hook reads a shell command (hook/cmd/obsigna-hook/              *)
(* shell_target.go), and what a shell makes of the same command.           *)
(*                                                                         *)
(* A command is a sequence of items: words, the redirect ">", and items    *)
(* the lexer refuses.  EscapedSpace is a word with a backslash before a    *)
(* space in it, IntoDir a long option with its operand, Comment the sign   *)
(* that makes a comment of the rest.                                       *)
(***************************************************************************)
EXTENDS Naturals, Sequences, FiniteSets, SequencesExt

Delete == "filesystem.file.delete"
Move   == "filesystem.file.move"
Create == "filesystem.file.create"
Read   == "filesystem.file.read"
Modify == "filesystem.file.modify"

(* Operators, expansions and open quotes, by one item each; a redirect of    *)
(* another descriptor; what is left to the shell within a word.              *)
forbiddenOps == {";", "$", "'"}
OtherRedirects == {"2>", ">&"}
pathExpansionChars == {"*", "~"}
EscapedSpace == "a\\ b"
IntoDir == "--target-directory=g"
Comment == "#"

NoTarget == [action |-> "", path |-> ""]

(* lex knows no escapes and no comments: a backslash is an ordinary          *)
(* character and the space behind it ends the word.  <<>> if it declines.    *)
lex(cmd) ==
    LET Tokens(item) == IF item = EscapedSpace THEN <<"a\\", "b">> ELSE <<item>>
    IN IF \E i \in DOMAIN cmd : cmd[i] \in forbiddenOps \cup OtherRedirects
       THEN <<>>
       ELSE FlattenSeq([i \in DOMAIN cmd |-> Tokens(cmd[i])])

Redirects(tokens) == {i \in DOMAIN tokens : tokens[i] = ">"}

Flags == {"-f", "-t", "--", IntoDir}

(* The items of s at some of its places. *)
At(s, places) ==
    [n \in 1..Cardinality(places) |->
        s[CHOOSE i \in places : Cardinality({j \in places : j <= i}) = n]]

operandsOnly(args) ==
    LET ends == {i \in DOMAIN args : args[i] = "--"}
        last == IF ends = {} THEN Len(args) + 1
                ELSE CHOOSE i \in ends : \A j \in ends : i <= j
    IN At(args, {i \in DOMAIN args : i > last \/ (i < last /\ args[i] \notin Flags)})

Claim(action, word) ==
    IF word \in pathExpansionChars THEN NoTarget ELSE [action |-> action, path |-> word]

singleOperand(args, action) ==
    LET operands == operandsOnly(args)
    IN IF Len(operands) = 1 THEN Claim(action, operands[1]) ELSE NoTarget

lastOperand(args, action) ==
    LET operands == operandsOnly(args)
    IN IF Len(operands) >= 2 THEN Claim(action, Last(operands)) ELSE NoTarget

(* The verb decides before the redirect does; two redirects, or one without  *)
(* an operand, decide nothing.                                               *)
extractBashTarget(cmd) ==
    LET tokens   == lex(cmd)
        at       == Redirects(tokens)
        redirect == CHOOSE i \in at : TRUE
        words    == IF at = {} THEN tokens
                    ELSE SubSeq(tokens, 1, redirect - 1)
                         \o SubSeq(tokens, redirect + 2, Len(tokens))
        verb     == IF words = <<>> THEN "" ELSE Head(words)
        ByVerb   == CASE verb = "rm" -> singleOperand(Tail(words), Delete)
                      [] verb = "mv" -> lastOperand(Tail(words), Move)
                      [] verb = "cp" -> lastOperand(Tail(words), Create)
                      [] OTHER -> IF at = {} THEN NoTarget ELSE Claim(Create, tokens[redirect + 1])
    IN IF Cardinality(at) > 1 \/ Len(tokens) \in at THEN NoTarget ELSE ByVerb
-----------------------------------------------------------------------------
(* What a POSIX shell does with a command of these items: the set of pairs   *)
(* of an action and a path.  A pattern stands for some file.  Nothing is     *)
(* said of a command with a forbidden operator.                              *)

WellFormed(cmd) ==
    /\ cmd # <<>>
    /\ \A i \in DOMAIN cmd : /\ cmd[i] \notin forbiddenOps \cup OtherRedirects
                             /\ cmd[i] = ">" => i < Len(cmd) /\ cmd[i + 1] # ">"

(* -t or its long form names the destination of mv and cp; both come before  *)
(* "--".                                                                     *)
Destination(args) ==
    LET ends == {i \in DOMAIN args : args[i] = "--"}
        Option(name) == {i \in DOMAIN args : args[i] = name /\ \A j \in ends : i < j}
        t    == {i \in Option("-t") : i < Len(args)}
        operands == operandsOnly(args)
    IN CASE t # {} -> {args[(CHOOSE i \in t : TRUE) + 1]}
         [] t = {} /\ Option(IntoDir) # {} -> {"g"}
         [] OTHER -> IF Len(operands) >= 2 THEN {Last(operands)} ELSE {}

Effects(cmd) ==
    LET read   == {i \in DOMAIN cmd : \A j \in 1..i : cmd[j] # Comment}
        at     == Redirects(cmd) \cap read
        kept   == {i \in read : i \notin at /\ i - 1 \notin at}
        words  == At(cmd, kept)
        simple == IF words # <<>> /\ Head(words) = "sudo" THEN Tail(words) ELSE words
        verb   == IF simple = <<>> THEN "" ELSE Head(simple)
        ran    == CASE verb = "rm" -> {<<Delete, p>> : p \in ToSet(operandsOnly(Tail(simple)))}
                    [] verb = "mv" -> {<<Move, p>> : p \in Destination(Tail(simple))}
                    [] verb = "cp" -> {<<Create, p>> : p \in Destination(Tail(simple))}
                    [] OTHER -> {}
    IN ran \cup {<<Create, cmd[i + 1]>> : i \in at}
=============================================================================
