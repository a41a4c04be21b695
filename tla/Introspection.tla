---------------------------- MODULE Introspection ----------------------------
(***************************************************************************)
(* inspect (xinspect.cpp): the page that documents an expression.  The     *)
(* type of the expression comes from CppInterOp, which may have to declare *)
(* a new alias for it; the pages come from the tag files that the          *)
(* configurations in tags.d name.                                          *)
(*                                                                         *)
(* Texts are sequences of characters.  A tag file is a sequence of         *)
(* compounds [kind, name, page, members] with members [kind, name, page].  *)
(***************************************************************************)
EXTENDS Integers, Sequences, FiniteSetsExt

CONSTANTS
    WordChar,         \* the characters that \w matches
    EmptyPage,        \* the page of a node that names none: the empty text
    Types,            \* Types[e]: the name of e, for each type GetType finds
    Declarable        \* <<e, type>>: what cells may declare

\* What is declared has a type with a name, and GetType finds no other.
ASSUME DeclarableAssumption ==
    \A d \in Declarable :
        d[2] # << >> /\ (d[1] \in DOMAIN Types => Types[d[1]] = d[2])

VARIABLES
    tagconfs,         \* the configurations in tags.d, a set
    typeOf,           \* the expressions valid in the session, with their types
    var_count,        \* the number of the next alias
    aliases           \* the type of each alias declared so far

sessionVars == <<tagconfs, typeOf, var_count, aliases>>

\* The function f with the value v at x.
Bind(f, x, v) == [y \in DOMAIN f \cup {x} |-> IF y = x THEN v ELSE f[y]]

-----------------------------------------------------------------------------
(* Regular expressions.                                                    *)

AllWord(s) == \A i \in DOMAIN s : s[i] \in WordChar

Pairs == {<<"(", ")">>, <<"<", ">">>, <<"[", "]">>}

\* \:{2} | \<.*\> | \(.*\) | \[.*\], or nothing.
IsTail(s) ==
    \/ s = << >> \/ s = <<":", ":">>
    \/ Len(s) >= 2 /\ <<s[1], s[Len(s)]>> \in Pairs

\* (\w*(?:\:{2}|\<.*\>|\(.*\)|\[.*\])?)(\.?)*$ from the start of s.
IsInspectable(s) ==
    \E j \in 0..Len(s) : \E k \in j..Len(s) :
        /\ AllWord(SubSeq(s, 1, j))
        /\ IsTail(SubSeq(s, j + 1, k))
        /\ \A i \in k+1..Len(s) : s[i] = "."

\* What regex_search finds of it: the longest suffix.
LastWord(s) ==
    LET From(i) == SubSeq(s, i, Len(s))
    IN  From(Min({i \in 1..Len(s)+1 : IsInspectable(From(i))}))

\* ([^\s]+(?:\s*\([^)]+\))?): a word and, behind it, a text in parentheses.
ToInspect(s) ==
    LET blank == {i \in DOMAIN s : s[i] = " "}
        first == Min((DOMAIN s \ blank) \cup {Len(s) + 1})
        last == Min({i \in blank : i > first} \cup {Len(s) + 1}) - 1
        open == Min({i \in last+1..Len(s) : i \notin blank} \cup {Len(s) + 1})
        close == Min({i \in open+1..Len(s) : s[i] = ")"} \cup {Len(s) + 1})
    IN  IF close <= Len(s) /\ s[open] = "(" /\ close >= open + 2
        THEN SubSeq(s, first, close)
        ELSE SubSeq(s, first, last)

\* (.*)\.(\w*)$: the last dot, if only word characters follow it, or 0.
MemberDot(e) ==
    LET dot == Max({i \in DOMAIN e : e[i] = "."} \cup {0})
    IN  IF AllWord(SubSeq(e, dot + 1, Len(e))) THEN dot ELSE 0

\* \w+(\:{2}\w+)+: names between pairs of colons.
IsScoped(e) ==
    LET Colon(i) == i \in DOMAIN e /\ e[i] = ":"
    IN  /\ \E i \in DOMAIN e : Colon(i)
        /\ {e[1], e[Len(e)]} \subseteq WordChar
        /\ \A i \in DOMAIN e :
              \/ e[i] \in WordChar
              \/ Colon(i) /\ Cardinality({j \in {i - 1, i + 1} : Colon(j)}) = 1

-----------------------------------------------------------------------------
(* Types.                                                                  *)

\* The alias id can be declared with the type of e: e is valid, and an earlier
\* alias of that name has the same type.
Declares(e, id) ==
    /\ e \in DOMAIN typeOf
    /\ id \in DOMAIN aliases => aliases[id] = typeOf[e]

NextCount_Same == var_count

\* var_count++, whether the declaration then succeeds or not.
NextCount == var_count + 1

\* find_type_slow: the type's name, or the empty one, and its side effects.
find_type_slow(e) ==
    IF e \in DOMAIN Types
    THEN [name |-> Types[e], count |-> var_count, aliases |-> aliases]
    ELSE IF Declares(e, var_count)
    THEN [name |-> typeOf[e], count |-> NextCount,
          aliases |-> Bind(aliases, var_count, typeOf[e])]
    ELSE [name |-> << >>, count |-> NextCount, aliases |-> aliases]

-----------------------------------------------------------------------------
(* Tag files.                                                              *)

\* The places of a tag file: <<i, 0>> is its i-th compound, <<i, j>> the j-th member of
\* that.  In document order a compound comes before its members.
Places(tags) ==
    UNION {{i} \X ({0} \cup DOMAIN tags[i].members) : i \in DOMAIN tags}
NodeAt(tags, s) == IF s[2] = 0 THEN tags[s[1]] ELSE tags[s[1]].members[s[2]]
Earlier(s, t) == s[1] < t[1] \/ (s[1] = t[1] /\ s[2] < t[2])
FirstOf(S) == CHOOSE s \in S : \A t \in S : ~ Earlier(t, s)
LastOf(S) == CHOOSE s \in S : \A t \in S : ~ Earlier(s, t)

IsNode_AnyKind(node, kind, name) == node.name = name

\* node_predicate{kind, name}.
IsNode(node, kind, name) == node.kind = kind /\ node.name = name

\* find_node(node_predicate{kind, name}), as the set of its pages: one or none.  The
\* first node counts, and one that names no page is passed over.
FindNode(tags, kind, name) ==
    LET found == {s \in Places(tags) : IsNode(NodeAt(tags, s), kind, name)}
    IN  IF found = {} THEN {} ELSE {NodeAt(tags, FirstOf(found)).page} \ {EmptyPage}

ClassMatches_AnyClass(c, class, member) ==
    /\ c.kind \in {"class", "struct"}
    /\ \E i \in DOMAIN c.members :
          c.members[i].kind = "function" /\ c.members[i].name = member

\* class_member_predicate{class, "function", member}.
ClassMatches(c, class, member) ==
    /\ c.kind \in {"class", "struct"}
    /\ c.name = class
    /\ \E i \in DOMAIN c.members :
          c.members[i].kind = "function" /\ c.members[i].name = member

\* find_node(class_member_predicate) and get_filename: the member is a hit, with or
\* without a page.
FindMember(tags, class, member) ==
    LET found == {i \in DOMAIN tags : ClassMatches(tags[i], class, member)}
        members == tags[Min(found)].members
        at == Min({i \in DOMAIN members : members[i].kind = "function"
                                          /\ members[i].name = member})
    IN  IF found = {} THEN {} ELSE {members[at].page}

-----------------------------------------------------------------------------
(* inspect.                                                                *)

\* The empty string, where a page is a pair of a URL and a file.
NoPage == << >>

Kinds == <<"class", "struct", "function">>

\* What is looked for in a tag file: the name or, behind a dot, the member.  A tag file
\* that cannot be loaded has no nodes.
Pages(tags, name, dot, member) ==
    IF dot > 0 THEN <<FindMember(tags, name, member)>>
    ELSE [k \in DOMAIN Kinds |-> FindNode(tags, Kinds[k], name)]

\* The loop over the configurations: each node that is found replaces inspect_result,
\* so the last one stays.
LookUp(order, name, dot, member) ==
    LET PagesOf(i) == Pages(order[i].tags, name, dot, member)
        hits == {s \in UNION {{i} \X DOMAIN PagesOf(i) : i \in DOMAIN order} :
                    PagesOf(s[1])[s[2]] # {}}
        last == LastOf(hits)
    IN  IF hits = {} \/ (dot > 0 /\ name = << >>) THEN NoPage
        ELSE <<order[last[1]].url, CHOOSE p \in PagesOf(last[1])[last[2]] : TRUE>>

\* A configuration that is not JSON makes read_tagconfs throw, before anything
\* else; one without its keys, the loop, if there is a name to look up.
Throws(name, dot) ==
    \/ \E conf \in tagconfs : conf.json = "broken"
    \/ (dot = 0 \/ name # << >>) /\ \E conf \in tagconfs : conf.json = "no keys"

\* inspect(code): the expression, the name and member looked up, the result,
\* and the session afterwards.  The directory is read in any order.
Inspection(code, order) ==
    LET e == ToInspect(code)
        dot == MemberDot(e)
        object == IF dot > 0 THEN SubSeq(e, 1, dot - 1) ELSE e
        member == IF dot > 0 THEN SubSeq(e, dot + 1, Len(e)) ELSE << >>
        asks == ~(dot = 0 /\ IsScoped(e)) /\ ~\E c \in tagconfs : c.json = "broken"
        found == IF asks THEN find_type_slow(object)
                 ELSE [name |-> << >>, count |-> var_count, aliases |-> aliases]
        name == IF found.name = << >> THEN object ELSE found.name
        threw == Throws(name, dot)
    IN  [object |-> object, asked |-> asks, name |-> name, dot |-> dot,
         member |-> member, threw |-> threw,
         result |-> IF threw THEN NoPage ELSE LookUp(order, name, dot, member),
         count |-> found.count, aliases |-> found.aliases]

SessionInit ==
    /\ typeOf = << >>
    /\ var_count = 0
    /\ aliases = << >>

\* inspect's effect on the session.
Inspected(i) ==
    /\ var_count' = i.count
    /\ aliases' = i.aliases
    /\ UNCHANGED <<tagconfs, typeOf>>

\* A cell declares something that the user may ask about.
Declare ==
    \E d \in Declarable :
        /\ d[1] \notin DOMAIN typeOf
        /\ typeOf' = Bind(typeOf, d[1], d[2])
        /\ UNCHANGED <<tagconfs, var_count, aliases>>

Orders == {o \in [1..Cardinality(tagconfs) -> tagconfs] :
              \A c \in tagconfs : \E i \in DOMAIN o : o[i] = c}
=============================================================================
