--------------------------- MODULE MCFormats -------------------------------
EXTENDS Formats

MCTypes == {"LogResponse", "BatchedLogRequest", "ICoreConfiguration", "Scalars", "Nested", "Hooked"}

MCExtensions(t) ==
    IF t = "Hooked" THEN << PB_OPTEXT_STATIC(9, "INT32"), PB_OPTEXT_POINTER(10, "BYTES") >> ELSE << >>

Absent == [has |-> FALSE, val |-> 0]
Is(v) == [has |-> TRUE, val |-> v]

(* Boundary values of the widths *)
Ints64 == {Absent} \cup {Is(v) : v \in {0, Group, -1, -(2^(W64 - 1)), 2^(W64 - 1) - 1}}
Ints32 == {Absent} \cup {Is(v) : v \in {1, -1, -(2^(W32 - 1))}}

(* Pointers of a structure to be encoded are only compared with NULL. *)
ArrayOf(items) == [ptr |-> IF items = << >> THEN NULL ELSE 1, val |-> items]
Block(bytes) == [ptr |-> 1, val |-> bytes]
None == [ptr |-> NULL, val |-> << >>]

Upto2(S) == {<< >>} \cup {<<x>> : x \in S} \cup {<<x, y>> : x \in S, y \in S}

Plain(v) == [val |-> v]
Counted(items) == [count |-> Len(items), val |-> items]

Config(q, l) == 2 :> q @@ 3 :> l
Configs == {Config(Absent, Absent), Config(Is(2^W32 - 1), Is(-1))}
Override(cs, p) == 1 :> ArrayOf(cs) @@ 2 :> p
Response(m, o) == 1 :> m @@ 3 :> o
NoOverride == [has |-> FALSE, val |-> Defaults["QosTiersOverride"]]

Event(b, z) == 6 :> b @@ 15 :> z @@ Defaults["LogEvent"]
Connection == 1 :> [has |-> TRUE, val |-> -1] @@ 2 :> Is(1)
Events == {Event(None, Is(-(2^(W64 - 1)))), Event(Block(<< >>), Is(3)),
           23 :> Is(Connection) @@ Event(Block(<<7, 0>>), Absent)}
Client == 4 :> Is(6 :> Block(<<1>>) @@ Defaults["IosClientInfo"]) @@ Defaults["ClientInfo"]
Request(s, es) == 2 :> s @@ 3 :> ArrayOf(es) @@ Defaults["LogRequest"]

Item(b, z) == 6 :> b @@ 15 :> z
Hooks(ns, bs, x, p) ==
    1 :> [func |-> TRUE, val |-> ns] @@ 2 :> [func |-> TRUE, val |-> bs]
    @@ 8 :> << [f |-> MCExtensions("Hooked")[1], found |-> TRUE, m |-> Plain(x)],
               [f |-> MCExtensions("Hooked")[2], found |-> p # None, m |-> p] >>

MCSources(t) ==
     CASE t = "LogResponse" ->
        {Response(m, NoOverride) : m \in Ints64}
        \cup {Response(m, Is(Override(cs, p))) :
                 m \in {Is(-1)}, cs \in Upto2(Configs), p \in {Absent, Is(Group)}}
       [] t = "BatchedLogRequest" ->
        {1 :> ArrayOf(<<Request(s, << >>)>>) : s \in Ints32}
        \cup {1 :> ArrayOf(<<Request(Absent, es)>>) : es \in Upto2(Events)}
        \cup {1 :> ArrayOf(<<1 :> Is(Client) @@ Request(Absent, << >>), Request(Is(1), << >>)>>)}
       [] t = "ICoreConfiguration" ->
        {7 :> ArrayOf(s) @@ 36 :> (IF s = << >> THEN Absent ELSE Is(1)) @@ Defaults["ICoreConfiguration"] :
            s \in Upto2({0, 2^W32 - 1})}
       [] t = "Scalars" ->
        {1 :> Plain(b) @@ 2 :> Plain(b * (2^W32 - 1)) @@ 3 :> Plain(y[1]) @@ 4 :> Plain(<<0, 3>>)
           @@ 5 :> y[2] @@ 6 :> y[3] @@ 7 :> Counted(a) :
              b \in {0, 1},
              y \in {<< << >>, [has |-> FALSE, val |-> << >>], Block(<<5>>) >>,
                     << <<1, 2>>, Is(<<0, 1>>), None >>},
              a \in {<< >>, <<1, 2^W64 - 1>>}}
       [] t = "Nested" ->
        {1 :> p @@ 2 :> Counted(a) @@ 3 :> Plain(c) @@ 4 :> i :
              p \in {None, Block(Item(Block(<<7, 0>>), Absent))},
              a \in Upto2({Item(None, Is(-1)), Item(Block(<<7, 0>>), Absent)}),
              c \in {Config(Is(2^W32 - 1), Is(-1))}, i \in {[ptr |-> NULL, val |-> 0], Block(-1)}}
       [] t = "Hooked" ->
        {Hooks(ns, bs, x, p) : ns \in {<< >>, <<0, 2^W32 - 1>>}, bs \in {<< >>, << <<3, 3>> >>},
                               x \in {0, -1}, p \in {None, Block(<<2>>)}}

MCUpdates(t) ==
     CASE t = "LogResponse" ->
        {Response(Is(2), Is(Override(<<Config(Absent, Is(1))>>, Absent))),
         Response(Absent, Is(Override(<< >>, Is(0))))}
       [] t = "BatchedLogRequest" -> {1 :> ArrayOf(<<Request(Is(5), <<Event(Block(<<1>>), Is(1))>>)>>)}
       [] t = "ICoreConfiguration" ->
        {7 :> ArrayOf(<<3, 2^W32 - 1>>) @@ 9 :> Block(<<4>>) @@ Defaults["ICoreConfiguration"]}
       [] t = "Scalars" ->
        {1 :> Plain(1) @@ 2 :> Plain(1) @@ 3 :> Plain(<<4>>) @@ 4 :> Plain(<<1, 0>>)
           @@ 5 :> Is(<< >>) @@ 6 :> Block(<<6, 7>>) @@ 7 :> Counted(<<5>>)}
       [] t = "Nested" ->
        {1 :> Block(Item(Block(<<2>>), Absent)) @@ 2 :> Counted(<<Item(Block(<<1>>), Absent)>>)
           @@ 3 :> Plain(Config(Is(1), Absent)) @@ 4 :> Block(1)}
       [] t = "Hooked" -> {Hooks(<<1>>, << <<1>> >>, 5, Block(<<6>>))}

MCFrames(t) ==
    IF t \in {"ICoreConfiguration", "Scalars"} THEN {"plain", "delimited", "nullterminated"}
    ELSE {"plain"}
MCHandlers(t) == IF t = "Hooked" THEN {1, 2} ELSE {}
MCTrailer == <<9>>
=============================================================================
