--------------------------- MODULE MCMoteusFrames ---------------------------
(* The inputs MoteusFrames is checked on: every run of fields at one        *)
(* resolution with the rest at another, for the commands and the query;     *)
(* values beyond the range and not finite; replies cut short, padded, and   *)
(* made of any bytes.                                                       *)
EXTENDS MoteusFrames

Names(block) == [i \in DOMAIN block.fields |-> block.fields[i][1]]

(* The formats that give the i-th to the j-th name one resolution and the   *)
(* others another.                                                          *)
Striped(names, pairs) ==
    {[n \in {names[k] : k \in DOMAIN names} |->
        IF n \in {names[k] : k \in i..j} THEN p[1] ELSE p[2]] :
            i \in 1..Len(names), j \in 1..Len(names), p \in pairs}

Pairs == {<<"kFloat", "kIgnore">>, <<"kInt16", "kInt8">>, <<"kInt32", "kInt16">>,
          <<"kIgnore", "kInt8">>}

Same == {<<res, res>> : res \in Resolutions}

Base == [command |-> << >>, format |-> << >>, values |-> << >>, query |-> "none",
         queryFormat |-> << >>, extra |-> << >>, items |-> << >>, cut |-> 0, pad |-> 0,
         parse |-> "Query", raw |-> << >>, undefined |-> 0]

Distinct(names) == [n \in {names[k] : k \in DOMAIN names} |->
                       CHOOSE k \in DOMAIN names : names[k] = n]

All(names, v) == [n \in {names[k] : k \in DOMAIN names} |-> v]

(* One command with every striped format.                                   *)
Plain(command, block, query) ==
    LET names == Names(block)
    IN {[Base EXCEPT !.command = command, !.format = f, !.values = Distinct(names),
                     !.query = query, !.queryFormat = DefaultQueryFormat] :
            f \in Striped(names, Pairs)}

(* And with the special values, which the fields of a double can have: with *)
(* each, what its conversion to an integer may come to.                     *)
Specials == ({nan, inf} \X Undefined) \cup ({above, below} \X {0})

Commanded(command, block, query) ==
    LET names == Names(block)
    IN Plain(command, block, query)
       \cup
       {[Base EXCEPT !.command = command, !.format = f, !.values = All(names, special[1]),
                     !.undefined = special[2]] :
            f \in Striped(names, Same), special \in Specials}

WithoutGaps(block) == [block EXCEPT !.fields = SelectSeq(@, LAMBDA f : f # Gap)]

Commands ==
    Commanded(PositionMode, PositionMode[2], "none")
    \cup Commanded(PositionMode, PositionMode[2], "default")
    \cup Commanded(StayWithinMode, StayWithinMode[2], "override")
    \cup Commanded(VFOCMode, WithoutGaps(VFOCMode[2]), "default")
    \cup Commanded(CurrentMode, CurrentMode[2], "default")
    \cup Commanded(ZeroVelocityMode, ZeroVelocityMode[2], "default")
    \cup Plain(GpioWrite, GpioWrite[1], "default")
    \cup Commanded(AuxPwmWrite, AuxPwmWrite[1], "none")

Literals ==
    {[Base EXCEPT !.command = c, !.query = "default", !.queryFormat = DefaultQueryFormat] :
        c \in {BrakeMode, StopMode, RequireReindex, RecapturePositionVelocity,
               OutputNearest(5), OutputExact(6), ClockTrim(-7), GpioRead}}

QueryNames == Names(Query(<< >>)[1]) \o Names(Query(<< >>)[2]) \o
              Names(Query(<< >>)[3]) \o Names(Query(<< >>)[4])

Items == {<< >>, <<[register |-> 258, resolution |-> "kInt32"]>>,
          <<[register |-> 126, resolution |-> "kInt16"],
            [register |-> 127, resolution |-> "kInt16"],
            [register |-> 129, resolution |-> "kFloat"]>>}

Queries ==
    {[Base EXCEPT !.query = "override", !.queryFormat = f] : f \in Striped(QueryNames, Pairs)}
    \cup
    {[Base EXCEPT !.query = "override", !.queryFormat = f, !.extra = e,
                  !.cut = end[1], !.pad = end[2]] :
        f \in {DefaultQueryFormat, << >>}, e \in Items,
        end \in {<<c, 0>> : c \in 1..5} \cup {<<0, p>> : p \in {0, 1, 3}}}

(* More items than a query has extra slots.                                 *)
Many == [k \in 1..(kMaxExtra + 2) |-> [register |-> 299 + k, resolution |-> "kInt8"]]

GenericQueries ==
    {[Base EXCEPT !.command = GenericQuery(items), !.items = items,
                  !.query = "override", !.parse = p] :
        items \in (Items \ {<< >>}) \cup {Many}, p \in {"Query", "GenericQuery"}}

(* Bytes that mean something to the parser: padding, replies of every form, *)
(* counts, the continuation of a number, and what is no reply.              *)
Telling == {kNop, 32, 33, 39, 44, 0, 1, 128, 255}

Stray == {[Base EXCEPT !.raw = bytes] :
             bytes \in UNION {[1..n -> Telling] : n \in 1..5}}
         \cup {[Base EXCEPT !.raw = <<32, c>> \o [k \in 1..62 |-> 0],
                            !.parse = "GenericQuery"] : c \in {127, 128, 129, 255}}

MCInputs == Commands \cup Literals \cup Queries \cup GenericQueries \cup Stray
=============================================================================
