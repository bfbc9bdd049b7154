------------------------------- MODULE MCScript -------------------------------
(* Expressions, equations, signals, matrices and fields for                *)
(* ScriptCorrectness: every pair of short pieces under every operation.    *)
EXTENDS ScriptCorrectness

X == Symbol("x")
A == Symbol("a")
Y == Symbol("y")
Z == Symbol("z")
T == Symbol("t")
Sqrt2(u) == Pow(u, Number(<<1, 2>>))

Paired(S, R) ==
  UNION {{Add(<<p, q>>), Mul(<<p, q>>), Sub(p, q), Div(p, q), Pow(p, q)}
         : <<p, q>> \in S \X R}
Applied(fs, S) == {Fn(f, u) : f \in fs, u \in S}

Leaves == {X, A, Num(0), Num(1), Num(-1), Num(2), Number(<<1, 2>>)}
Short == {Add(<<X, A>>), Sub(A, X), Mul(<<Num(2), X>>), Mul(<<A, X>>),
  Div(X, A), Square(X), Pow(X, Num(-1)), Pow(Num(2), X), Num(-3),
  Fn("Sin", X), Fn("Exp", X), Fn("Ln", X), X, Fn("Sqrt", X)}
Functions1 == Transcendental \cup {"Abs", "Sqrt"}
Linear == Add(<<Mul(<<Num(2), X>>), Num(1)>>)
Longer == {
  Mul(<<Num(3), Square(X), Fn("Cos", Pow(X, Num(3)))>>),
  Mul(<<Num(2), X, Fn("Exp", Square(X))>>),
  Div(Mul(<<Num(2), X>>), Add(<<Square(X), Num(1)>>)),
  Div(Num(1), Add(<<Num(4), Square(X)>>)),
  Pow(Sub(Num(1), Square(X)), Number(<<-1, 2>>)),
  Pow(Add(<<Num(1), Square(X)>>), Num(-1)),
  Pow(Fn("Sec", Linear), Num(2)), Pow(Fn("Sin", X), Num(-2)),
  Pow(Linear, Num(-1)), Pow(Linear, Num(3)), Pow(Num(2), Linear),
  Mul(<<X, Fn("Sin", X)>>), Mul(<<Square(X), Fn("Exp", X)>>),
  Mul(<<X, Fn("Ln", X)>>), Mul(<<Num(3), X, Fn("Cos", X)>>),
  Fn("Arctan", Linear), Fn("Sin", Linear), Fn("Exp", Square(X)),
  Fn("Tan", Linear), Fn("Cosh", Linear), Div(Num(1), Linear),
  Sub(Num(1), Sub(X, A)), Add(<<X, Mul(<<Num(-2), A>>), Num(-1)>>),
  Add(<<Mul(<<A, X, X>>), Mul(<<X, Num(2), A>>)>>),
  Mul(<<Pow(X, Num(2)), Pow(X, Num(-2)), A>>),
  Div(Mul(<<A, Square(X)>>), Mul(<<Num(2), X>>)),
  Add(<<X, Pow(Num(-2), Num(3)), Pow(X, Add(<<Num(1), Num(1)>>))>>)}
Roots ==
  LET bases == {X, Square(X), Mul(<<Num(-2), X>>), Mul(<<Symbol("k"), X, X>>), Div(A, X), Add(<<X, Num(3)>>),
                Mul(<<A, X, X, A>>), Sub(Num(0), Square(X))}
  IN  {Pow(b, Number(r)) : b \in bases, r \in {<<1, 2>>, <<-1, 2>>, <<3, 2>>}}
RootProducts == UNION {{Mul(<<A, r>>), Div(X, r), Mul(<<r, X>>), r, Pow(r, Num(2))} : r \in Roots}
Expressions ==
  RootProducts \cup Paired(Leaves, Leaves) \cup Paired(Short, Short) \cup Longer
    \cup Applied(Functions1, {X, Num(0), Num(1), Num(2), Linear})

Left  == {X, Mul(<<Num(2), X>>), Mul(<<Y, X>>), Square(X), Mul(<<Y, Square(X)>>),
  Div(X, Y), Div(Y, X), Add(<<X, Y>>), Sub(Y, X), Add(<<Mul(<<Y, X>>), Num(3)>>),
  Sub(Square(X), Num(4)), Add(<<Square(X), Square(Y)>>), Div(Sub(X, Num(1)), Y),
  Pow(X, Num(3)), Fn("Sin", X)}
Right == {Num(0), Num(5), Y, Square(Y), Mul(<<Num(3), Y>>), Fn("Cos", Y), X,
  Add(<<X, Num(2)>>), Mul(<<X, Y>>), Sub(Num(1), Y)}
Equations == {Equation(l, r) : l \in Left, r \in Right}
               \cup {Equation(r, l) : l \in Left, r \in Right}
               \cup {Equation(Mul(<<Num(4), Sqrt2(X)>>), r) : r \in {Num(8), Y}}

Y1 == Symbol("y'")
Y2 == Symbol("y''")
Differentials ==
  {Equation(Add(<<Y2, Mul(<<Num(b), Y1>>), Mul(<<Num(c), Y>>)>>), Num(r)) :
     b \in {-2, 0, 2, 3}, c \in {-4, 0, 1, 2, 4, 5}, r \in {0, 10}}
  \cup {Equation(Add(<<Y1, p>>), q) :
     p \in {Y, Mul(<<Num(2), Y>>), Mul(<<Num(-1), Y>>), Mul(<<X, Y>>), Num(0)},
     q \in {Num(0), Num(3), X, Fn("Exp", X), Fn("Sin", X)}}
  \cup {Equation(Y1, q) :
     q \in {Mul(<<X, Y>>), Mul(<<X, Square(Y)>>), Square(Y), Fn("Exp", Y), Y,
            Mul(<<Square(X), Pow(Y, Num(-1))>>), Div(X, Y), Div(Y, X),
            Mul(<<Num(2), X, Sqrt2(Y)>>), Add(<<X, Y>>)}}

W2 == Mul(<<Num(2), T>>)
Pulses == {Num(3), T, Square(T), Pow(T, Num(3)), Fn("Exp", W2),
  Fn("Exp", Mul(<<Num(-1), T>>)), Fn("Sin", W2), Fn("Cos", W2), Fn("Sin", T),
  Fn("Sinh", W2), Fn("Cosh", T), A, Mul(<<A, T>>), Mul(<<Num(4), Fn("Cos", T)>>),
  Mul(<<T, Fn("Exp", T)>>)}
Signals == Pulses \cup {Add(<<p, q>>) : p \in Pulses, q \in Pulses}

Entries == {X, Num(2), Num(0), Symbol("b"), Add(<<A, Num(1)>>)}
Squares2 == {<<<<p, q>>, <<r, s>>>> : p \in {A, Num(3)}, q \in Entries \ {X},
               r \in {Symbol("b"), Num(0), Num(-1)}, s \in {A, Num(5), Symbol("c")}}
Squares3 == {<<<<p, Num(2), q>>, <<Num(0), A, Symbol("b")>>, <<r, Num(1), Num(-1)>>>> :
               p \in {A, Num(0), Num(1)}, q \in {Num(0), Symbol("c")},
               r \in {Num(3), Symbol("b"), Num(0)}}

Surfaces == {X, Mul(<<X, Y>>), Mul(<<X, Y, Z>>), Mul(<<Square(X), Y>>),
  Fn("Sin", Mul(<<X, Z>>)), Add(<<Square(X), Square(Z)>>), Div(X, Y),
  Mul(<<Fn("Exp", X), Z>>), Pow(Add(<<Square(X), Square(Y)>>), Num(-1))}
Fields == {<<f, g, h>> : f \in Surfaces,
             g \in {Y, Mul(<<X, Z>>), Square(X)}, h \in {Z, Mul(<<X, Y>>)}}

Quantities ==
  LET d == Quantity("v", One) w == Quantity("w", Whole(2)) u == Quantity("u", Zero)
      short == {d, w, u, X, Num(2), Mul(<<d, d>>), Div(w, d), Fn("Sqrt", w)}
  IN  Paired(short, short) \cup {Pow(d, Number(<<1, 2>>)), Fn("Sin", Div(d, d))}

MCSamples ==
  {[task |-> "expression", e |-> e] : e \in Expressions}
  \cup {[task |-> "equation", e |-> e] : e \in Equations}
  \cup {[task |-> "differential", e |-> e] : e \in Differentials}
  \cup {[task |-> "signal", e |-> e] : e \in Signals}
  \cup {[task |-> "quantities", e |-> e] : e \in Quantities}
  \cup {[task |-> "matrix", rows |-> m] : m \in Squares2 \cup Squares3}
  \cup {[task |-> "field", field |-> f] : f \in Fields}
===============================================================================
