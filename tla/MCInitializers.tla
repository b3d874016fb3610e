--------------------------- MODULE MCInitializers ---------------------------
EXTENDS Initializers

Int_ == Scalar("int")
Char == Scalar("char")
Pointer == Scalar("pointer")

\* struct { struct { int a[2]; int b; } a; T* b; }, int [][2],
\* struct { union { int a; int b[2]; } a; int b; },
\* struct { char a[2]; char* b; }, char [], int
MCObjects == {
  [type |-> Struct(<< Struct(<< Array(2, Int_), Int_ >>), Pointer >>), designators |-> {".a", ".b", "b:", "[1]"}],
  [type |-> Array(Unknown, Array(2, Int_)), designators |-> {"[0]", "[1]"}],
  [type |-> Struct(<< Union(<< Int_, Array(2, Int_) >>), Int_ >>), designators |-> {".a", ".b", "a:"}],
  [type |-> Struct(<< Array(2, Char), Pointer >>), designators |-> {".b"}],
  [type |-> Array(Unknown, Char), designators |-> {"[1]"}],
  [type |-> Int_, designators |-> {}] }
=============================================================================
