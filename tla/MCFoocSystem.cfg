CONSTANT Families <- SmallFamilies
SPECIFICATION Spec
INVARIANTS LayoutExact LagrangianExact
PROPERTY SucceedsExactly
