SPECIFICATION Spec
CONSTANT User = {u1}
INVARIANT TaskletInside
