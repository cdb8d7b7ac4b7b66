--------------------------- MODULE MCSqlflowJupyter ---------------------------
EXTENDS SqlflowJupyter
====
