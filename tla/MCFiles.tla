------------------------------- MODULE MCFiles -------------------------------
(* Files on a small instance: sectors of two bytes on a disk of eight sectors, *)
(* an executable of one sector and a data file that ends inside its second.  *)
EXTENDS Files

MCStart == [prog |-> 1, data |-> 2]
MCLength == [prog |-> 2, data |-> 3]

Part(type, offset, sectors) == [type |-> type, offset |-> offset, size |-> sectors]

\* Tables with and without the file system, with entries that reach past the end, wrap
\* around, or are extended partitions.
MCTables == [valid : {TRUE}, entries :
                {<<Part("kernel", 0, 2), Part("filesys", 2, 5)>>,
                 <<Part("filesys", 1, 7), Part("foreign", 6, 12)>>,
                 <<Part("empty", 0, 3), Part("filesys", 9, 5)>>,
                 <<Part("filesys", 3, 14), Part("filesys", 5, 4)>>,
                 <<Part("extended", 4, 4), Part("filesys", 2, 2)>>,
                 <<Part("extended", 2, 4), Part("kernel", 0, 2)>>}]
            \cup [valid : {FALSE}, entries : {<<Part("kernel", 0, 2)>>}]

MCBuffers == {<<1, 2>>}
MCSizes == {-1, 3}
MCPositions == {-1, 1, 4}
=============================================================================
