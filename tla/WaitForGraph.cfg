CONSTANT Tasks = {1, 2, 3, 4}
SPECIFICATION Spec
INVARIANTS TypeOK ReportIsLargest ReportIsDownstream
PROPERTIES ReportsAtOnce
