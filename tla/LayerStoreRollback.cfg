CONSTANTS
  None = None
  a = a b = b c = c d = d t1 = t1 t2 = t2
  ia = ia ib = ib ic = ic id = id l1 = l1 l2 = l2 f1 = f1 f2 = f2
  Procs = {p1}
  Tag = {t1}
  Layer = {a, b}
  Work = {v1, ia, ib, ic, id, l1, l2, f1, f2}
  VM = {v1}
  Parent <- MCParent
  Anc <- MCAnc
  ImportVol <- MCImportVol
  LoadVol <- MCLoadVol
  FetchVol <- MCFetchVol
  Ops = {"pull", "rm"}
  Faults = {}
  MaxFaults = 0
SPECIFICATION Spec
PROPERTY ReplaceKeepsImage
