SPECIFICATION Spec
CONSTANTS
  a = a
  b = b
  c = c
  d = d
  en = en
  de = de
  ja = ja
  Threads = {a, b, c, d}
  Bundles = {en, de, ja}
  Default = en
  NoLocale = NoLocale
  LocaleOf <- MCLocales
  JobOf <- MCJobs
  MaxTexts = 2
CHECK_DEADLOCK FALSE
INVARIANTS
  TypeOK
  ForeignTextExplained
