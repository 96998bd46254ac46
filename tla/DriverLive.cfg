CONSTANTS
  Receiving = {t1} Sending = {t2}
  Nobody = Nobody
  Slots = 1 MaxId = 1 MaxInits = 1
SPECIFICATION PartsSpec
PROPERTIES NetAnswers InterruptsServed
